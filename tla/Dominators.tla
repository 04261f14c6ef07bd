----------------------------- MODULE Dominators -----------------------------
(***************************************************************************)
(* The dominator analysis of one function (Dominators.cpp): a depth-first  *)
(* post-order numbering, the Cooper-Harvey-Kennedy iteration for immediate *)
(* dominators, the dominance frontiers and the children in the dominator   *)
(* tree, in the order Dominators::run calls them.                          *)
(*                                                                         *)
(* Blocks are numbered by their position in Function::basic_blocks_, so    *)
(* the entry block is 1.  0 is the null pointer: the std::maps of the pass *)
(* are indexed by it as by any block, and idom_[nullptr] reads as nullptr. *)
(* Successor and predecessor lists are sets, and a loop over one of them   *)
(* takes its elements in any order.                                        *)
(***************************************************************************)
EXTENDS FlowGraph, Sequences

CONSTANTS
  N,      \* number of basic blocks of the function
  CFG     \* the control-flow graphs considered: block -> successor blocks

Block == 1..N
Null  == 0
Root  == 1
Ptr   == 0..N

ASSUME DominatorsAssumption ==
  /\ N \in Nat \ {0}
  /\ CFG \subseteq [Block -> SUBSET Block]

VARIABLES
  succ,      \* the graph: bb->get_succ_basic_blocks()
  pc,        \* the loop the pass is in
  stack,     \* the activations of post_order_visit, innermost last
  visited,   \* the set "visited" of create_reverse_post_order
  rpo,       \* reverse_post_order_ (in post order until it is reversed)
  id,        \* post_order_id_
  idom,      \* idom_
  df,        \* dom_frontier_
  kids,      \* dom_tree_succ_blocks_
  pos,       \* position of the outer loop over a list of blocks
  changed,   \* the flag of create_idom
  rest,      \* predecessors the current inner loop has still to look at
  new_idom,  \* the candidate of create_idom
  b1, b2     \* arguments of intersect; b1 is also the runner of the frontier

order_vars == <<stack, visited, rpo, id>>
loop_vars  == <<pos, changed, rest, new_idom, b1, b2>>
vars == <<succ, pc, order_vars, idom, df, kids, loop_vars>>

Pred(b) == {p \in Block : b \in succ[p]}

Phase == {"dfs", "idom", "preds", "intersect", "df", "df_preds", "climb",
          "tree", "done", "abort"}

-----------------------------------------------------------------------------
(***************************************************************************)
(* Dominators::run on a function with at least one block: the entries of   *)
(* the maps are created empty, and create_reverse_post_order calls         *)
(* post_order_visit on the entry block.                                    *)
(***************************************************************************)
Init ==
  /\ succ \in CFG
  /\ pc = "dfs"
  /\ stack = <<Root>>
  /\ visited = {Root}
  /\ rpo = <<>>
  /\ id = [b \in Block |-> 0]
  /\ idom = [b \in Ptr |-> Null]
  /\ df = [b \in Ptr |-> {}]
  /\ kids = [b \in Ptr |-> {}]
  /\ pos = 1
  /\ changed = FALSE
  /\ rest = {}
  /\ new_idom = Null
  /\ b1 = Null
  /\ b2 = Null

-----------------------------------------------------------------------------
(***************************************************************************)
(* post_order_visit.                                                       *)
(***************************************************************************)
Top == stack[Len(stack)]

\* The recursive call on a successor that is not yet visited.
Visit(b) ==
  /\ pc = "dfs"
  /\ b \in succ[Top] \ visited
  /\ visited' = visited \cup {b}
  /\ stack' = Append(stack, b)
  /\ UNCHANGED <<succ, pc, rpo, id, idom, df, kids, loop_vars>>

\* Mutant: the block is counted after it is numbered from minus one.
NumberedOffByOne ==
  /\ pc = "dfs"
  /\ succ[Top] \subseteq visited
  /\ id' = [id EXCEPT ![Top] = Len(rpo) - 1]
  /\ stack' = SubSeq(stack, 1, Len(stack) - 1)

\* No unvisited successor is left: the block is numbered with the current
\* length of the list and appended, and the activation returns.
Numbered ==
  /\ pc = "dfs"
  /\ succ[Top] \subseteq visited
  /\ id' = [id EXCEPT ![Top] = Len(rpo)]
  /\ stack' = SubSeq(stack, 1, Len(stack) - 1)

FinishInner ==
  /\ Numbered
  /\ Len(stack) > 1
  /\ rpo' = Append(rpo, Top)
  /\ UNCHANGED <<succ, pc, visited, idom, df, kids, loop_vars>>

\* Mutant: reverse_post_order_.reverse() is forgotten.
NotReversed(s) == s

Reversed(s) == [i \in 1..Len(s) |-> s[Len(s) - i + 1]]

\* Mutant: set_idom(root, root) is forgotten.
ClearedNoRoot == [b \in Ptr |-> Null]

\* create_idom clears every idom and makes the root its own.
Cleared == [b \in Ptr |-> IF b = Root THEN Root ELSE Null]

\* The outermost activation returns: the list is reversed, and create_idom
\* enters its loop.
FinishRoot ==
  /\ Numbered
  /\ Len(stack) = 1
  /\ rpo' = Reversed(Append(rpo, Top))
  /\ idom' = Cleared
  /\ pc' = "idom"
  /\ UNCHANGED <<succ, visited, df, kids, loop_vars>>

-----------------------------------------------------------------------------
(***************************************************************************)
(* create_idom.                                                            *)
(***************************************************************************)
Bb == rpo[pos]

SkipRoot ==
  /\ pc = "idom"
  /\ pos <= Len(rpo)
  /\ Bb = Root
  /\ pos' = pos + 1
  /\ UNCHANGED <<succ, pc, order_vars, idom, df, kids, changed, rest,
                 new_idom, b1, b2>>

\* The first predecessor that already has an idom starts the candidate; if
\* there is none, assert(pred) fails.
FirstPred ==
  /\ pc = "idom"
  /\ pos <= Len(rpo)
  /\ Bb # Root
  /\ LET ready == {p \in Pred(Bb) : idom[p] # Null} IN
       IF ready = {}
       THEN pc' = "abort" /\ UNCHANGED <<new_idom, rest>>
       ELSE \E p \in ready :
              /\ new_idom' = p
              /\ rest' = Pred(Bb) \ {p}
              /\ pc' = "preds"
  /\ UNCHANGED <<succ, order_vars, idom, df, kids, pos, changed, b1, b2>>

\* Mutant: the other predecessors are not intersected.
OtherPredIgnored(p) ==
  /\ pc = "preds"
  /\ p \in rest
  /\ rest' = rest \ {p}
  /\ UNCHANGED <<succ, pc, order_vars, idom, df, kids, pos, changed, new_idom,
                 b1, b2>>

\* One of the other predecessors: skipped without an idom, otherwise
\* intersected with the candidate.
OtherPred(p) ==
  /\ pc = "preds"
  /\ p \in rest
  /\ rest' = rest \ {p}
  /\ IF idom[p] = Null
     THEN UNCHANGED <<pc, b1, b2>>
     ELSE /\ b1' = p
          /\ b2' = new_idom
          /\ pc' = "intersect"
  /\ UNCHANGED <<succ, order_vars, idom, df, kids, pos, changed, new_idom>>

\* Mutant: the comparison with the old idom is dropped.
StoreAlwaysChanged ==
  /\ pc = "preds"
  /\ rest = {}
  /\ idom' = [idom EXCEPT ![Bb] = new_idom]
  /\ changed' = TRUE
  /\ pos' = pos + 1
  /\ pc' = "idom"
  /\ UNCHANGED <<succ, order_vars, df, kids, rest, new_idom, b1, b2>>

\* All predecessors are done: the candidate is stored if it is new.
Store ==
  /\ pc = "preds"
  /\ rest = {}
  /\ idom' = [idom EXCEPT ![Bb] = new_idom]
  /\ changed' = (changed \/ idom[Bb] # new_idom)
  /\ pos' = pos + 1
  /\ pc' = "idom"
  /\ UNCHANGED <<succ, order_vars, df, kids, rest, new_idom, b1, b2>>

\* Mutant: one pass only.
SinglePass ==
  /\ pc = "idom"
  /\ pos > Len(rpo)
  /\ changed' = FALSE
  /\ pos' = 1
  /\ pc' = "df"
  /\ UNCHANGED <<succ, order_vars, idom, df, kids, rest, new_idom, b1, b2>>

\* The end of a pass over the list: another one if something changed.
NextPass ==
  /\ pc = "idom"
  /\ pos > Len(rpo)
  /\ changed' = FALSE
  /\ pos' = 1
  /\ pc' = IF changed THEN "idom" ELSE "df"
  /\ UNCHANGED <<succ, order_vars, idom, df, kids, rest, new_idom, b1, b2>>

-----------------------------------------------------------------------------
(***************************************************************************)
(* intersect: the argument with the smaller number climbs.  get_idom must  *)
(* not be null there (two assertions).                                     *)
(***************************************************************************)
Climb1 ==
  /\ pc = "intersect"
  /\ id[b1] < id[b2]
  /\ IF idom[b1] = Null
     THEN pc' = "abort" /\ UNCHANGED b1
     ELSE b1' = idom[b1] /\ UNCHANGED pc
  /\ UNCHANGED <<succ, order_vars, idom, df, kids, pos, changed, rest,
                 new_idom, b2>>

Climb2 ==
  /\ pc = "intersect"
  /\ id[b2] < id[b1]
  /\ IF idom[b2] = Null
     THEN pc' = "abort" /\ UNCHANGED b2
     ELSE b2' = idom[b2] /\ UNCHANGED pc
  /\ UNCHANGED <<succ, order_vars, idom, df, kids, pos, changed, rest,
                 new_idom, b1>>

Met ==
  /\ pc = "intersect"
  /\ b1 = b2
  /\ new_idom' = b1
  /\ pc' = "preds"
  /\ UNCHANGED <<succ, order_vars, idom, df, kids, pos, changed, rest, b1, b2>>

-----------------------------------------------------------------------------
(***************************************************************************)
(* create_dominance_frontier: for a block with two or more predecessors,   *)
(* a runner climbs from each of them to the idom of the block.             *)
(***************************************************************************)
\* Mutant: off by one in the number of predecessors of a join.
FrontierBlockOffByOne ==
  /\ pc = "df"
  /\ pos <= N
  /\ IF Cardinality(Pred(pos)) > 2
     THEN rest' = Pred(pos) /\ pc' = "df_preds" /\ UNCHANGED pos
     ELSE pos' = pos + 1 /\ UNCHANGED <<rest, pc>>
  /\ UNCHANGED <<succ, order_vars, idom, df, kids, changed, new_idom, b1, b2>>

FrontierBlock ==
  /\ pc = "df"
  /\ pos <= N
  /\ IF Cardinality(Pred(pos)) >= 2
     THEN rest' = Pred(pos) /\ pc' = "df_preds" /\ UNCHANGED pos
     ELSE pos' = pos + 1 /\ UNCHANGED <<rest, pc>>
  /\ UNCHANGED <<succ, order_vars, idom, df, kids, changed, new_idom, b1, b2>>

FrontierPred(p) ==
  /\ pc = "df_preds"
  /\ p \in rest
  /\ rest' = rest \ {p}
  /\ b1' = p
  /\ pc' = "climb"
  /\ UNCHANGED <<succ, order_vars, idom, df, kids, pos, changed, new_idom, b2>>

FrontierClimb ==
  /\ pc = "climb"
  /\ IF b1 # idom[pos]
     THEN /\ df' = [df EXCEPT ![b1] = @ \cup {pos}]
          /\ b1' = idom[b1]
          /\ UNCHANGED pc
     ELSE pc' = "df_preds" /\ UNCHANGED <<df, b1>>
  /\ UNCHANGED <<succ, order_vars, idom, kids, pos, changed, rest, new_idom, b2>>

FrontierNextBlock ==
  /\ pc = "df_preds"
  /\ rest = {}
  /\ pos' = pos + 1
  /\ pc' = "df"
  /\ UNCHANGED <<succ, order_vars, idom, df, kids, changed, rest, new_idom,
                 b1, b2>>

FrontierDone ==
  /\ pc = "df"
  /\ pos > N
  /\ pos' = 1
  /\ pc' = "tree"
  /\ UNCHANGED <<succ, order_vars, idom, df, kids, changed, rest, new_idom,
                 b1, b2>>

(***************************************************************************)
(* create_dom_tree_succ: every block but the root becomes a child of its   *)
(* idom, a block without one a child of the null pointer.                  *)
(***************************************************************************)
\* Mutant: the entry block is not excepted.
TreeBlockWithEntry ==
  /\ pc = "tree"
  /\ pos <= N
  /\ kids' = [kids EXCEPT ![idom[pos]] = @ \cup {pos}]
  /\ pos' = pos + 1
  /\ UNCHANGED <<succ, pc, order_vars, idom, df, changed, rest, new_idom,
                 b1, b2>>

TreeBlock ==
  /\ pc = "tree"
  /\ pos <= N
  /\ kids' = IF idom[pos] # pos
             THEN [kids EXCEPT ![idom[pos]] = @ \cup {pos}]
             ELSE kids
  /\ pos' = pos + 1
  /\ UNCHANGED <<succ, pc, order_vars, idom, df, changed, rest, new_idom,
                 b1, b2>>

TreeDone ==
  /\ pc = "tree"
  /\ pos > N
  /\ pc' = "done"
  /\ UNCHANGED <<succ, order_vars, idom, df, kids, loop_vars>>

-----------------------------------------------------------------------------
Next ==
  \/ \E b \in Block : Visit(b)
  \/ FinishInner
  \/ FinishRoot
  \/ SkipRoot
  \/ FirstPred
  \/ \E p \in Block : OtherPred(p)
  \/ Store
  \/ NextPass
  \/ Climb1
  \/ Climb2
  \/ Met
  \/ FrontierBlock
  \/ \E p \in Block : FrontierPred(p)
  \/ FrontierClimb
  \/ FrontierNextBlock
  \/ FrontierDone
  \/ TreeBlock
  \/ TreeDone

\* The pass is a sequential program: it takes its next step as long as it
\* has one.
Spec == Init /\ [][Next]_vars /\ WF_vars(Next)

-----------------------------------------------------------------------------
(***************************************************************************)
(* The reference definitions of FlowGraph, on this function's graph.       *)
(***************************************************************************)

Reachable  == ReachableIn(succ)
Dom(a, b)  == DomIn(succ, a, b)
SDom(a, b) == SDomIn(succ, a, b)

-----------------------------------------------------------------------------
(***************************************************************************)
(* Properties.                                                             *)
(***************************************************************************)

\* The types of the pass's state.
TypeOK ==
  /\ succ \in [Block -> SUBSET Block]
  /\ pc \in Phase
  /\ stack \in Seq(Block)
  /\ visited \subseteq Block
  /\ rpo \in Seq(Block)
  /\ id \in [Block -> Nat]
  /\ idom \in [Ptr -> Ptr]
  /\ df \in [Ptr -> SUBSET Block]
  /\ kids \in [Ptr -> SUBSET Block]
  /\ pos \in Nat \ {0}
  /\ changed \in BOOLEAN
  /\ rest \subseteq Block
  /\ new_idom \in Ptr
  /\ b1 \in Ptr
  /\ b2 \in Ptr

\* None of the assertions of create_idom (a reachable block has a predecessor
\* that was handled before it) and of intersect (the climb does not leave the
\* tree) fails, whatever the graph and the order of the lists.
NoAbort == pc # "abort"

\* The partial tree create_idom works on always leads to the root: the idom
\* of a block has a larger post-order number ("the root has highest ID",
\* Dominators.h) and an idom itself.  intersect climbs along it.
IdomAscends ==
  pc # "dfs" =>
    \A b \in Block : idom[b] # Null =>
      /\ idom[idom[b]] # Null
      /\ b # Root => id[b] < id[idom[b]]

\* When the numbering is done the list holds each reachable block once, the
\* numbers are its positions from the end, and of every block but the first
\* some predecessor precedes it.
RpoOrder ==
  pc = "idom" =>
    /\ {rpo[i] : i \in 1..Len(rpo)} = Reachable
    /\ Len(rpo) = Cardinality(Reachable)
    /\ \A i \in 1..Len(rpo) :
         /\ id[rpo[i]] = Len(rpo) - i
         /\ i > 1 => \E j \in 1..(i - 1) : rpo[j] \in Pred(rpo[i])

\* An immediate dominator, once found, is only ever replaced by one further
\* up: the iteration cannot oscillate.
IdomOnlyClimbs ==
  [][\A b \in Block : idom[b] # Null => id[idom[b]] <= id[idom'[b]]]_idom

\* create_idom ends with the immediate dominators of the path definition,
\* and with none for a block the entry does not reach.
IdomCorrect ==
  pc = "df" =>
    \A b \in Block :
      IF b = Root THEN idom[b] = Root
      ELSE IF b \in Reachable THEN IsIdomIn(succ, idom[b], b)
      ELSE idom[b] = Null

\* create_dominance_frontier ends with, for every reachable block, the blocks
\* just outside what it dominates.
FrontierCorrect ==
  pc = "done" =>
    \A b \in Reachable :
      df[b] = FrontierIn(succ, b)

\* The tree Mem2Reg::re_name walks hangs each reachable block under exactly
\* one other, and the blocks below a are the blocks a strictly dominates.
Below(a) ==
  LET R[k \in 0..N] == IF k = 0 THEN kids[a]
                       ELSE LET r == R[k - 1] IN r \cup UNION {kids[b] : b \in r}
  IN  R[N]

TreeCorrect ==
  pc = "done" =>
    /\ \A b \in Block \ {Root} : \E a \in Ptr : {c \in Ptr : b \in kids[c]} = {a}
    /\ \A a \in Reachable : Below(a) = {b \in Block : SDom(a, b)}

\* Every loop of the pass ends.
Terminates == <>(pc = "done")
=============================================================================
