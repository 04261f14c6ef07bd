-------------------------- MODULE DominatorsProofs --------------------------
(***************************************************************************)
(* Proofs about Dominators for every number of blocks, every graph and     *)
(* every order of the successor and predecessor lists.  First: the         *)
(* assertions of create_idom and intersect hold, and the partial dominator *)
(* tree always leads to the root.  Then: what the pass computes.           *)
(***************************************************************************)
EXTENDS Dominators, FlowGraphProofs, TLAPS

(***************************************************************************)
(* The inductive invariant.                                                *)
(***************************************************************************)

\* During the numbering: the stack is a path of the graph from the root, it
\* shares no block with the list, numbers are positions in the list, and
\* every numbered block has a predecessor that is on the stack or numbered
\* later.
DfsInv ==
  pc = "dfs" =>
    /\ pos = 1
    /\ Len(stack) >= 1
    /\ stack[1] = Root
    /\ \A i \in 1..Len(stack) : stack[i] \in visited
    /\ \A i \in 1..Len(rpo) : rpo[i] \in visited
    /\ \A i \in 2..Len(stack) : stack[i] \in succ[stack[i - 1]]
    /\ \A i, j \in 1..Len(stack) : stack[i] = stack[j] => i = j
    /\ \A i \in 1..Len(rpo), j \in 1..Len(stack) : rpo[i] # stack[j]
    /\ \A i \in 1..Len(rpo) : id[rpo[i]] = i - 1
    /\ \A i \in 1..Len(rpo) : \E p \in Block :
         /\ rpo[i] \in succ[p]
         /\ \/ \E j \in 1..Len(stack) : stack[j] = p
            \/ \E j \in (i + 1)..Len(rpo) : rpo[j] = p

\* Afterwards: the root comes first, numbers are positions from the end, and
\* every other block of the list comes after one of its predecessors.
OrdInv ==
  pc # "dfs" =>
    /\ Len(rpo) >= 1
    /\ rpo[1] = Root
    /\ \A i \in 1..Len(rpo) : id[rpo[i]] = Len(rpo) - i
    /\ \A i \in 2..Len(rpo) : \E j \in 1..(i - 1) : rpo[i] \in succ[rpo[j]]

\* The blocks with an idom are blocks of the list and form a tree that
\* ascends to the root.
TreeInv ==
  pc # "dfs" =>
    /\ idom[Root] = Root
    /\ \A b \in Block : idom[b] # Null =>
         /\ \E i \in 1..Len(rpo) : rpo[i] = b
         /\ idom[b] \in Block
         /\ idom[idom[b]] # Null
         /\ b # Root => id[b] < id[idom[b]]

\* The blocks a pass of create_idom has gone by have an idom.
PassInv ==
  pc \in {"idom", "preds", "intersect"} =>
    \A i \in 1..Len(rpo) : i < pos => idom[rpo[i]] # Null

\* The candidate is in the tree, no lower than any predecessor looked at;
\* while intersect runs, one of its two arguments has that role.
CandInv ==
  /\ pc \in {"preds", "intersect"} =>
       /\ pos \in 2..Len(rpo)
       /\ new_idom \in Block
       /\ idom[new_idom] # Null
  /\ pc = "preds" =>
       \A q \in Block : Bb \in succ[q] /\ q \notin rest /\ idom[q] # Null
                          => id[q] <= id[new_idom]
  /\ pc = "intersect" =>
       /\ b1 \in Block /\ idom[b1] # Null
       /\ b2 \in Block /\ idom[b2] # Null
       /\ \A q \in Block : Bb \in succ[q] /\ q \notin rest /\ idom[q] # Null
                          => id[q] <= id[b1] \/ id[q] <= id[b2]

\* Inside the frontier loop the outer position is a block.
PosInv == pc \in {"df_preds", "climb"} => pos \in Block

IInv == /\ TypeOK /\ DfsInv /\ OrdInv /\ TreeInv /\ PassInv /\ CandInv
        /\ PosInv /\ NoAbort

-----------------------------------------------------------------------------
(***************************************************************************)
(* The initial state, and one lemma per action.                            *)
(***************************************************************************)

\* Dominators::run enters the numbering in a state of the invariant.
LEMMA InitInv == Init => IInv
<1> SUFFICES ASSUME Init PROVE IInv
  OBVIOUS
<1>1. Root \in Block
  BY DominatorsAssumption DEF Root, Block
<1>2. TypeOK
  <2>1. succ \in [Block -> SUBSET Block]
    BY DominatorsAssumption DEF Init
  <2>2. Null \in Ptr
    BY DominatorsAssumption DEF Null, Ptr
  <2>3. stack \in Seq(Block) /\ rpo \in Seq(Block)
    BY <1>1 DEF Init
  <2>4. /\ pc \in Phase
        /\ visited \subseteq Block
        /\ rest \subseteq Block
        /\ pos \in Nat \ {0}
        /\ changed \in BOOLEAN
    <3>1. pc \in Phase
      BY DEF Init, Phase
    <3>2. visited = {Root} /\ rest = {} /\ pos = 1 /\ changed = FALSE
      BY DEF Init
    <3>3. visited \subseteq Block /\ rest \subseteq Block
      BY <1>1, <3>2
    <3>4. pos \in Nat \ {0}
      BY <3>2
    <3>5. changed \in BOOLEAN
      BY <3>2
    <3> QED
      BY <3>1, <3>3, <3>4, <3>5
  <2>5. /\ id \in [Block -> Nat]
        /\ idom \in [Ptr -> Ptr]
        /\ df \in [Ptr -> SUBSET Block]
        /\ kids \in [Ptr -> SUBSET Block]
        /\ new_idom \in Ptr
        /\ b1 \in Ptr
        /\ b2 \in Ptr
    BY <2>2 DEF Init
  <2> QED
    BY <2>1, <2>3, <2>4, <2>5 DEF TypeOK
<1>3. DfsInv
  BY <1>1 DEF Init, DfsInv
<1> QED
  BY <1>2, <1>3 DEF Init, IInv, OrdInv, TreeInv, PassInv, CandInv, PosInv, NoAbort

\* A recursive call of post_order_visit.
LEMMA VisitInv == ASSUME IInv, NEW b \in Block, Visit(b) PROVE IInv'
<1> USE DEF IInv
<1>1. Len(stack) \in Nat /\ Len(rpo) \in Nat /\ Top \in Block
  BY DEF Visit, TypeOK, DfsInv, Top
<1>2. /\ Len(stack') = Len(stack) + 1
      /\ stack'[Len(stack) + 1] = b
      /\ \A i \in 1..Len(stack) : stack'[i] = stack[i]
  BY <1>1 DEF Visit, TypeOK
<1>3. TypeOK'
  BY DEF Visit, TypeOK, loop_vars
<1>4. DfsInv'
  <2> USE <1>1, <1>2 DEF Visit, loop_vars
  <2>1. /\ pos' = 1
        /\ Len(stack') >= 1
        /\ stack'[1] = Root
        /\ \A i \in 1..Len(stack') : stack'[i] \in visited'
        /\ \A i \in 1..Len(rpo') : rpo'[i] \in visited'
    BY DEF DfsInv
  <2>2. \A i \in 2..Len(stack') : stack'[i] \in succ'[stack'[i - 1]]
    BY DEF DfsInv, Top
  <2>3. \A i, j \in 1..Len(stack') : stack'[i] = stack'[j] => i = j
    BY DEF DfsInv
  <2>4. \A i \in 1..Len(rpo'), j \in 1..Len(stack') : rpo'[i] # stack'[j]
    BY DEF DfsInv
  <2>5. \A i \in 1..Len(rpo') : id'[rpo'[i]] = i - 1
    BY DEF DfsInv
  <2>6. \A i \in 1..Len(rpo') : \E p \in Block :
         /\ rpo'[i] \in succ'[p]
         /\ \/ \E j \in 1..Len(stack') : stack'[j] = p
            \/ \E j \in (i + 1)..Len(rpo') : rpo'[j] = p
    BY DEF DfsInv
  <2> QED
    BY <2>1, <2>2, <2>3, <2>4, <2>5, <2>6 DEF DfsInv
<1> QED
  BY <1>3, <1>4 DEF Visit, OrdInv, TreeInv, PassInv, CandInv, PosInv, NoAbort

\* What post_order_visit does when it returns: a block leaves the stack and
\* takes the next number.
LEMMA PopFacts ==
  ASSUME IInv, Numbered
  PROVE  /\ Len(stack) \in Nat \ {0} /\ Len(rpo) \in Nat
         /\ Top \in Block
         /\ stack' \in Seq(Block)
         /\ Len(stack') = Len(stack) - 1
         /\ \A i \in 1..(Len(stack) - 1) : stack'[i] = stack[i]
         /\ \A i \in 1..Len(rpo) : rpo[i] # Top
         /\ \A i \in 1..Len(rpo) : id'[rpo[i]] = i - 1
         /\ id'[Top] = Len(rpo)
         /\ id' \in [Block -> Nat]
<1> USE DEF IInv
<1>1. Len(stack) \in Nat \ {0} /\ Len(rpo) \in Nat /\ Top \in Block
  BY DEF Numbered, TypeOK, DfsInv, Top
<1>2. /\ stack' \in Seq(Block)
      /\ Len(stack') = Len(stack) - 1
      /\ \A i \in 1..(Len(stack) - 1) : stack'[i] = stack[i]
  <2> DEFINE m == Len(stack) - 1
  <2>1. m \in Nat /\ m <= Len(stack) /\ stack' = SubSeq(stack, 1, m)
    BY <1>1 DEF Numbered
  <2>2. stack \in Seq(Block)
    BY DEF TypeOK
  <2> HIDE DEF m
  <2>3. /\ SubSeq(stack, 1, m) \in Seq(Block)
        /\ Len(SubSeq(stack, 1, m)) = m
        /\ \A i \in 1..m : SubSeq(stack, 1, m)[i] = stack[i]
    BY <1>1, <2>1, <2>2
  <2> QED
    BY <2>1, <2>3 DEF m
<1>3. \A i \in 1..Len(rpo) : rpo[i] # Top /\ rpo[i] \in Block
  BY <1>1 DEF Numbered, DfsInv, Top, TypeOK
<1>4. id' \in [Block -> Nat] /\ id'[Top] = Len(rpo)
  BY <1>1 DEF Numbered, TypeOK
<1>5. \A i \in 1..Len(rpo) : id'[rpo[i]] = i - 1
  BY <1>1, <1>3 DEF Numbered, TypeOK, DfsInv
<1> QED
  BY <1>1, <1>2, <1>3, <1>4, <1>5

\* An inner activation of post_order_visit returns to its caller, which is a
\* predecessor of the block just numbered.
LEMMA FinishInnerInv == ASSUME IInv, FinishInner PROVE IInv'
<1>0. /\ stack' \in Seq(Block)
      /\ id' \in [Block -> Nat]
  BY PopFacts DEF FinishInner
<1>1. /\ Len(stack) \in Nat \ {0} /\ Len(rpo) \in Nat
      /\ Top \in Block
      /\ Len(stack') = Len(stack) - 1
      /\ \A i \in 1..(Len(stack) - 1) : stack'[i] = stack[i]
      /\ \A i \in 1..Len(rpo) : rpo[i] # Top
      /\ \A i \in 1..Len(rpo) : id'[rpo[i]] = i - 1
      /\ id'[Top] = Len(rpo)
  BY PopFacts DEF FinishInner
<1>2. rpo' \in Seq(Block)
  BY <1>1 DEF FinishInner, TypeOK, IInv
<1>3. /\ Len(rpo') = Len(rpo) + 1
      /\ rpo'[Len(rpo) + 1] = Top
      /\ \A i \in 1..Len(rpo) : rpo'[i] = rpo[i]
  BY <1>1 DEF FinishInner, TypeOK, IInv
<1>4. TypeOK'
  BY <1>0, <1>2 DEF FinishInner, TypeOK, IInv, loop_vars
<1>5. /\ pc = "dfs" /\ Len(stack) > 1
      /\ succ' = succ /\ visited' = visited /\ pos' = pos
  BY DEF FinishInner, Numbered, loop_vars
<1>6. DfsInv
  BY DEF IInv
<1>7. DfsInv'
  <2> USE <1>1, <1>3, <1>5
  <2>1. /\ pos' = 1
        /\ Len(stack') >= 1
        /\ stack'[1] = Root
        /\ \A i \in 1..Len(stack') : stack'[i] \in visited'
    BY <1>6 DEF DfsInv
  <2>2. \A i \in 1..Len(rpo') : rpo'[i] \in visited'
    <3>1. Top \in visited
      BY <1>6 DEF DfsInv, Top
    <3>2. \A i \in 1..Len(rpo) : rpo[i] \in visited
      BY <1>6 DEF DfsInv
    <3>3. ASSUME NEW i \in 1..Len(rpo')
          PROVE  rpo'[i] \in visited
      <4>1. CASE i \in 1..Len(rpo)
        BY <3>2, <4>1
      <4>2. CASE i = Len(rpo) + 1
        BY <3>1, <4>2
      <4> QED
        BY <4>1, <4>2
    <3> QED
      BY <3>3
  <2>3. ASSUME NEW i \in 2..Len(stack')
        PROVE  stack'[i] \in succ'[stack'[i - 1]]
    <3>1. i \in 2..Len(stack) /\ stack'[i] = stack[i] /\ stack'[i - 1] = stack[i - 1]
      OBVIOUS
    <3> QED
      BY <1>6, <3>1 DEF DfsInv
  <2>4. \A i, j \in 1..Len(stack') : stack'[i] = stack'[j] => i = j
    BY <1>6 DEF DfsInv
  <2>5. \A i \in 1..Len(rpo'), j \in 1..Len(stack') : rpo'[i] # stack'[j]
    <3>1. \A j \in 1..(Len(stack) - 1) : stack[j] # Top
      BY <1>6 DEF DfsInv, Top
    <3>2. \A i \in 1..Len(rpo), j \in 1..Len(stack) : rpo[i] # stack[j]
      BY <1>6 DEF DfsInv
    <3>3. ASSUME NEW i \in 1..Len(rpo'), NEW j \in 1..Len(stack')
          PROVE  rpo'[i] # stack'[j]
      <4>1. j \in 1..(Len(stack) - 1) /\ stack'[j] = stack[j]
        OBVIOUS
      <4>2. CASE i \in 1..Len(rpo)
        BY <3>2, <4>1, <4>2
      <4>3. CASE i = Len(rpo) + 1
        BY <3>1, <4>1, <4>3
      <4> QED
        BY <4>2, <4>3
    <3> QED
      BY <3>3
  <2>6. \A i \in 1..Len(rpo') : id'[rpo'[i]] = i - 1
    OBVIOUS
  <2>7. ASSUME NEW i \in 1..Len(rpo')
        PROVE  \E p \in Block :
                 /\ rpo'[i] \in succ'[p]
                 /\ \/ \E j \in 1..Len(stack') : stack'[j] = p
                    \/ \E j \in (i + 1)..Len(rpo') : rpo'[j] = p
    <3>1. CASE i = Len(rpo) + 1
      <4>1. stack[Len(stack) - 1] \in Block
        BY DEF IInv, TypeOK
      <4>2. Top \in succ[stack[Len(stack) - 1]]
        BY <1>6 DEF DfsInv, Top
      <4>3. Len(stack) - 1 \in 1..Len(stack')
        OBVIOUS
      <4> QED
        BY <3>1, <4>1, <4>2, <4>3
    <3>2. CASE i \in 1..Len(rpo)
      <4>1. PICK p \in Block :
               /\ rpo[i] \in succ[p]
               /\ \/ \E j \in 1..Len(stack) : stack[j] = p
                  \/ \E j \in (i + 1)..Len(rpo) : rpo[j] = p
        BY <1>6, <3>2 DEF DfsInv
      <4>2. CASE p = Top
        <5>1. Len(rpo) + 1 \in (i + 1)..Len(rpo')
          BY <3>2
        <5> QED
          BY <3>2, <4>1, <4>2, <5>1
      <4>3. CASE p # Top /\ \E j \in 1..Len(stack) : stack[j] = p
        <5>1. \E j \in 1..(Len(stack) - 1) : stack[j] = p
          BY <4>3 DEF Top
        <5> QED
          BY <3>2, <4>1, <5>1
      <4>4. CASE \E j \in (i + 1)..Len(rpo) : rpo[j] = p
        <5>1. PICK j \in (i + 1)..Len(rpo) : rpo[j] = p
          BY <4>4
        <5>2. j \in 1..Len(rpo) /\ j \in (i + 1)..Len(rpo')
          BY <3>2, <5>1
        <5>3. rpo'[j] = p /\ rpo'[i] \in succ'[p]
          BY <3>2, <4>1, <5>1, <5>2
        <5> QED
          BY <5>2, <5>3
      <4> QED
        BY <4>1, <4>2, <4>3, <4>4
    <3> QED
      BY <3>1, <3>2
  <2> QED
    BY <2>1, <2>2, <2>3, <2>4, <2>5, <2>6, <2>7 DEF DfsInv
<1> QED
  BY <1>4, <1>7 DEF FinishInner, Numbered, OrdInv, TreeInv, PassInv, CandInv,
                    PosInv, NoAbort, IInv

\* The outermost activation returns: the reversed list has the root first and
\* some predecessor of every other block before it.
LEMMA FinishRootInv == ASSUME IInv, FinishRoot PROVE IInv'
<1>0. id' \in [Block -> Nat] /\ stack' \in Seq(Block)
  BY PopFacts DEF FinishRoot
<1>1. /\ Len(rpo) \in Nat
      /\ Top \in Block
      /\ \A i \in 1..Len(rpo) : id'[rpo[i]] = i - 1
      /\ id'[Top] = Len(rpo)
  BY PopFacts DEF FinishRoot
<1> DEFINE l == Append(rpo, Top)
<1>2. /\ l \in Seq(Block)
      /\ Len(l) = Len(rpo) + 1
      /\ l[Len(rpo) + 1] = Top
      /\ \A i \in 1..Len(rpo) : l[i] = rpo[i]
  BY <1>1 DEF IInv, TypeOK
<1>3. rpo' = [i \in 1..Len(l) |-> l[Len(l) - i + 1]]
  BY DEF FinishRoot, Reversed
<1>4. \A i \in 1..Len(l) : l[i] \in Block
  BY <1>2
<1> HIDE DEF l
<1>5. rpo' \in Seq(Block) /\ Len(rpo') = Len(rpo) + 1
  <2>1. rpo' \in [1..Len(l) -> Block]
    BY <1>1, <1>2, <1>3, <1>4
  <2>2. Len(l) \in Nat
    BY <1>1, <1>2
  <2> QED
    BY <2>1, <2>2, <1>2
<1>6. \A i \in 1..Len(rpo') : rpo'[i] = l[Len(rpo) + 2 - i]
  BY <1>1, <1>2, <1>3, <1>5
<1>7. /\ pc = "dfs" /\ Len(stack) = 1 /\ pc' = "idom" /\ pos' = pos
      /\ succ' = succ
      /\ idom' = [b \in Ptr |-> IF b = Root THEN Root ELSE Null]
  BY DEF FinishRoot, Numbered, loop_vars, Cleared
<1>8. DfsInv
  BY DEF IInv
<1>9. Top = Root
  BY <1>7, <1>8 DEF DfsInv, Top
<1>10. TypeOK'
  <2>1. idom' \in [Ptr -> Ptr]
    BY <1>7, DominatorsAssumption DEF Ptr, Root, Null
  <2> QED
    BY <1>0, <1>5, <2>1 DEF FinishRoot, IInv, TypeOK, loop_vars, Phase
<1>11. OrdInv'
  <2>1. Len(rpo') >= 1 /\ rpo'[1] = Root
    BY <1>1, <1>2, <1>5, <1>6, <1>9
  <2>2. \A i \in 1..Len(rpo') : id'[rpo'[i]] = Len(rpo') - i
    <3> SUFFICES ASSUME NEW i \in 1..Len(rpo')
                 PROVE  id'[rpo'[i]] = Len(rpo') - i
      OBVIOUS
    <3> DEFINE k == Len(rpo) + 2 - i
    <3>1. k \in 1..(Len(rpo) + 1) /\ rpo'[i] = l[k] /\ i \in Int
      BY <1>1, <1>5, <1>6
    <3>2. id'[l[k]] = k - 1
      <4>1. CASE k = Len(rpo) + 1
        BY <1>1, <1>2, <4>1
      <4>2. CASE k \in 1..Len(rpo)
        BY <1>1, <1>2, <4>2
      <4> QED
        BY <1>1, <3>1, <4>1, <4>2
    <3> QED
      BY <1>1, <1>5, <3>1, <3>2
  <2>3. ASSUME NEW i \in 2..Len(rpo')
        PROVE  \E j \in 1..(i - 1) : rpo'[i] \in succ'[rpo'[j]]
    <3> DEFINE k == Len(rpo) + 2 - i
    <3>1. k \in 1..Len(rpo) /\ i \in 1..Len(rpo') /\ rpo'[i] = rpo[k]
      <4>1. k \in 1..Len(rpo) /\ i \in 1..Len(rpo')
        BY <1>1, <1>5, <1>6
      <4>2. rpo'[i] = l[k]
        BY <1>1, <1>5, <1>6, <4>1
      <4> QED
        BY <1>2, <4>1, <4>2
    <3> HIDE DEF k
    <3>2. PICK p \in Block :
            /\ rpo[k] \in succ[p]
            /\ \/ \E j \in 1..Len(stack) : stack[j] = p
               \/ \E j \in (k + 1)..Len(rpo) : rpo[j] = p
      BY <1>7, <1>8, <3>1 DEF DfsInv
    <3>3. PICK m \in (k + 1)..(Len(rpo) + 1) : l[m] = p
      <4>1. CASE \E j \in 1..Len(stack) : stack[j] = p
        <5>1. p = Top
          BY <1>7, <4>1 DEF Top
        <5>2. Len(rpo) + 1 \in (k + 1)..(Len(rpo) + 1)
          BY <1>1, <3>1
        <5> QED
          BY <1>2, <5>1, <5>2
      <4>2. CASE \E j \in (k + 1)..Len(rpo) : rpo[j] = p
        BY <1>1, <1>2, <3>1, <4>2
      <4> QED
        BY <3>2, <4>1, <4>2
    <3> DEFINE j == Len(rpo) + 2 - m
    <3>4. j \in 1..(i - 1) /\ j \in 1..Len(rpo') /\ Len(rpo) + 2 - j = m
      BY <1>1, <1>5, <3>1, <3>3 DEF k
    <3>5. rpo'[j] = p
      BY <1>6, <3>3, <3>4
    <3> HIDE DEF j
    <3> QED
      BY <1>7, <3>1, <3>2, <3>4, <3>5
  <2> QED
    BY <2>1, <2>2, <2>3 DEF OrdInv
<1>12. TreeInv'
  <2>1. 1 \in 1..Len(rpo') /\ rpo'[1] = Root
    BY <1>1, <1>5, <1>7, <1>11 DEF OrdInv
  <2>2. Root \in Block /\ Root \in Ptr /\ Root # Null
    BY DominatorsAssumption DEF Root, Block, Ptr, Null
  <2>3. \A b \in Block : b \in Ptr
    BY DominatorsAssumption DEF Block, Ptr
  <2> QED
    BY <1>7, <2>1, <2>2, <2>3 DEF TreeInv
<1>13. PassInv'
  <2>1. pos' = 1
    BY <1>7 DEF IInv, DfsInv
  <2> QED
    BY <1>5, <2>1 DEF PassInv
<1> QED
  BY <1>7, <1>10, <1>11, <1>12, <1>13 DEF IInv, DfsInv, CandInv, PosInv, NoAbort

-----------------------------------------------------------------------------
(***************************************************************************)
(* create_idom and intersect.                                              *)
(***************************************************************************)

\* SkipRoot, NextPass and the frontier and tree loops leave the graph, the
\* list, the numbers and the tree alone.
LEMMA SkipRootInv == ASSUME IInv, SkipRoot PROVE IInv'
<1> USE DEF IInv
<1>1. TypeOK'
  BY DEF SkipRoot, TypeOK, order_vars
<1>2. OrdInv' /\ TreeInv'
  BY DEF SkipRoot, OrdInv, TreeInv, order_vars
<1>3. PassInv'
  <2>1. idom[Root] # Null
    BY DEF SkipRoot, TreeInv, Root, Null
  <2>2. pos \in Nat /\ Len(rpo) \in Nat
    BY DEF TypeOK
  <2> QED
    BY <2>1, <2>2 DEF SkipRoot, PassInv, Bb, order_vars
<1> QED
  BY <1>1, <1>2, <1>3 DEF SkipRoot, DfsInv, CandInv, PosInv, NoAbort

\* The assertion after the search for a predecessor holds: one that comes
\* earlier in the list has an idom.
LEMMA FirstPredInv == ASSUME IInv, FirstPred PROVE IInv'
<1>1. /\ pc = "idom" /\ pos <= Len(rpo) /\ Bb # Root
      /\ succ' = succ /\ rpo' = rpo /\ id' = id /\ idom' = idom /\ pos' = pos
  BY DEF FirstPred, order_vars
<1>2. OrdInv /\ TreeInv /\ PassInv /\ TypeOK
  BY DEF IInv
<1>3. pos \in 2..Len(rpo)
  BY <1>1, <1>2 DEF OrdInv, TypeOK, Bb
<1>4. PICK j \in 1..(pos - 1) : rpo[pos] \in succ[rpo[j]]
  BY <1>1, <1>2, <1>3 DEF OrdInv
<1>5. j \in 1..Len(rpo) /\ j < pos
  BY <1>3
<1>6. rpo[j] \in Pred(Bb) /\ idom[rpo[j]] # Null
  BY <1>1, <1>2, <1>4, <1>5 DEF PassInv, TypeOK, Pred, Bb
<1>7. PICK p \in Pred(Bb) : /\ idom[p] # Null
                            /\ new_idom' = p
                            /\ rest' = Pred(Bb) \ {p}
                            /\ pc' = "preds"
  BY <1>6 DEF FirstPred
<1>8. p \in Block /\ p \in Ptr /\ Pred(Bb) \subseteq Block
  BY DominatorsAssumption DEF Pred, Block, Ptr
<1>9. TypeOK'
  BY <1>2, <1>7, <1>8 DEF FirstPred, TypeOK, order_vars, Phase
<1>10. OrdInv' /\ TreeInv' /\ PassInv'
  BY <1>1, <1>2, <1>7 DEF OrdInv, TreeInv, PassInv
<1>11. CandInv'
  <2>1. id[p] \in Nat
    BY <1>2, <1>8 DEF TypeOK
  <2>2. \A q \in Block : Bb \in succ[q] /\ q \notin rest' => q = p
    BY <1>7 DEF Pred
  <2>3. Bb' = Bb
    BY <1>1 DEF Bb
  <2> QED
    BY <1>1, <1>3, <1>7, <1>8, <2>1, <2>2, <2>3 DEF CandInv
<1> QED
  BY <1>7, <1>9, <1>10, <1>11 DEF IInv, DfsInv, PosInv, NoAbort

\* A further predecessor is skipped or handed to intersect.
LEMMA OtherPredInv == ASSUME IInv, NEW p \in Block, OtherPred(p) PROVE IInv'
<1>1. /\ pc = "preds" /\ p \in rest /\ rest' = rest \ {p}
      /\ succ' = succ /\ rpo' = rpo /\ id' = id /\ idom' = idom /\ pos' = pos
      /\ new_idom' = new_idom
  BY DEF OtherPred, order_vars
<1>2. OrdInv /\ TreeInv /\ PassInv /\ TypeOK /\ CandInv
  BY DEF IInv
<1>3. /\ idom[p] = Null => pc' = "preds"
      /\ idom[p] # Null => pc' = "intersect" /\ b1' = p /\ b2' = new_idom
  BY <1>1 DEF OtherPred
<1>4. TypeOK'
  <2>1. p \in Ptr
    BY DominatorsAssumption DEF Ptr, Block
  <2> QED
    BY <1>2, <2>1 DEF OtherPred, TypeOK, order_vars, Phase
<1>5. OrdInv' /\ TreeInv' /\ PassInv'
  BY <1>1, <1>2, <1>3 DEF OrdInv, TreeInv, PassInv
<1>6. CandInv'
  <2>1. \A q \in Block : id[q] \in Nat
    BY <1>2 DEF TypeOK
  <2>2. Bb' = Bb
    BY <1>1 DEF Bb
  <2>3. CASE idom[p] = Null
    BY <1>1, <1>2, <1>3, <2>2, <2>3 DEF CandInv
  <2>4. CASE idom[p] # Null
    BY <1>1, <1>2, <1>3, <2>1, <2>2, <2>4 DEF CandInv
  <2> QED
    BY <2>3, <2>4
<1> QED
  BY <1>3, <1>4, <1>5, <1>6 DEF IInv, DfsInv, PosInv, NoAbort

\* The candidate is stored: it lies above the block because it is no lower
\* than a predecessor that comes earlier in the list.
LEMMA StoreInv == ASSUME IInv, Store PROVE IInv'
<1>1. /\ pc = "preds" /\ rest = {} /\ pc' = "idom" /\ pos' = pos + 1
      /\ succ' = succ /\ rpo' = rpo /\ id' = id
      /\ idom' = [idom EXCEPT ![Bb] = new_idom]
  BY DEF Store, order_vars
<1>2. OrdInv /\ TreeInv /\ PassInv /\ TypeOK /\ CandInv
  BY DEF IInv
<1>3. /\ pos \in 2..Len(rpo) /\ Len(rpo) \in Nat
      /\ new_idom \in Block /\ idom[new_idom] # Null
  BY <1>1, <1>2 DEF CandInv, TypeOK
<1>4. /\ Bb \in Block /\ id[Bb] = Len(rpo) - pos /\ Bb # Root
  BY <1>1, <1>2, <1>3 DEF OrdInv, TypeOK, Bb
<1>5. \A b \in Block : b \in Ptr /\ b # Null
  BY DominatorsAssumption DEF Block, Ptr, Null
<1>6. idom'[Bb] = new_idom /\ \A b \in Ptr : b # Bb => idom'[b] = idom[b]
  BY <1>1, <1>2, <1>4, <1>5 DEF TypeOK
<1>7. id[Bb] < id[new_idom]
  <2>1. PICK j \in 1..(pos - 1) : Bb \in succ[rpo[j]]
    BY <1>1, <1>2, <1>3 DEF OrdInv, Bb
  <2>2. j \in 1..Len(rpo) /\ j < pos /\ rpo[j] \in Block
    BY <1>2, <1>3 DEF TypeOK
  <2>3. id[rpo[j]] = Len(rpo) - j
    BY <1>1, <1>2, <2>2 DEF OrdInv
  <2>4. id[rpo[j]] <= id[new_idom]
    BY <1>1, <1>2, <2>1, <2>2 DEF CandInv, PassInv
  <2>5. id[new_idom] \in Nat
    BY <1>2, <1>3 DEF TypeOK
  <2> QED
    BY <1>3, <1>4, <2>2, <2>3, <2>4, <2>5
<1>8. TypeOK'
  <2>1. idom' \in [Ptr -> Ptr]
    BY <1>1, <1>2, <1>3, <1>4, <1>5 DEF TypeOK
  <2> QED
    BY <1>1, <1>2, <2>1 DEF Store, TypeOK, order_vars, Phase
<1>9. OrdInv'
  BY <1>1, <1>2 DEF OrdInv
<1>10. TreeInv'
  <2>1. \A b \in Ptr : idom[b] # Null => idom'[b] # Null
    BY <1>3, <1>5, <1>6
  <2>2. Bb \in Block /\ \E i \in 1..Len(rpo) : rpo[i] = Bb
    BY <1>3, <1>4 DEF Bb
  <2>3. ASSUME NEW b \in Block, idom'[b] # Null
        PROVE  /\ \E i \in 1..Len(rpo) : rpo[i] = b
               /\ idom'[b] \in Block
               /\ idom'[idom'[b]] # Null
               /\ b # Root => id[b] < id[idom'[b]]
    <3>1. CASE b = Bb
      BY <1>3, <1>5, <1>6, <1>7, <2>1, <2>2, <3>1
    <3>2. CASE b # Bb
      BY <1>1, <1>2, <1>5, <1>6, <2>1, <2>3, <3>2 DEF TreeInv
    <3> QED
      BY <3>1, <3>2
  <2>4. idom'[Root] = Root
    BY <1>1, <1>2, <1>4, <1>5, <1>6, DominatorsAssumption DEF TreeInv, Root, Block
  <2> QED
    BY <1>1, <2>3, <2>4 DEF TreeInv
<1>11. PassInv'
  <2> SUFFICES ASSUME NEW i \in 1..Len(rpo), i < pos + 1
               PROVE  idom'[rpo[i]] # Null
    BY <1>1 DEF PassInv
  <2>1. CASE i = pos
    BY <1>3, <1>5, <1>6, <2>1 DEF Bb
  <2>2. CASE i < pos
    <3>1. idom[rpo[i]] # Null /\ rpo[i] \in Ptr
      BY <1>1, <1>2, <1>5, <2>2 DEF PassInv, TypeOK
    <3> QED
      BY <1>3, <1>5, <1>6, <3>1
  <2> QED
    BY <1>3, <2>1, <2>2
<1> QED
  BY <1>1, <1>8, <1>9, <1>10, <1>11 DEF IInv, DfsInv, CandInv, PosInv, NoAbort

\* The end of a pass.
LEMMA NextPassInv == ASSUME IInv, NextPass PROVE IInv'
<1>1. /\ pc = "idom" /\ pc' \in {"idom", "df"} /\ pos' = 1
      /\ succ' = succ /\ rpo' = rpo /\ id' = id /\ idom' = idom
  BY DEF NextPass, order_vars
<1>2. TypeOK'
  <2>1. pos' \in Nat \ {0}
    BY <1>1
  <2>2. changed' \in BOOLEAN
    BY DEF NextPass
  <2>3. pc' \in Phase
    BY <1>1 DEF Phase
  <2> QED
    BY <2>1, <2>2, <2>3 DEF NextPass, IInv, TypeOK, order_vars
<1>3. OrdInv' /\ TreeInv' /\ PassInv'
  BY <1>1 DEF IInv, OrdInv, TreeInv, PassInv
<1> QED
  BY <1>1, <1>2, <1>3 DEF IInv, DfsInv, CandInv, PosInv, NoAbort

\* The root has the highest number, so an argument of intersect that is lower
\* than the other is not the root and its idom is higher.
LEMMA ClimbFacts ==
  ASSUME IInv, pc # "dfs",
         NEW x \in Block, NEW y \in Block,
         idom[x] # Null, idom[y] # Null, id[x] < id[y]
  PROVE  /\ idom[x] \in Block
         /\ idom[idom[x]] # Null
         /\ id[x] < id[idom[x]]
<1>1. OrdInv /\ TreeInv /\ TypeOK
  BY DEF IInv
<1>2. PICK i \in 1..Len(rpo) : rpo[i] = y
  BY <1>1 DEF TreeInv
<1>3. id[y] = Len(rpo) - i /\ id[Root] = Len(rpo) - 1 /\ Len(rpo) \in Nat
  BY <1>1, <1>2 DEF OrdInv, TypeOK
<1>4. x # Root
  BY <1>3
<1> QED
  BY <1>1, <1>4 DEF TreeInv

\* intersect moves its lower argument up; its assertions hold.
LEMMA Climb1Inv == ASSUME IInv, Climb1 PROVE IInv'
<1>1. /\ pc = "intersect" /\ id[b1] < id[b2] /\ pos' = pos
      /\ succ' = succ /\ rpo' = rpo /\ id' = id /\ idom' = idom
      /\ rest' = rest /\ new_idom' = new_idom /\ b2' = b2
  BY DEF Climb1, order_vars
<1>2. OrdInv /\ TreeInv /\ PassInv /\ TypeOK /\ CandInv
  BY DEF IInv
<1>3. /\ b1 \in Block /\ b2 \in Block /\ idom[b1] # Null /\ idom[b2] # Null
  BY <1>1, <1>2 DEF CandInv
<1>4. idom[b1] \in Block /\ idom[idom[b1]] # Null /\ id[b1] < id[idom[b1]]
  BY <1>1, <1>3, ClimbFacts
<1>5. pc' = pc /\ b1' = idom[b1]
  BY <1>3 DEF Climb1
<1>6. TypeOK'
  <2>1. b1' \in Ptr
    BY <1>4, <1>5, DominatorsAssumption DEF Ptr, Block
  <2> QED
    BY <1>2, <1>5, <2>1 DEF Climb1, TypeOK, order_vars
<1>7. OrdInv' /\ TreeInv' /\ PassInv'
  BY <1>1, <1>2, <1>5 DEF OrdInv, TreeInv, PassInv
<1>8. CandInv'
  <2>1. \A q \in Block : id[q] \in Nat
    BY <1>2 DEF TypeOK
  <2>2. Bb' = Bb
    BY <1>1 DEF Bb
  <2>3. \A q \in Block : id[q] <= id[b1] => id[q] <= id[idom[b1]]
    BY <1>3, <1>4, <2>1
  <2> QED
    BY <1>1, <1>2, <1>3, <1>4, <1>5, <2>2, <2>3 DEF CandInv
<1> QED
  BY <1>1, <1>5, <1>6, <1>7, <1>8 DEF IInv, DfsInv, PosInv, NoAbort

\* The second finger of intersect climbs one step.
LEMMA Climb2Inv == ASSUME IInv, Climb2 PROVE IInv'
<1>1. /\ pc = "intersect" /\ id[b2] < id[b1] /\ pos' = pos
      /\ succ' = succ /\ rpo' = rpo /\ id' = id /\ idom' = idom
      /\ rest' = rest /\ new_idom' = new_idom /\ b1' = b1
  BY DEF Climb2, order_vars
<1>2. OrdInv /\ TreeInv /\ PassInv /\ TypeOK /\ CandInv
  BY DEF IInv
<1>3. /\ b1 \in Block /\ b2 \in Block /\ idom[b1] # Null /\ idom[b2] # Null
  BY <1>1, <1>2 DEF CandInv
<1>4. idom[b2] \in Block /\ idom[idom[b2]] # Null /\ id[b2] < id[idom[b2]]
  BY <1>1, <1>3, ClimbFacts
<1>5. pc' = pc /\ b2' = idom[b2]
  BY <1>3 DEF Climb2
<1>6. TypeOK'
  <2>1. b2' \in Ptr
    BY <1>4, <1>5, DominatorsAssumption DEF Ptr, Block
  <2> QED
    BY <1>2, <1>5, <2>1 DEF Climb2, TypeOK, order_vars
<1>7. OrdInv' /\ TreeInv' /\ PassInv'
  BY <1>1, <1>2, <1>5 DEF OrdInv, TreeInv, PassInv
<1>8. CandInv'
  <2>1. \A q \in Block : id[q] \in Nat
    BY <1>2 DEF TypeOK
  <2>2. Bb' = Bb
    BY <1>1 DEF Bb
  <2>3. \A q \in Block : id[q] <= id[b2] => id[q] <= id[idom[b2]]
    BY <1>3, <1>4, <2>1
  <2> QED
    BY <1>1, <1>2, <1>3, <1>4, <1>5, <2>2, <2>3 DEF CandInv
<1> QED
  BY <1>1, <1>5, <1>6, <1>7, <1>8 DEF IInv, DfsInv, PosInv, NoAbort

\* intersect returns the block where its arguments met.
LEMMA MetInv == ASSUME IInv, Met PROVE IInv'
<1>1. /\ pc = "intersect" /\ b1 = b2 /\ pc' = "preds" /\ new_idom' = b1
      /\ succ' = succ /\ rpo' = rpo /\ id' = id /\ idom' = idom
      /\ rest' = rest /\ pos' = pos
  BY DEF Met, order_vars
<1>2. OrdInv /\ TreeInv /\ PassInv /\ TypeOK /\ CandInv
  BY DEF IInv
<1>3. TypeOK'
  BY <1>1, <1>2 DEF Met, TypeOK, order_vars, Phase
<1>4. OrdInv' /\ TreeInv' /\ PassInv'
  BY <1>1, <1>2 DEF OrdInv, TreeInv, PassInv
<1>5. CandInv'
  BY <1>1, <1>2 DEF CandInv, Bb
<1> QED
  BY <1>1, <1>3, <1>4, <1>5 DEF IInv, DfsInv, PosInv, NoAbort

(***************************************************************************)
(* The frontier and tree loops only read what the invariant is about.      *)
(***************************************************************************)
After ==
  \/ FrontierBlock \/ (\E p \in Block : FrontierPred(p)) \/ FrontierClimb
  \/ FrontierNextBlock \/ FrontierDone \/ TreeBlock \/ TreeDone

\* The frontiers and the tree leave the order and the idoms alone.
LEMMA AfterInv == ASSUME IInv, After PROVE IInv'
<1>1. /\ pc \in {"df", "df_preds", "climb", "tree"}
      /\ pc' \in {"df", "df_preds", "climb", "tree", "done"}
      /\ succ' = succ /\ rpo' = rpo /\ id' = id /\ idom' = idom
      /\ stack' = stack /\ visited' = visited
  BY DEF After, FrontierBlock, FrontierPred, FrontierClimb, FrontierNextBlock,
         FrontierDone, TreeBlock, TreeDone, order_vars
<1>2. TypeOK
  BY DEF IInv
<1>3. Block \subseteq Ptr
  BY DominatorsAssumption DEF Block, Ptr
<1>4. TypeOK'
  <2>0. pc' \in Phase
    BY <1>1 DEF Phase
  <2>1. CASE FrontierBlock
    <3>1. rest' \subseteq Block /\ pos' \in Nat \ {0}
      BY <1>2, <2>1 DEF FrontierBlock, TypeOK, Pred
    <3> QED
      BY <1>1, <1>2, <2>0, <2>1, <3>1 DEF FrontierBlock, TypeOK
  <2>2. CASE \E p \in Block : FrontierPred(p)
    BY <1>1, <1>2, <1>3, <2>0, <2>2 DEF FrontierPred, TypeOK
  <2>3. CASE FrontierClimb
    <3>1. df' \in [Ptr -> SUBSET Block] /\ b1' \in Ptr
      <4>1. CASE b1 # idom[pos]
        <5>1. df' = [df EXCEPT ![b1] = df[b1] \cup {pos}] /\ b1' = idom[b1]
          BY <2>3, <4>1 DEF FrontierClimb
        <5>2. pos \in Block
          BY <2>3 DEF FrontierClimb, IInv, PosInv
        <5> QED
          BY <1>2, <5>1, <5>2 DEF TypeOK
      <4>2. CASE b1 = idom[pos]
        BY <1>2, <2>3, <4>2 DEF FrontierClimb, TypeOK
      <4> QED
        BY <4>1, <4>2
    <3> QED
      BY <1>1, <1>2, <2>0, <2>3, <3>1 DEF FrontierClimb, TypeOK
  <2>4. CASE FrontierNextBlock \/ FrontierDone
    BY <1>1, <1>2, <2>0, <2>4 DEF FrontierNextBlock, FrontierDone, TypeOK
  <2>5. CASE TreeBlock
    <3>1. pos \in Block /\ idom[pos] \in Ptr
      BY <1>2, <1>3, <2>5 DEF TreeBlock, TypeOK, Block
    <3>2. kids' \in [Ptr -> SUBSET Block]
      BY <1>2, <2>5, <3>1 DEF TreeBlock, TypeOK
    <3> QED
      BY <1>1, <1>2, <2>0, <2>5, <3>2 DEF TreeBlock, TypeOK
  <2>6. CASE TreeDone
    BY <1>1, <1>2, <2>0, <2>6 DEF TreeDone, TypeOK, loop_vars
  <2> QED
    BY <2>1, <2>2, <2>3, <2>4, <2>5, <2>6 DEF After
<1>5. OrdInv' /\ TreeInv'
  BY <1>1 DEF IInv, OrdInv, TreeInv
<1>6. PosInv'
  <2>1. CASE pc' \in {"df", "tree", "done"}
    BY <2>1 DEF PosInv
  <2>2. CASE pc' \in {"df_preds", "climb"}
    BY <1>2, <2>2 DEF After, FrontierBlock, FrontierPred, FrontierClimb,
       FrontierNextBlock, FrontierDone, TreeBlock, TreeDone, IInv, PosInv,
       TypeOK, Block
  <2> QED
    BY <1>1, <2>1, <2>2
<1> QED
  BY <1>1, <1>4, <1>5, <1>6 DEF IInv, DfsInv, PassInv, CandInv, NoAbort

-----------------------------------------------------------------------------
(***************************************************************************)
(* The theorems.                                                           *)
(***************************************************************************)

\* The inductive invariant holds throughout the pass.
THEOREM Invariance == Spec => []IInv
<1>1. ASSUME IInv, [Next]_vars
      PROVE  IInv'
  <2>1. CASE Next
    BY <1>1, <2>1, VisitInv, FinishInnerInv, FinishRootInv, SkipRootInv,
       FirstPredInv, OtherPredInv, StoreInv, NextPassInv, Climb1Inv,
       Climb2Inv, MetInv, AfterInv DEF Next, After
  <2>2. CASE UNCHANGED vars
    BY <1>1, <2>2 DEF vars, order_vars, loop_vars, IInv, TypeOK, DfsInv,
       OrdInv, TreeInv, PassInv, CandInv, PosInv, NoAbort, Bb
  <2> QED
    BY <1>1, <2>1, <2>2
<1> QED
  BY InitInv, <1>1, PTL DEF Spec

\* Every state of the pass is well typed.
THEOREM TypeCorrect == Spec => []TypeOK
<1>1. IInv => TypeOK
  BY DEF IInv
<1> QED
  BY Invariance, <1>1, PTL

\* assert(pred) in create_idom and the two assertions of intersect hold on
\* every control-flow graph.
THEOREM AssertionsHold == Spec => []NoAbort
<1>1. IInv => NoAbort
  BY DEF IInv
<1> QED
  BY Invariance, <1>1, PTL

\* On every control-flow graph the partial dominator tree ascends to the
\* root at every moment of the iteration.
THEOREM TreeAscends == Spec => []IdomAscends
<1>1. IInv => IdomAscends
  BY DEF IInv, TreeInv, IdomAscends
<1> QED
  BY Invariance, <1>1, PTL

-----------------------------------------------------------------------------
(***************************************************************************)
(* What the pass computes: the numbering of create_reverse_post_order, the *)
(* immediate dominators of create_idom, the frontiers of                   *)
(* create_dominance_frontier and the tree of create_dom_tree_succ are the  *)
(* ones the path definitions of FlowGraph give, and create_idom never      *)
(* lowers an idom it has found.                                            *)
(***************************************************************************)

(***************************************************************************)
(* The invariants, on top of IInv.                                         *)
(***************************************************************************)

\* During the numbering: what is visited is on the stack or in the list, and
\* reachable; the successors of a listed block are visited; the dominators of
\* a block on the stack are on the stack below it, those of a listed block on
\* the stack or later in the list.
VisitInv2 ==
  pc = "dfs" =>
    /\ visited \subseteq Reachable
    /\ \A b \in visited : \/ \E i \in 1..Len(stack) : stack[i] = b
                          \/ \E i \in 1..Len(rpo) : rpo[i] = b
    /\ \A i \in 1..Len(rpo) : succ[rpo[i]] \subseteq visited
    /\ \A i \in 1..Len(stack), c \in Block : Dom(c, stack[i]) =>
         \E j \in 1..i : stack[j] = c
    /\ \A i \in 1..Len(rpo), c \in Block : Dom(c, rpo[i]) =>
         \/ \E j \in 1..Len(stack) : stack[j] = c
         \/ \E j \in i..Len(rpo) : rpo[j] = c

\* Afterwards: the list holds the reachable blocks, each after its dominators.
ListInv ==
  pc # "dfs" =>
    /\ \A b \in Block : b \in Reachable <=> \E i \in 1..Len(rpo) : rpo[i] = b
    /\ \A i \in 1..Len(rpo), c \in Block : Dom(c, rpo[i]) =>
         \E j \in 1..i : rpo[j] = c

\* No strict dominator of a block is ever passed over: it dominates the
\* block's idom, the candidate, and both arguments of intersect.
BelowInv ==
  pc # "dfs" =>
    /\ \A b, c \in Block : idom[b] # Null /\ SDom(c, b) => Dom(c, idom[b])
    /\ pc = "preds" => \A c \in Block : SDom(c, Bb) => Dom(c, new_idom)
    /\ pc = "intersect" =>
         \A c \in Block : SDom(c, Bb) => Dom(c, b1) /\ Dom(c, b2)
    /\ pc \in {"preds", "intersect"} => rest \subseteq Pred(Bb)

\* The blocks on the way from x up the tree: they are in every set that holds
\* x and, with a block, its idom.
Anc(x) ==
  {a \in Block : \A S \in SUBSET Block :
                   x \in S /\ (\A y \in S : idom[y] \in S) => a \in S}

\* In a pass that has changed nothing, the idom of a block gone by lies above
\* all its predecessors that have one; so does the candidate for those looked
\* at, and one of the arguments of intersect for each of them.
AboveInv ==
  /\ pc \in {"idom", "preds", "intersect"} /\ ~changed =>
       \A i \in 1..Len(rpo) : i < pos /\ rpo[i] # Root =>
         \A p \in Block : rpo[i] \in succ[p] /\ idom[p] # Null =>
           idom[rpo[i]] \in Anc(p)
  /\ pc = "preds" =>
       \A q \in Block : Bb \in succ[q] /\ q \notin rest /\ idom[q] # Null =>
         new_idom \in Anc(q)
  /\ pc = "intersect" =>
       \A q \in Block : Bb \in succ[q] /\ q \notin rest /\ idom[q] # Null =>
         b1 \in Anc(q) \/ b2 \in Anc(q)

\* The phases after create_idom.
Late == {"df", "df_preds", "climb", "tree", "done"}

\* From then on the idoms are the immediate dominators.
IdomInv ==
  pc \in Late =>
    \A b \in Block :
      IF b = Root THEN idom[b] = Root
      ELSE IF b \in Reachable THEN IsIdomIn(succ, idom[b], b)
      ELSE idom[b] = Null

JInv == VisitInv2 /\ ListInv /\ BelowInv /\ AboveInv /\ IdomInv

\* No block branches to the entry block.
EntryHasNoPred == \A g \in CFG : \A b \in Block : Root \notin g[b]

\* The part of the frontier the loop has gone through so far is right, and
\* the rest of the frontier of the block it is at is still ahead of the
\* runner.
FrontierInv ==
  /\ \A b \in Block : Root \notin succ[b]
  /\ idom[Null] = Null
  /\ \A b \in Reachable : df[b] \subseteq FrontierIn(succ, b)
  /\ pc \in {"df", "df_preds", "climb"} =>
       \A b \in Reachable, y \in Block :
         y < pos /\ y \in FrontierIn(succ, b) => y \in df[b]
  /\ pc \in {"tree", "done"} =>
       \A b \in Reachable, y \in Block : y \in FrontierIn(succ, b) => y \in df[b]
  /\ pc \in {"df_preds", "climb"} =>
       \A b \in Reachable, p \in Block :
         /\ pos \in FrontierIn(succ, b)
         /\ pos \in succ[p] /\ p \notin rest
         /\ Dom(b, p)
         => pos \in df[b] \/ (pc = "climb" /\ Dom(b, b1))
  /\ pc = "climb" /\ b1 \in Reachable =>
       /\ pos \in Reachable
       /\ \E p \in Block : pos \in succ[p] /\ Dom(b1, p)
       /\ Dom(idom[pos], b1)
  /\ pc \in {"df_preds", "climb"} => rest \subseteq Pred(pos) /\ pos # Root

\* The children written so far are the blocks whose idom it is.
KidsInv ==
  /\ pc \in {"tree", "done"} =>
       \A c \in Ptr : kids[c] = {b \in Block : b < pos /\ idom[b] = c /\ b # c}
  /\ pc \notin {"tree", "done"} => \A c \in Ptr : kids[c] = {}
  /\ pc = "done" => pos > N

-----------------------------------------------------------------------------
(***************************************************************************)
(* The numbering.                                                          *)
(***************************************************************************)

\* The graph of the function is one the lemmas of FlowGraphProofs are about.
LEMMA Graph ==
  ASSUME TypeOK
  PROVE  /\ IsFlowGraph(succ) /\ DOMAIN succ = Block /\ Root = Entry
         /\ Root \in Block /\ Null \notin Block /\ Block \subseteq Ptr
         /\ Reachable \subseteq Block /\ Root \in Reachable
<1>1. succ \in [Block -> SUBSET Block] /\ DOMAIN succ = Block
  BY DEF TypeOK
<1>2. /\ Root = Entry /\ Root \in Block /\ Null \notin Block
      /\ Block \subseteq Ptr /\ 0 \notin Block
  BY DominatorsAssumption DEF Root, Entry, Block, Null, Ptr
<1>3. IsFiniteSet(Block)
  BY FS_Interval, DominatorsAssumption DEF Block
<1>4. IsFlowGraph(succ)
  BY <1>1, <1>2, <1>3 DEF IsFlowGraph
<1> QED
  BY <1>1, <1>2, <1>4, ReachFacts DEF Reachable

\* The numbering starts with the root on the stack.
LEMMA JInit == Init /\ IInv => JInv
<1> SUFFICES ASSUME Init, IInv PROVE JInv
  OBVIOUS
<1>1. TypeOK /\ pc = "dfs" /\ stack = <<Root>> /\ visited = {Root} /\ rpo = <<>>
  BY DEF Init, IInv
<1>2. Root \in Reachable
  BY <1>1, Graph
<1>3. \A c : Dom(c, Root) => c = Root
  BY <1>1, <1>2, Graph, DomBasic DEF Dom, Reachable
<1>4. VisitInv2
  BY <1>1, <1>2, <1>3 DEF VisitInv2
<1> QED
  BY <1>1, <1>4 DEF JInv, ListInv, BelowInv, AboveInv, IdomInv, Late

\* A recursive call puts a successor of the innermost block on the stack.
LEMMA VisitJ == ASSUME IInv, JInv, NEW b \in Block, Visit(b) PROVE JInv'
<1>1. /\ pc = "dfs" /\ pc' = "dfs" /\ succ' = succ /\ rpo' = rpo
      /\ b \in succ[Top] /\ visited' = visited \cup {b}
      /\ stack' = Append(stack, b)
  BY DEF Visit
<1>2. TypeOK /\ DfsInv /\ VisitInv2
  BY DEF IInv, JInv
<1>3. /\ Len(stack) \in Nat /\ Len(rpo) \in Nat /\ Len(stack) >= 1
      /\ Top \in Block /\ Top \in visited /\ Top = stack[Len(stack)]
  BY <1>1, <1>2 DEF TypeOK, DfsInv, Top
<1>4. /\ Len(stack') = Len(stack) + 1
      /\ stack'[Len(stack) + 1] = b
      /\ \A i \in 1..Len(stack) : stack'[i] = stack[i]
  BY <1>1, <1>2, <1>3 DEF TypeOK
<1>5. Top \in Reachable
  BY <1>1, <1>2, <1>3 DEF VisitInv2
<1>6. b \in Reachable
  BY <1>1, <1>2, <1>5, Graph, ReachFacts DEF Reachable
<1>7. \A c \in Block : Dom(c, b) => c = b \/ Dom(c, Top)
  BY <1>1, <1>2, <1>5, Graph, DomOfPred DEF Dom, SDomIn, Reachable
<1>8. Reachable' = Reachable /\ \A c, y : Dom(c, y)' <=> Dom(c, y)
  BY <1>1 DEF Reachable, Dom
<1>9. VisitInv2'
  <2>1. visited' \subseteq Reachable'
    BY <1>1, <1>2, <1>6, <1>8 DEF VisitInv2
  <2>2. ASSUME NEW x \in visited'
        PROVE  \/ \E i \in 1..Len(stack') : stack'[i] = x
               \/ \E i \in 1..Len(rpo') : rpo'[i] = x
    <3>1. CASE x = b
      BY <1>3, <1>4, <3>1
    <3>2. CASE x \in visited
      BY <1>1, <1>2, <1>3, <1>4, <3>2 DEF VisitInv2
    <3> QED
      BY <1>1, <3>1, <3>2
  <2>3. \A i \in 1..Len(rpo') : succ'[rpo'[i]] \subseteq visited'
    BY <1>1, <1>2 DEF VisitInv2
  <2>4. ASSUME NEW i \in 1..Len(stack'), NEW c \in Block, Dom(c, stack'[i])
        PROVE  \E j \in 1..i : stack'[j] = c
    <3>1. CASE i = Len(stack) + 1
      <4>1. CASE c = b
        BY <1>3, <1>4, <3>1, <4>1
      <4>2. CASE Dom(c, Top)
        <5>1. PICK j \in 1..Len(stack) : stack[j] = c
          BY <1>1, <1>2, <1>3, <4>2 DEF VisitInv2
        <5> QED
          BY <1>3, <1>4, <3>1, <5>1
      <4> QED
        BY <1>4, <1>7, <2>4, <3>1, <4>1, <4>2
    <3>2. CASE i \in 1..Len(stack)
      <4>1. PICK j \in 1..i : stack[j] = c
        BY <1>1, <1>2, <1>4, <2>4, <3>2 DEF VisitInv2
      <4> QED
        BY <1>3, <1>4, <3>2, <4>1
    <3> QED
      BY <1>3, <1>4, <3>1, <3>2
  <2>5. ASSUME NEW i \in 1..Len(rpo'), NEW c \in Block, Dom(c, rpo'[i])
        PROVE  \/ \E j \in 1..Len(stack') : stack'[j] = c
               \/ \E j \in i..Len(rpo') : rpo'[j] = c
    <3>1. \/ \E j \in 1..Len(stack) : stack[j] = c
          \/ \E j \in i..Len(rpo) : rpo[j] = c
      BY <1>1, <1>2, <2>5 DEF VisitInv2
    <3> QED
      BY <1>1, <1>3, <1>4, <3>1
  <2> QED
    BY <1>8, <2>1, <2>2, <2>3, <2>4, <2>5 DEF VisitInv2
<1> QED
  BY <1>1, <1>9 DEF JInv, ListInv, BelowInv, AboveInv, IdomInv, Late

\* When the innermost block is appended to the list, the list with it and the
\* stack without it have the properties of VisitInv2.
LEMMA PopJ ==
  ASSUME IInv, JInv, Numbered, NEW l, l = Append(rpo, Top)
  PROVE  /\ Len(rpo) \in Nat /\ Len(l) = Len(rpo) + 1
         /\ \A i \in 1..Len(l) : l[i] \in Block /\ succ[l[i]] \subseteq visited
         /\ \A b \in visited :
              \/ \E i \in 1..(Len(stack) - 1) : stack[i] = b
              \/ \E i \in 1..Len(l) : l[i] = b
         /\ \A i \in 1..Len(l) : l[i] \in visited
         /\ \A i \in 1..Len(l), c \in Block : Dom(c, l[i]) =>
              \/ \E j \in 1..(Len(stack) - 1) : stack[j] = c
              \/ \E j \in i..Len(l) : l[j] = c
<1>1. pc = "dfs" /\ succ[Top] \subseteq visited
  BY DEF Numbered
<1>2. TypeOK /\ DfsInv /\ VisitInv2
  BY DEF IInv, JInv
<1>3. /\ Len(stack) \in Nat /\ Len(rpo) \in Nat /\ Len(stack) >= 1
      /\ Top \in Block /\ Top \in visited /\ Top = stack[Len(stack)]
      /\ \A i \in 1..Len(rpo) : rpo[i] \in visited /\ rpo[i] \in Block
  BY <1>1, <1>2 DEF TypeOK, DfsInv, Top
<1>4. /\ Len(l) = Len(rpo) + 1
      /\ l[Len(rpo) + 1] = Top
      /\ \A i \in 1..Len(rpo) : l[i] = rpo[i]
  BY <1>2, <1>3 DEF TypeOK
<1>5. ASSUME NEW i \in 1..Len(l)
      PROVE  l[i] \in Block /\ l[i] \in visited /\ succ[l[i]] \subseteq visited
  <2>1. CASE i = Len(rpo) + 1
    BY <1>1, <1>3, <1>4, <2>1
  <2>2. CASE i \in 1..Len(rpo)
    BY <1>1, <1>2, <1>3, <1>4, <2>2 DEF VisitInv2
  <2> QED
    BY <1>3, <1>4, <2>1, <2>2
<1>6. ASSUME NEW b \in visited
      PROVE  \/ \E i \in 1..(Len(stack) - 1) : stack[i] = b
             \/ \E i \in 1..Len(l) : l[i] = b
  <2>1. CASE \E i \in 1..Len(rpo) : rpo[i] = b
    BY <1>3, <1>4, <2>1
  <2>2. CASE \E i \in 1..Len(stack) : stack[i] = b
    BY <1>3, <1>4, <2>2
  <2> QED
    BY <1>1, <1>2, <2>1, <2>2 DEF VisitInv2
<1>7. ASSUME NEW i \in 1..Len(l), NEW c \in Block, Dom(c, l[i])
      PROVE  \/ \E j \in 1..(Len(stack) - 1) : stack[j] = c
             \/ \E j \in i..Len(l) : l[j] = c
  <2>1. CASE \E j \in 1..Len(stack) : stack[j] = c
    <3>1. PICK j \in 1..Len(stack) : stack[j] = c
      BY <2>1
    <3>2. CASE j = Len(stack)
      <4>1. l[Len(l)] = c /\ Len(l) \in i..Len(l)
        BY <1>3, <1>4, <3>1, <3>2
      <4> QED
        BY <4>1
    <3>3. CASE j \in 1..(Len(stack) - 1)
      BY <3>1, <3>3
    <3> QED
      BY <1>3, <3>2, <3>3
  <2>2. CASE \E j \in i..Len(rpo) : rpo[j] = c
    <3>1. PICK j \in i..Len(rpo) : rpo[j] = c
      BY <2>2
    <3>2. j \in i..Len(l) /\ j \in 1..Len(rpo)
      BY <1>3, <1>4, <3>1
    <3> QED
      BY <1>4, <3>1, <3>2
  <2>3. CASE i = Len(rpo) + 1
    <3>1. Dom(c, stack[Len(stack)]) /\ Len(stack) \in 1..Len(stack)
      BY <1>3, <1>4, <1>7, <2>3
    <3>2. \E j \in 1..Len(stack) : stack[j] = c
      BY <1>1, <1>2, <3>1 DEF VisitInv2
    <3> QED
      BY <2>1, <3>2
  <2>4. CASE i \in 1..Len(rpo)
    <3>1. Dom(c, rpo[i])
      BY <1>4, <1>7, <2>4
    <3> QED
      BY <1>1, <1>2, <2>1, <2>2, <2>4, <3>1 DEF VisitInv2
  <2> QED
    BY <1>3, <1>4, <2>3, <2>4
<1> QED
  BY <1>3, <1>4, <1>5, <1>6, <1>7

\* An inner activation returns.
LEMMA FinishInnerJ == ASSUME IInv, JInv, FinishInner PROVE JInv'
<1>1. /\ pc = "dfs" /\ pc' = "dfs" /\ succ' = succ /\ visited' = visited
      /\ rpo' = Append(rpo, Top) /\ Numbered
  BY DEF FinishInner, Numbered
<1>2. /\ Len(stack) \in Nat \ {0}
      /\ Len(stack') = Len(stack) - 1
      /\ \A i \in 1..(Len(stack) - 1) : stack'[i] = stack[i]
  BY <1>1, PopFacts
<1>3. VisitInv2
  BY DEF JInv
<1>4. /\ Len(rpo) \in Nat /\ Len(rpo') = Len(rpo) + 1
      /\ \A i \in 1..Len(rpo') : succ[rpo'[i]] \subseteq visited
      /\ \A b \in visited :
           \/ \E i \in 1..(Len(stack) - 1) : stack[i] = b
           \/ \E i \in 1..Len(rpo') : rpo'[i] = b
      /\ \A i \in 1..Len(rpo'), c \in Block : Dom(c, rpo'[i]) =>
           \/ \E j \in 1..(Len(stack) - 1) : stack[j] = c
           \/ \E j \in i..Len(rpo') : rpo'[j] = c
  BY <1>1, PopJ
<1>5. Reachable' = Reachable /\ \A c, y : Dom(c, y)' <=> Dom(c, y)
  BY <1>1 DEF Reachable, Dom
<1>6. VisitInv2'
  <2>1. visited' \subseteq Reachable'
    BY <1>1, <1>3, <1>5 DEF VisitInv2
  <2>2. \A b \in visited' : \/ \E i \in 1..Len(stack') : stack'[i] = b
                            \/ \E i \in 1..Len(rpo') : rpo'[i] = b
    BY <1>1, <1>2, <1>4
  <2>3. \A i \in 1..Len(rpo') : succ'[rpo'[i]] \subseteq visited'
    BY <1>1, <1>4
  <2>4. ASSUME NEW i \in 1..Len(stack'), NEW c \in Block, Dom(c, stack'[i])
        PROVE  \E j \in 1..i : stack'[j] = c
    <3>1. i \in 1..Len(stack) /\ stack'[i] = stack[i]
      BY <1>2
    <3>2. PICK j \in 1..i : stack[j] = c
      BY <1>1, <1>3, <2>4, <3>1 DEF VisitInv2
    <3> QED
      BY <1>2, <3>2
  <2>5. \A i \in 1..Len(rpo'), c \in Block : Dom(c, rpo'[i]) =>
           \/ \E j \in 1..Len(stack') : stack'[j] = c
           \/ \E j \in i..Len(rpo') : rpo'[j] = c
    BY <1>2, <1>4
  <2> QED
    BY <1>5, <2>1, <2>2, <2>3, <2>4, <2>5 DEF VisitInv2
<1> QED
  BY <1>1, <1>6 DEF JInv, ListInv, BelowInv, AboveInv, IdomInv, Late

\* The outermost activation returns: everything reachable is in the list, and
\* the list is reversed.
LEMMA FinishRootJ == ASSUME IInv, JInv, FinishRoot PROVE JInv'
<1> DEFINE l == Append(rpo, Top)
<1>1. /\ pc = "dfs" /\ pc' = "idom" /\ succ' = succ /\ visited' = visited
      /\ rpo' = Reversed(l) /\ Numbered /\ Len(stack) = 1
      /\ pos' = pos /\ idom' = Cleared
  BY DEF FinishRoot, Numbered, loop_vars
<1>2. TypeOK /\ DfsInv /\ VisitInv2
  BY DEF IInv, JInv
<1>3. /\ Len(rpo) \in Nat /\ Len(l) = Len(rpo) + 1
      /\ \A i \in 1..Len(l) : l[i] \in Block /\ succ[l[i]] \subseteq visited
      /\ \A b \in visited : \E i \in 1..Len(l) : l[i] = b
      /\ \A i \in 1..Len(l) : l[i] \in visited
      /\ \A i \in 1..Len(l), c \in Block : Dom(c, l[i]) =>
           \E j \in i..Len(l) : l[j] = c
  <2> HIDE DEF l
  <2>1. 1..(Len(stack) - 1) = {}
    BY <1>1
  <2> QED
    BY <1>1, <2>1, PopJ DEF l
<1> HIDE DEF l
<1>4. /\ Len(rpo') = Len(l)
      /\ \A i \in 1..Len(l) : rpo'[i] = l[Len(l) - i + 1]
  <2>1. Len(l) \in Nat
    BY <1>3
  <2> QED
    BY <1>1, <2>1 DEF Reversed
<1>5. visited = Reachable
  <2>1. Root \in visited
    BY <1>1, <1>2 DEF DfsInv
  <2>2. \A b \in visited : \A y \in succ[b] : y \in visited
    BY <1>3
  <2>3. ReachAvoidingIn(succ, 0) \subseteq visited
    BY <1>2, <2>1, <2>2, Graph, ReachLeast
  <2> QED
    BY <1>1, <1>2, <2>3 DEF VisitInv2, Reachable, ReachableIn
<1>6. Reachable' = Reachable /\ \A c, y : Dom(c, y)' <=> Dom(c, y)
  BY <1>1 DEF Reachable, Dom
<1>7. ListInv'
  <2>1. ASSUME NEW b \in Block
        PROVE  b \in Reachable <=> \E i \in 1..Len(rpo') : rpo'[i] = b
    <3>1. ASSUME b \in visited PROVE \E i \in 1..Len(rpo') : rpo'[i] = b
      <4>1. PICK k \in 1..Len(l) : l[k] = b
        BY <1>3, <3>1
      <4>2. Len(l) - k + 1 \in 1..Len(l) /\ Len(l) - (Len(l) - k + 1) + 1 = k
        BY <1>3, <4>1
      <4>3. rpo'[Len(l) - k + 1] = b
        BY <1>4, <4>1, <4>2
      <4> QED
        BY <1>4, <4>2, <4>3
    <3>2. ASSUME NEW i \in 1..Len(rpo'), rpo'[i] = b PROVE b \in visited
      <4>1. Len(l) - i + 1 \in 1..Len(l) /\ rpo'[i] = l[Len(l) - i + 1]
        BY <1>3, <1>4
      <4> QED
        BY <1>3, <3>2, <4>1
    <3> QED
      BY <1>5, <3>1, <3>2
  <2>2. ASSUME NEW i \in 1..Len(rpo'), NEW c \in Block, Dom(c, rpo'[i])
        PROVE  \E j \in 1..i : rpo'[j] = c
    <3> DEFINE k == Len(l) - i + 1
    <3>1. k \in 1..Len(l) /\ rpo'[i] = l[k] /\ i \in 1..Len(l)
      BY <1>3, <1>4
    <3>2. PICK m \in k..Len(l) : l[m] = c
      BY <1>3, <2>2, <3>1
    <3> DEFINE j == Len(l) - m + 1
    <3>3. j \in 1..i /\ j \in 1..Len(l) /\ Len(l) - j + 1 = m
      BY <1>3, <3>1, <3>2
    <3> HIDE DEF j
    <3>4. rpo'[j] = c
      BY <1>4, <3>2, <3>3
    <3> QED
      BY <3>3, <3>4
  <2> QED
    BY <1>6, <2>1, <2>2 DEF ListInv
<1>8. BelowInv'
  <2>1. \A b \in Block : idom'[b] # Null => b = Root
    BY <1>1, <1>2, Graph DEF Cleared
  <2>2. \A c : ~SDom(c, Root)
    BY <1>2, Graph, DomBasic DEF SDom, SDomIn, Reachable
  <2>3. \A c : SDom(c, Root)' <=> SDom(c, Root)
    BY <1>1 DEF SDom
  <2> QED
    BY <1>1, <2>1, <2>2, <2>3 DEF BelowInv
<1>9. AboveInv'
  <2>1. pos' = 1
    BY <1>1, <1>2 DEF DfsInv
  <2>2. \A i \in 1..Len(rpo') : ~(i < pos')
    BY <1>3, <1>4, <2>1
  <2> QED
    BY <1>1, <2>2 DEF AboveInv
<1> QED
  BY <1>1, <1>7, <1>8, <1>9 DEF JInv, VisitInv2, IdomInv, Late

-----------------------------------------------------------------------------
(***************************************************************************)
(* The tree.                                                               *)
(***************************************************************************)

\* A block lies above itself, and above x everything that lies above a block
\* above x, its idom included.
LEMMA AncFacts ==
  ASSUME TypeOK
  PROVE  /\ \A x \in Block : x \in Anc(x)
         /\ \A x, a \in Block : a \in Anc(x) /\ idom[a] \in Block
                                => idom[a] \in Anc(x)
         /\ \A x, y, a \in Block : a \in Anc(y) /\ y \in Anc(x) => a \in Anc(x)
         /\ \A x, a \in Block : a \in Anc(x) /\ a # x => a \in Anc(idom[x])
<1>1. \A x \in Block : x \in Anc(x)
  BY DEF Anc
<1>2. \A x, a \in Block : a \in Anc(x) /\ idom[a] \in Block => idom[a] \in Anc(x)
  BY DEF Anc
<1>3. \A x, y, a \in Block : a \in Anc(y) /\ y \in Anc(x) => a \in Anc(x)
  BY DEF Anc
<1>4. ASSUME NEW x \in Block, NEW a \in Block, a \in Anc(x), a # x
      PROVE  a \in Anc(idom[x])
  <2> SUFFICES ASSUME NEW S \in SUBSET Block, idom[x] \in S,
                      \A y \in S : idom[y] \in S
               PROVE  a \in S
    BY DEF Anc
  <2> DEFINE T == S \cup {x}
  <2>1. T \in SUBSET Block /\ x \in T /\ \A y \in T : idom[y] \in T
    OBVIOUS
  <2>2. a \in T
    <3> HIDE DEF T
    <3> QED
      BY <1>4, <2>1 DEF Anc
  <2> QED
    BY <1>4, <2>2
<1> QED
  BY <1>1, <1>2, <1>3, <1>4

\* Dominators have higher numbers.
LEMMA DomNumbers ==
  ASSUME IInv, JInv, pc # "dfs", NEW b \in Block, NEW c \in Block, Dom(c, b)
  PROVE  id[c] \in Nat /\ id[b] \in Nat /\ id[b] <= id[c]
<1>1. TypeOK /\ OrdInv /\ ListInv
  BY DEF IInv, JInv
<1>2. b \in Reachable
  BY DEF Dom, DomIn, Reachable
<1>3. PICK i \in 1..Len(rpo) : rpo[i] = b
  BY <1>1, <1>2 DEF ListInv
<1>4. PICK j \in 1..i : rpo[j] = c
  BY <1>1, <1>3 DEF ListInv
<1>5. Len(rpo) \in Nat /\ j \in 1..Len(rpo)
  BY <1>1, <1>3, <1>4 DEF TypeOK
<1>6. id[b] = Len(rpo) - i /\ id[c] = Len(rpo) - j
  BY <1>1, <1>3, <1>4, <1>5 DEF OrdInv
<1> QED
  BY <1>3, <1>4, <1>5, <1>6

\* A block with an idom is reachable.
LEMMA HasIdomReachable ==
  ASSUME IInv, JInv, pc # "dfs", NEW b \in Block, idom[b] # Null
  PROVE  b \in Reachable
BY DEF IInv, JInv, TreeInv, ListInv

\* The actions of create_idom leave the graph, the list and the numbers alone,
\* and what is said of them.
LEMMA SameOrder ==
  ASSUME JInv, succ' = succ, rpo' = rpo, pc # "dfs", pc' # "dfs"
  PROVE  /\ VisitInv2' /\ ListInv'
         /\ Reachable' = Reachable
         /\ \A c, y : Dom(c, y)' <=> Dom(c, y)
         /\ \A c, y : SDom(c, y)' <=> SDom(c, y)
<1>1. /\ Reachable' = Reachable
      /\ \A c, y : Dom(c, y)' <=> Dom(c, y)
      /\ \A c, y : SDom(c, y)' <=> SDom(c, y)
  BY DEF Reachable, Dom, SDom
<1>2. VisitInv2'
  BY DEF VisitInv2
<1>3. ListInv'
  BY <1>1 DEF JInv, ListInv
<1> QED
  BY <1>1, <1>2, <1>3

\* The way up depends on idom only.
LEMMA SameAnc == ASSUME idom' = idom PROVE \A x : Anc(x)' = Anc(x)
BY DEF Anc

\* create_idom skips the root.
LEMMA SkipRootJ == ASSUME IInv, JInv, SkipRoot PROVE JInv'
<1>1. /\ pc = "idom" /\ pc' = "idom" /\ pos' = pos + 1 /\ Bb = Root
      /\ succ' = succ /\ rpo' = rpo /\ idom' = idom /\ changed' = changed
  BY DEF SkipRoot, order_vars
<1>2. TypeOK /\ BelowInv /\ AboveInv
  BY DEF IInv, JInv
<1>3. BelowInv'
  BY <1>1, <1>2, SameOrder DEF BelowInv
<1>4. AboveInv'
  <2> SUFFICES ASSUME ~changed, NEW i \in 1..Len(rpo), i < pos + 1, rpo[i] # Root,
                      NEW p \in Block, rpo[i] \in succ[p], idom[p] # Null
               PROVE  idom[rpo[i]] \in Anc(p)
    BY <1>1, SameAnc DEF AboveInv
  <2>1. i < pos
    BY <1>1, <1>2 DEF Bb, TypeOK
  <2> QED
    BY <1>1, <1>2, <2>1 DEF AboveInv
<1> QED
  BY <1>1, <1>3, <1>4, SameOrder DEF JInv, IdomInv, Late

\* The strict dominators of a block dominate each predecessor with an idom.
LEMMA DomOfReadyPred ==
  ASSUME IInv, JInv, pc # "dfs", NEW b \in Block, NEW p \in Block,
         b \in succ[p], idom[p] # Null, NEW c, SDom(c, b)
  PROVE  Dom(c, p)
<1>1. p \in ReachableIn(succ)
  BY HasIdomReachable DEF Reachable
<1>2. IsFlowGraph(succ)
  BY Graph DEF IInv
<1> QED
  BY <1>1, <1>2, DomOfPred DEF Dom, SDom

\* The first predecessor becomes the candidate.
LEMMA FirstPredJ == ASSUME IInv, JInv, FirstPred, IInv' PROVE JInv'
<1>1. /\ pc = "idom" /\ pos <= Len(rpo) /\ pos' = pos
      /\ succ' = succ /\ rpo' = rpo /\ idom' = idom /\ changed' = changed
  BY DEF FirstPred, order_vars
<1>2. TypeOK /\ BelowInv /\ AboveInv
  BY DEF IInv, JInv
<1>3. pc' # "abort"
  BY DEF IInv, NoAbort
<1>4. PICK p \in Pred(Bb) : /\ idom[p] # Null
                            /\ new_idom' = p
                            /\ rest' = Pred(Bb) \ {p}
                            /\ pc' = "preds"
  BY <1>3 DEF FirstPred
<1>5. p \in Block /\ Bb \in succ[p] /\ Bb' = Bb /\ Bb \in Block
  BY <1>1, <1>2 DEF Pred, Bb, TypeOK
<1>6. BelowInv'
  <2>1. \A c \in Block : SDom(c, Bb) => Dom(c, p)
    BY <1>1, <1>4, <1>5, DomOfReadyPred
  <2> QED
    BY <1>1, <1>2, <1>4, <1>5, <2>1, SameOrder DEF BelowInv, Pred
<1>7. AboveInv'
  <2>1. \A q \in Block : Bb \in succ[q] /\ q \notin rest' => q = p
    BY <1>4 DEF Pred
  <2>2. p \in Anc(p)
    BY <1>2, <1>5, AncFacts
  <2>3. \A q \in Block : Bb \in succ[q] /\ q \notin rest' => new_idom' \in Anc(q)
    BY <1>4, <2>1, <2>2
  <2>4. \A x : Anc(x)' = Anc(x)
    BY <1>1, SameAnc
  <2> QED
    BY <1>1, <1>2, <1>4, <1>5, <2>3, <2>4 DEF AboveInv
<1> QED
  BY <1>1, <1>4, <1>6, <1>7, SameOrder DEF JInv, IdomInv, Late

\* Another predecessor is skipped or handed to intersect.
LEMMA OtherPredJ == ASSUME IInv, JInv, NEW p \in Block, OtherPred(p) PROVE JInv'
<1>1. /\ pc = "preds" /\ p \in rest /\ rest' = rest \ {p} /\ pos' = pos
      /\ succ' = succ /\ rpo' = rpo /\ idom' = idom /\ changed' = changed
      /\ new_idom' = new_idom
  BY DEF OtherPred, order_vars
<1>2. TypeOK /\ BelowInv /\ AboveInv
  BY DEF IInv, JInv
<1>3. /\ idom[p] = Null => pc' = "preds"
      /\ idom[p] # Null => pc' = "intersect" /\ b1' = p /\ b2' = new_idom
  BY <1>1 DEF OtherPred
<1>4. Bb' = Bb
  BY <1>1 DEF Bb
<1>5. \A x : Anc(x)' = Anc(x)
  BY <1>1, SameAnc
<1>6. CASE idom[p] = Null
  <2>1. BelowInv'
    BY <1>1, <1>2, <1>3, <1>4, <1>6, SameOrder DEF BelowInv, Pred
  <2>2. AboveInv'
    BY <1>1, <1>2, <1>3, <1>4, <1>5, <1>6 DEF AboveInv
  <2> QED
    BY <1>1, <1>3, <1>6, <2>1, <2>2, SameOrder DEF JInv, IdomInv, Late
<1>7. CASE idom[p] # Null
  <2>0. pc' = "intersect" /\ b1' = p /\ b2' = new_idom
    BY <1>3, <1>7
  <2>1. BelowInv'
    <3>1. ASSUME NEW c \in Block, SDom(c, Bb) PROVE Dom(c, p) /\ Dom(c, new_idom)
      <4>1. Dom(c, new_idom)
        BY <1>1, <1>2, <3>1 DEF BelowInv
      <4>2. Bb \in Block
        BY <1>1, <1>2 DEF IInv, CandInv, Bb, TypeOK
      <4>3. Bb \in succ[p]
        BY <1>1, <1>2 DEF BelowInv, Pred
      <4> QED
        BY <1>1, <1>7, <3>1, <4>1, <4>2, <4>3, DomOfReadyPred
    <3> QED
      BY <1>1, <1>2, <1>4, <2>0, <3>1, SameOrder DEF BelowInv, Pred
  <2>2. AboveInv'
    <3>1. p \in Anc(p)
      BY <1>2, AncFacts
    <3>2. \A q \in Block : Bb \in succ[q] /\ q \notin rest' /\ idom[q] # Null =>
            p \in Anc(q) \/ new_idom \in Anc(q)
      BY <1>1, <1>2, <3>1 DEF AboveInv
    <3> QED
      BY <1>1, <1>2, <1>4, <1>5, <2>0, <3>2 DEF AboveInv
  <2> QED
    BY <1>1, <2>0, <2>1, <2>2, SameOrder DEF JInv, IdomInv, Late
<1> QED
  BY <1>6, <1>7

\* The lower argument of intersect climbs; it is none of the blocks that
\* dominate the other, whose numbers are higher.
LEMMA ClimbJ ==
  ASSUME IInv, JInv, pc = "intersect", pc' = "intersect",
         succ' = succ, rpo' = rpo, idom' = idom, changed' = changed,
         rest' = rest, pos' = pos,
         \/ id[b1] < id[b2] /\ b1' = idom[b1] /\ b2' = b2
         \/ id[b2] < id[b1] /\ b2' = idom[b2] /\ b1' = b1
  PROVE  JInv'
<1>1. TypeOK /\ BelowInv /\ AboveInv /\ CandInv /\ TreeInv
  BY DEF IInv, JInv
<1>2. /\ b1 \in Block /\ idom[b1] # Null /\ idom[b1] \in Block
      /\ b2 \in Block /\ idom[b2] # Null /\ idom[b2] \in Block
      /\ id[b1] \in Nat /\ id[b2] \in Nat
  BY <1>1 DEF CandInv, TreeInv, TypeOK
<1>3. Bb' = Bb /\ Bb \in Block /\ Pred(Bb)' = Pred(Bb)
  BY <1>1 DEF Bb, CandInv, TypeOK, Pred
<1>4. ASSUME NEW c \in Block, SDom(c, Bb)
      PROVE  Dom(c, b1') /\ Dom(c, b2')
  <2>1. Dom(c, b1) /\ Dom(c, b2)
    BY <1>1, <1>4 DEF BelowInv
  <2>2. /\ id[c] \in Nat /\ id[b1] <= id[c] /\ id[b2] <= id[c]
    BY <1>2, <2>1, DomNumbers
  <2>3. CASE id[b1] < id[b2] /\ b1' = idom[b1] /\ b2' = b2
    <3>1. c # b1
      BY <1>2, <2>2, <2>3
    <3>2. SDom(c, b1)
      BY <2>1, <3>1 DEF SDom, SDomIn, Dom
    <3> QED
      BY <1>1, <1>2, <2>1, <2>3, <3>2 DEF BelowInv
  <2>4. CASE id[b2] < id[b1] /\ b2' = idom[b2] /\ b1' = b1
    <3>1. c # b2
      BY <1>2, <2>2, <2>4
    <3>2. SDom(c, b2)
      BY <2>1, <3>1 DEF SDom, SDomIn, Dom
    <3> QED
      BY <1>1, <1>2, <2>1, <2>4, <3>2 DEF BelowInv
  <2> QED
    BY <2>3, <2>4
<1>5. BelowInv'
  BY <1>1, <1>3, <1>4, SameOrder DEF BelowInv
<1>6. AboveInv'
  <2>1. \A x : Anc(x)' = Anc(x)
    BY SameAnc
  <2>2. ASSUME NEW q \in Block, Bb \in succ[q], q \notin rest, idom[q] # Null
        PROVE  b1' \in Anc(q) \/ b2' \in Anc(q)
    <3>1. b1 \in Anc(q) \/ b2 \in Anc(q)
      BY <1>1, <2>2 DEF AboveInv
    <3>2. b1 \in Anc(q) => idom[b1] \in Anc(q)
      BY <1>1, <1>2, AncFacts
    <3>3. b2 \in Anc(q) => idom[b2] \in Anc(q)
      BY <1>1, <1>2, AncFacts
    <3> QED
      BY <3>1, <3>2, <3>3
  <2> QED
    BY <1>1, <1>3, <2>1, <2>2 DEF AboveInv
<1> QED
  BY <1>5, <1>6, SameOrder DEF JInv, IdomInv, Late

\* Both directions of the climb.
LEMMA Climb1J == ASSUME IInv, JInv, Climb1, IInv' PROVE JInv'
<1>1. pc' # "abort"
  BY DEF IInv, NoAbort
<1>2. /\ pc = "intersect" /\ pc' = "intersect" /\ succ' = succ /\ rpo' = rpo
      /\ idom' = idom /\ changed' = changed /\ rest' = rest /\ pos' = pos
      /\ id[b1] < id[b2] /\ b1' = idom[b1] /\ b2' = b2
  BY <1>1 DEF Climb1, order_vars
<1> QED
  BY <1>2, ClimbJ

\* The second finger of intersect climbs: what dominates stays above it.
LEMMA Climb2J == ASSUME IInv, JInv, Climb2, IInv' PROVE JInv'
<1>1. pc' # "abort"
  BY DEF IInv, NoAbort
<1>2. /\ pc = "intersect" /\ pc' = "intersect" /\ succ' = succ /\ rpo' = rpo
      /\ idom' = idom /\ changed' = changed /\ rest' = rest /\ pos' = pos
      /\ id[b2] < id[b1] /\ b2' = idom[b2] /\ b1' = b1
  BY <1>1 DEF Climb2, order_vars
<1> QED
  BY <1>2, ClimbJ

\* Where the arguments meet is the new candidate.
LEMMA MetJ == ASSUME IInv, JInv, Met PROVE JInv'
<1>1. /\ pc = "intersect" /\ pc' = "preds" /\ succ' = succ /\ rpo' = rpo
      /\ idom' = idom /\ changed' = changed /\ rest' = rest /\ pos' = pos
      /\ b1 = b2 /\ new_idom' = b1
  BY DEF Met, order_vars
<1>2. BelowInv /\ AboveInv
  BY DEF JInv
<1>3. Bb' = Bb /\ Pred(Bb)' = Pred(Bb)
  BY <1>1 DEF Bb, Pred
<1>4. BelowInv'
  BY <1>1, <1>2, <1>3, SameOrder DEF BelowInv
<1>5. AboveInv'
  BY <1>1, <1>2, <1>3, SameAnc DEF AboveInv
<1> QED
  BY <1>1, <1>4, <1>5, SameOrder DEF JInv, IdomInv, Late

\* The candidate is stored.  If it is not new, nothing in the tree moves.
LEMMA StoreJ == ASSUME IInv, JInv, Store PROVE JInv'
<1>1. /\ pc = "preds" /\ rest = {} /\ pc' = "idom" /\ pos' = pos + 1
      /\ succ' = succ /\ rpo' = rpo
      /\ idom' = [idom EXCEPT ![Bb] = new_idom]
      /\ changed' = (changed \/ idom[Bb] # new_idom)
  BY DEF Store, order_vars
<1>2. TypeOK /\ CandInv /\ BelowInv /\ AboveInv
  BY DEF IInv, JInv
<1>3. /\ pos \in 2..Len(rpo) /\ Bb \in Block /\ Bb \in Ptr /\ Block \subseteq Ptr
  BY <1>1, <1>2, Graph DEF CandInv, TypeOK, Bb
<1>4. idom'[Bb] = new_idom /\ \A b \in Ptr : b # Bb => idom'[b] = idom[b]
  BY <1>1, <1>2, <1>3 DEF TypeOK
<1>5. BelowInv'
  <2>1. ASSUME NEW b \in Block, NEW c \in Block, idom'[b] # Null, SDom(c, b)
        PROVE  Dom(c, idom'[b])
    <3>1. CASE b = Bb
      BY <1>1, <1>2, <1>4, <2>1, <3>1 DEF BelowInv
    <3>2. CASE b # Bb
      BY <1>1, <1>2, <1>3, <1>4, <2>1, <3>2 DEF BelowInv
    <3> QED
      BY <3>1, <3>2
  <2> QED
    BY <1>1, <2>1, SameOrder DEF BelowInv
<1>6. AboveInv'
  <2>1. CASE changed'
    BY <1>1, <2>1 DEF AboveInv
  <2>2. CASE ~changed'
    <3>1. ~changed /\ idom[Bb] = new_idom
      BY <1>1, <2>2
    <3>2. idom' = idom
      BY <1>1, <1>2, <1>3, <3>1 DEF TypeOK
    <3>3. ASSUME NEW i \in 1..Len(rpo), i < pos + 1, rpo[i] # Root,
                 NEW p \in Block, rpo[i] \in succ[p], idom[p] # Null
          PROVE  idom[rpo[i]] \in Anc(p)
      <4>1. CASE i = pos
        BY <1>1, <1>2, <3>1, <3>3, <4>1 DEF AboveInv, Bb
      <4>2. CASE i < pos
        BY <1>1, <1>2, <3>1, <3>3, <4>2 DEF AboveInv
      <4> QED
        BY <1>3, <3>3, <4>1, <4>2
    <3> QED
      BY <1>1, <3>2, <3>3, SameAnc DEF AboveInv
  <2> QED
    BY <2>1, <2>2
<1> QED
  BY <1>1, <1>5, <1>6, SameOrder DEF JInv, IdomInv, Late

\* When every idom lies above all predecessors of its block, what lies above a
\* block dominates it: a path that avoids it never gets below it.
LEMMA AboveDominates ==
  ASSUME IInv, JInv, pc # "dfs",
         \A b \in Reachable : idom[b] # Null,
         \A b \in Reachable, p \in Reachable :
           b # Root /\ b \in succ[p] => idom[b] \in Anc(p),
         NEW x \in Reachable, NEW a \in Anc(x)
  PROVE  Dom(a, x)
<1>1. TypeOK /\ TreeInv
  BY DEF IInv
<1>2. IsFlowGraph(succ) /\ DOMAIN succ = Block /\ Root = Entry /\ Root \in Block
  BY <1>1, Graph
<1>3. Reachable \subseteq Block /\ Root \in Reachable /\ a \in Block
  BY <1>1, Graph DEF Anc
<1> DEFINE S == {y \in Reachable : a \notin Anc(y)}
<1>4. a # Root => a \notin Anc(Root)
  <2>1. {Root} \in SUBSET Block /\ \A y \in {Root} : idom[y] \in {Root}
    BY <1>1, <1>2 DEF TreeInv
  <2> QED
    BY <2>1 DEF Anc
<1>5. a # Entry => Entry \in S
  BY <1>2, <1>3, <1>4
<1>6. ASSUME NEW y \in S, NEW z \in succ[y], z # a PROVE z \in S
  <2>1. y \in Reachable /\ a \notin Anc(y)
    OBVIOUS
  <2>2. z \in Reachable /\ z \in Block /\ y \in Block
    BY <1>2, <1>3, <2>1, ReachFacts DEF Reachable
  <2>3. CASE z = Root
    BY <1>3, <1>4, <1>6, <2>2, <2>3
  <2>4. CASE z # Root
    <3>1. idom[z] \in Anc(y) /\ idom[z] \in Block
      BY <1>1, <2>1, <2>2, <2>4 DEF TreeInv
    <3>2. a \in Anc(z) => a \in Anc(idom[z])
      BY <1>1, <1>3, <1>6, <2>2, AncFacts
    <3>3. a \in Anc(idom[z]) => a \in Anc(y)
      BY <1>1, <1>3, <2>2, <3>1, AncFacts
    <3> QED
      BY <2>1, <2>2, <3>2, <3>3
  <2> QED
    BY <2>3, <2>4
<1>7. ReachAvoidingIn(succ, a) \subseteq S
  <2> HIDE DEF S
  <2> QED
    BY <1>2, <1>5, <1>6, ReachLeast
<1>8. x \notin ReachAvoidingIn(succ, a)
  BY <1>7
<1> QED
  BY <1>8 DEF Dom, DomIn, Reachable

\* The end of a pass: the next one starts, or nothing has changed and the
\* tree is the dominator tree.
LEMMA NextPassJ == ASSUME IInv, JInv, NextPass PROVE JInv'
<1>1. /\ pc = "idom" /\ pos > Len(rpo) /\ pos' = 1 /\ changed' = FALSE
      /\ pc' = (IF changed THEN "idom" ELSE "df")
      /\ succ' = succ /\ rpo' = rpo /\ idom' = idom
  BY DEF NextPass, order_vars
<1>2. TypeOK /\ OrdInv /\ TreeInv /\ PassInv /\ ListInv /\ BelowInv /\ AboveInv
  BY DEF IInv, JInv
<1>3. Len(rpo) \in Nat /\ pos \in Nat
  BY <1>2 DEF TypeOK
<1>4. BelowInv'
  BY <1>1, <1>2, SameOrder DEF BelowInv
<1>5. AboveInv'
  <2>1. \A i \in 1..Len(rpo) : ~(i < pos')
    BY <1>1, <1>3
  <2> QED
    BY <1>1, <2>1 DEF AboveInv
<1>6. IdomInv'
  <2> SUFFICES ASSUME ~changed, NEW b \in Block
               PROVE  IF b = Root THEN idom[b] = Root
                      ELSE IF b \in Reachable THEN IsIdomIn(succ, idom[b], b)
                      ELSE idom[b] = Null
    BY <1>1, SameOrder DEF IdomInv, Late
  <2>1. \A y \in Reachable : y \in Block /\ \E i \in 1..Len(rpo) : rpo[i] = y
    BY <1>1, <1>2, Graph DEF ListInv
  <2>2. \A y \in Reachable : idom[y] # Null
    BY <1>1, <1>2, <1>3, <2>1 DEF PassInv
  <2>3. \A y \in Reachable, p \in Reachable :
          y # Root /\ y \in succ[p] => idom[y] \in Anc(p)
    <3> SUFFICES ASSUME NEW y \in Reachable, NEW p \in Reachable,
                        y # Root, y \in succ[p]
                 PROVE  idom[y] \in Anc(p)
      OBVIOUS
    <3>1. PICK i \in 1..Len(rpo) : rpo[i] = y
      BY <2>1
    <3>2. i < pos /\ p \in Block /\ idom[p] # Null
      BY <1>1, <1>3, <2>1, <2>2
    <3> QED
      BY <1>1, <1>2, <3>1, <3>2 DEF AboveInv
  <2>4. CASE b = Root
    BY <1>1, <1>2, <2>4 DEF TreeInv
  <2>5. CASE b # Root /\ b \in Reachable
    <3>1. idom[b] # Null /\ idom[b] \in Block /\ id[b] < id[idom[b]]
      BY <1>1, <1>2, <2>2, <2>5 DEF TreeInv
    <3>2. idom[b] # b
      BY <1>2, <3>1 DEF TypeOK
    <3>3. idom[b] \in Anc(b)
      BY <1>2, <3>1, AncFacts
    <3>4. Dom(idom[b], b)
      BY <1>1, <2>2, <2>3, <2>5, <3>3, AboveDominates
    <3>5. \A c \in Block : SDom(c, b) => Dom(c, idom[b])
      BY <1>1, <1>2, <3>1 DEF BelowInv
    <3>6. DOMAIN succ = Block
      BY <1>2, Graph
    <3> QED
      BY <2>5, <3>2, <3>4, <3>5, <3>6 DEF IsIdomIn, Dom, SDom, SDomIn
  <2>6. CASE b # Root /\ b \notin Reachable
    BY <1>1, <2>6, HasIdomReachable
  <2> QED
    BY <2>4, <2>5, <2>6
<1> QED
  BY <1>1, <1>4, <1>5, <1>6, SameOrder DEF JInv

\* The later loops leave graph, list and tree alone.
LEMMA AfterJ == ASSUME IInv, JInv, After PROVE JInv'
<1>1. /\ pc \in Late /\ pc' \in Late
      /\ succ' = succ /\ rpo' = rpo /\ idom' = idom
  BY DEF After, FrontierBlock, FrontierPred, FrontierClimb, FrontierNextBlock,
         FrontierDone, TreeBlock, TreeDone, order_vars, Late
<1>2. BelowInv /\ IdomInv
  BY DEF JInv
<1>3. pc # "dfs" /\ pc' # "dfs" /\ pc' \notin {"idom", "preds", "intersect"}
  BY <1>1 DEF Late
<1>4. BelowInv'
  BY <1>1, <1>2, <1>3, SameOrder DEF BelowInv
<1>5. AboveInv'
  BY <1>3 DEF AboveInv
<1>6. IdomInv'
  BY <1>1, <1>2, <1>3, SameOrder DEF IdomInv
<1> QED
  BY <1>1, <1>3, <1>4, <1>5, <1>6, SameOrder DEF JInv

\* Every step keeps the invariants.
LEMMA StepJ == ASSUME IInv, JInv, [Next]_vars, IInv' PROVE JInv'
<1>1. CASE Next
  BY <1>1, VisitJ, FinishInnerJ, FinishRootJ, SkipRootJ, FirstPredJ, OtherPredJ,
     StoreJ, NextPassJ, Climb1J, Climb2J, MetJ, AfterJ DEF Next, After
<1>2. CASE UNCHANGED vars
  <2>1. /\ succ' = succ /\ pc' = pc /\ stack' = stack /\ visited' = visited
        /\ rpo' = rpo /\ idom' = idom /\ changed' = changed /\ rest' = rest
        /\ pos' = pos /\ new_idom' = new_idom /\ b1' = b1 /\ b2' = b2
    BY <1>2 DEF vars, order_vars, loop_vars
  <2>2. /\ Reachable' = Reachable /\ Bb' = Bb
        /\ \A c, y : Dom(c, y)' <=> Dom(c, y)
        /\ \A c, y : SDom(c, y)' <=> SDom(c, y)
        /\ \A b : Pred(b)' = Pred(b)
    BY <2>1 DEF Reachable, Dom, SDom, Bb, Pred
  <2>3. VisitInv2' /\ ListInv'
    BY <2>1, <2>2 DEF JInv, VisitInv2, ListInv
  <2>4. BelowInv'
    BY <2>1, <2>2 DEF JInv, BelowInv
  <2>5. AboveInv'
    BY <2>1, <2>2, SameAnc DEF JInv, AboveInv
  <2>6. IdomInv'
    BY <2>1, <2>2 DEF JInv, IdomInv
  <2> QED
    BY <2>3, <2>4, <2>5, <2>6 DEF JInv
<1> QED
  BY <1>1, <1>2

\* The invariants hold throughout the pass.
THEOREM Correspondence == Spec => [](IInv /\ JInv)
<1>1. Init => IInv /\ JInv
  BY InitInv, JInit
<1>2. IInv /\ JInv /\ [Next]_vars /\ IInv' => JInv'
  BY StepJ
<1> QED
  BY Invariance, <1>1, <1>2, PTL DEF Spec

\* create_idom ends with the immediate dominators of the path definition, on
\* every graph and for every order of the predecessor lists.
THEOREM IdomsFound == Spec => []IdomCorrect
<1>1. JInv => IdomCorrect
  BY DEF JInv, IdomInv, IdomCorrect, Late
<1> QED
  BY Correspondence, <1>1, PTL

\* create_reverse_post_order lists the reachable blocks once each, numbers
\* them by position, and puts some predecessor of every block but the first
\* before it.
THEOREM OrderFound == Spec => []RpoOrder
<1>1. ASSUME IInv, JInv PROVE RpoOrder
  <2> SUFFICES ASSUME pc = "idom"
               PROVE  /\ {rpo[i] : i \in 1..Len(rpo)} = Reachable
                      /\ Len(rpo) = Cardinality(Reachable)
                      /\ \A i \in 1..Len(rpo) :
                           /\ id[rpo[i]] = Len(rpo) - i
                           /\ i > 1 => \E j \in 1..(i - 1) : rpo[j] \in Pred(rpo[i])
    BY DEF RpoOrder
  <2>1. TypeOK /\ OrdInv /\ ListInv
    BY <1>1 DEF IInv, JInv
  <2>2. Reachable \subseteq Block /\ Len(rpo) \in Nat /\ rpo \in [1..Len(rpo) -> Block]
    BY <2>1, Graph DEF TypeOK
  <2>3. {rpo[i] : i \in 1..Len(rpo)} = Reachable
    BY <2>1, <2>2 DEF ListInv
  <2>4. \A i, j \in 1..Len(rpo) : rpo[i] = rpo[j] => i = j
    <3> SUFFICES ASSUME NEW i \in 1..Len(rpo), NEW j \in 1..Len(rpo), rpo[i] = rpo[j]
                 PROVE  i = j
      OBVIOUS
    <3>1. Len(rpo) - i = Len(rpo) - j
      BY <2>1 DEF OrdInv
    <3> QED
      BY <2>2, <3>1
  <2>5. rpo \in Bijection(1..Len(rpo), Reachable)
    <3>1. rpo \in [1..Len(rpo) -> Reachable]
      BY <2>2, <2>3
    <3>2. \A b \in Reachable : \E i \in 1..Len(rpo) : rpo[i] = b
      BY <2>3
    <3> QED
      BY <2>4, <3>1, <3>2 DEF Bijection, Injection, Surjection, IsInjective
  <2>6. Len(rpo) = Cardinality(Reachable)
    <3>1. ExistsBijection(1..Len(rpo), Reachable)
      BY <2>5 DEF ExistsBijection
    <3> QED
      BY <2>2, <3>1, FS_CountingElements
  <2>7. \A i \in 1..Len(rpo) : id[rpo[i]] = Len(rpo) - i
    BY <2>1 DEF OrdInv
  <2>8. ASSUME NEW i \in 1..Len(rpo), i > 1
        PROVE  \E j \in 1..(i - 1) : rpo[j] \in Pred(rpo[i])
    <3>1. i \in 2..Len(rpo)
      BY <2>2, <2>8
    <3>2. PICK j \in 1..(i - 1) : rpo[i] \in succ[rpo[j]]
      BY <2>1, <3>1 DEF OrdInv
    <3>3. rpo[j] \in Block
      BY <2>2, <3>1, <3>2
    <3> QED
      BY <3>2, <3>3 DEF Pred
  <2> QED
    BY <2>3, <2>6, <2>7, <2>8
<1> QED
  BY Correspondence, <1>1, PTL

-----------------------------------------------------------------------------
(***************************************************************************)
(* The frontiers.                                                          *)
(***************************************************************************)

\* A block with fewer than two predecessors has at most one.
LEMMA FewerThanTwo ==
  ASSUME TypeOK, NEW y \in Block, ~(Cardinality(Pred(y)) >= 2)
  PROVE  \A p, q \in Pred(y) : p = q
<1> SUFFICES ASSUME NEW p \in Pred(y), NEW q \in Pred(y), p # q PROVE FALSE
  OBVIOUS
<1>1. IsFiniteSet(Pred(y)) /\ Cardinality(Pred(y)) \in Nat
  <2>1. Pred(y) \in SUBSET Block
    BY DEF Pred
  <2>2. IsFiniteSet(Block)
    BY Graph DEF IsFlowGraph
  <2> QED
    BY <2>1, <2>2, FS_Subset, FS_CardinalityType
<1>2. IsFiniteSet({p}) /\ Cardinality({p}) = 1
  BY FS_Singleton
<1>3. Cardinality({p} \cup {q}) = 2
  <2> DEFINE S == {p}
  <2>1. q \notin S /\ IsFiniteSet(S) /\ Cardinality(S) = 1
    BY <1>2
  <2> HIDE DEF S
  <2>2. Cardinality(S \cup {q}) = Cardinality(S) + 1
    BY <2>1, FS_AddElement
  <2> QED
    BY <2>1, <2>2 DEF S
<1>4. {p} \cup {q} \in SUBSET Pred(y)
  OBVIOUS
<1>5. Cardinality({p} \cup {q}) <= Cardinality(Pred(y))
  BY <1>1, <1>4, FS_Subset
<1> QED
  BY <1>1, <1>3, <1>5

\* The frontiers are defined on the graph alone.
LEMMA SameFrontier ==
  ASSUME succ' = succ
  PROVE  /\ Reachable' = Reachable
         /\ \A c, y : Dom(c, y)' <=> Dom(c, y)
         /\ \A b : FrontierIn(succ, b)' = FrontierIn(succ, b)
         /\ \A b : Pred(b)' = Pred(b)
BY DEF Reachable, Dom, Pred

\* The steps before create_dominance_frontier.
LEMMA EarlyF ==
  ASSUME IInv, FrontierInv, succ' = succ, df' = df, idom'[Null] = idom[Null],
         pc \notin Late, pc' \notin Late \/ (pc' = "df" /\ pos' = 1)
  PROVE  FrontierInv'
<1>1. \A y \in Block : ~(y < 1)
  BY DEF Block
<1>2. pc' \notin {"df_preds", "climb", "tree", "done"}
  BY DEF Late
<1>3. pc' \in {"df", "df_preds", "climb"} => pos' = 1
  BY DEF Late
<1> QED
  BY <1>1, <1>2, <1>3, SameFrontier DEF FrontierInv

\* The next block of the outer loop: a block with one predecessor is in no
\* frontier.
LEMMA FrontierBlockF == ASSUME IInv, JInv, FrontierInv, FrontierBlock PROVE FrontierInv'
<1>1. /\ pc = "df" /\ pos <= N /\ succ' = succ /\ df' = df /\ idom' = idom
  BY DEF FrontierBlock, order_vars
<1>2. TypeOK /\ pos \in Block
  BY <1>1 DEF IInv, TypeOK, Block
<1>3. CASE Cardinality(Pred(pos)) >= 2
  <2>1. rest' = Pred(pos) /\ pc' = "df_preds" /\ pos' = pos
    BY <1>3 DEF FrontierBlock
  <2>2. \A p \in Block : pos \in succ[p] => p \in rest'
    BY <2>1 DEF Pred
  <2>3. pos # Root
    <3>1. Pred(Root) = {}
      BY DEF FrontierInv, Pred
    <3>2. Cardinality({}) = 0
      BY FS_EmptySet
    <3> QED
      BY <1>3, <3>1, <3>2
  <2> QED
    BY <1>1, <2>1, <2>2, <2>3, SameFrontier DEF FrontierInv
<1>4. CASE ~(Cardinality(Pred(pos)) >= 2)
  <2>1. pos' = pos + 1 /\ pc' = "df"
    BY <1>1, <1>4 DEF FrontierBlock
  <2>2. \A b : pos # Root => pos \notin FrontierIn(succ, b)
    <3>1. Pred(pos) = PredIn(succ, pos)
      BY <1>2, Graph DEF Pred, PredIn
    <3> QED
      BY <1>2, <1>4, <3>1, Graph, FewerThanTwo, OnePredNoFrontier
  <2>3. \A b : Root \notin FrontierIn(succ, b)
    BY <1>2, Graph DEF FrontierInv, FrontierIn, PredIn
  <2>4. ASSUME NEW b \in Reachable, NEW y \in Block, y < pos + 1,
               y \in FrontierIn(succ, b)
        PROVE  y \in df[b]
    <3>1. y # pos
      BY <2>2, <2>3, <2>4
    <3>2. y < pos
      BY <1>2, <2>4, <3>1 DEF Block
    <3> QED
      BY <1>1, <2>4, <3>2 DEF FrontierInv
  <2> QED
    BY <1>1, <2>1, <2>4, SameFrontier DEF FrontierInv
<1> QED
  BY <1>3, <1>4

\* The runner starts at a predecessor.
LEMMA FrontierPredF ==
  ASSUME IInv, JInv, FrontierInv, NEW p \in Block, FrontierPred(p)
  PROVE  FrontierInv'
<1>1. /\ pc = "df_preds" /\ p \in rest /\ rest' = rest \ {p} /\ b1' = p
      /\ pc' = "climb" /\ succ' = succ /\ df' = df /\ idom' = idom /\ pos' = pos
  BY DEF FrontierPred, order_vars
<1>2. TypeOK /\ pos \in Block /\ IdomInv
  BY <1>1 DEF IInv, PosInv, JInv
<1>3. pos \in succ[p] /\ pos # Root
  BY <1>1 DEF FrontierInv, Pred
<1>4. ASSUME p \in Reachable
      PROVE  /\ pos \in Reachable
             /\ Dom(p, p)
             /\ Dom(idom[pos], p)
  <2>1. pos \in Reachable
    BY <1>2, <1>3, <1>4, Graph, ReachFacts DEF Reachable
  <2>2. SDomIn(succ, idom[pos], pos)
    BY <1>1, <1>2, <1>3, <2>1 DEF IdomInv, Late, IsIdomIn
  <2>3. DomIn(succ, idom[pos], p)
    BY <1>2, <1>3, <1>4, <2>2, Graph, DomOfPred DEF Reachable
  <2>4. DomIn(succ, p, p)
    BY <1>2, <1>4, Graph, DomBasic DEF Reachable
  <2> QED
    BY <2>1, <2>3, <2>4 DEF Dom
<1>5. ASSUME NEW b \in Reachable, NEW q \in Block, pos \in FrontierIn(succ, b),
             pos \in succ[q], q \notin rest', Dom(b, q)
      PROVE  pos \in df[b] \/ Dom(b, p)
  <2>1. CASE q = p
    BY <1>5, <2>1
  <2>2. CASE q # p
    BY <1>1, <1>5, <2>2 DEF FrontierInv
  <2> QED
    BY <2>1, <2>2
<1> QED
  BY <1>1, <1>3, <1>4, <1>5, SameFrontier DEF FrontierInv

\* The runner climbs: the block it leaves dominates a predecessor and is
\* dominated by the idom of the join, so it does not dominate the join.
LEMMA FrontierClimbF ==
  ASSUME IInv, JInv, FrontierInv, FrontierClimb PROVE FrontierInv'
<1>1. /\ pc = "climb" /\ succ' = succ /\ idom' = idom /\ pos' = pos /\ rest' = rest
  BY DEF FrontierClimb, order_vars
<1>2. TypeOK /\ pos \in Block /\ IdomInv /\ IsFlowGraph(succ) /\ Root = Entry
  BY <1>1, Graph DEF IInv, PosInv, JInv
<1>3. Reachable \subseteq Block /\ Block \subseteq Ptr /\ Null \notin Block /\ b1 \in Ptr
  BY <1>2, Graph DEF TypeOK
<1>4. pos # Root /\ (pos \in Reachable => IsIdomIn(succ, idom[pos], pos))
  BY <1>1, <1>2 DEF IdomInv, Late, FrontierInv
<1>5. CASE b1 = idom[pos]
  <2>1. pc' = "df_preds" /\ df' = df
    BY <1>5 DEF FrontierClimb
  <2>2. ASSUME NEW b \in Reachable, NEW p \in Block, pos \in FrontierIn(succ, b),
               pos \in succ[p], p \notin rest, Dom(b, p)
        PROVE  pos \in df[b]
    <3> SUFFICES ASSUME DomIn(succ, b, b1) PROVE FALSE
      BY <1>1, <2>2 DEF FrontierInv, Dom
    <3>1. pos \in Reachable /\ ~SDomIn(succ, b, pos)
      BY <2>2 DEF FrontierIn, Reachable
    <3>2. SDomIn(succ, b1, pos)
      BY <1>4, <1>5, <3>1 DEF IsIdomIn
    <3>3. DomIn(succ, b, pos)
      BY <1>2, <3>2, DomTransitive DEF SDomIn
    <3>4. b # pos
      BY <1>2, <3>2, DomAntisymmetric DEF SDomIn
    <3> QED
      BY <3>1, <3>3, <3>4 DEF SDomIn
  <2> QED
    BY <1>1, <2>1, <2>2, SameFrontier DEF FrontierInv
<1>6. CASE b1 # idom[pos] /\ b1 \notin Reachable
  <2>1. df' = [df EXCEPT ![b1] = @ \cup {pos}] /\ b1' = idom[b1] /\ pc' = "climb"
    BY <1>1, <1>6 DEF FrontierClimb
  <2>2. \A b \in Reachable : df'[b] = df[b]
    BY <1>2, <1>3, <1>6, <2>1 DEF TypeOK
  <2>3. b1' = Null
    <3>1. CASE b1 = Null
      BY <2>1, <3>1 DEF FrontierInv
    <3>2. CASE b1 \in Block
      BY <1>1, <1>2, <1>6, <2>1, <3>2, Graph DEF IdomInv, Late
    <3> QED
      BY <1>3, <3>1, <3>2 DEF Ptr, Null, Block
  <2>4. b1' \notin Reachable
    BY <1>3, <2>3
  <2>5. \A b : ~Dom(b, b1)
    BY <1>6 DEF Dom, DomIn, Reachable
  <2> QED
    BY <1>1, <2>1, <2>2, <2>4, <2>5, SameFrontier DEF FrontierInv
<1>7. CASE b1 # idom[pos] /\ b1 \in Reachable
  <2>1. df' = [df EXCEPT ![b1] = @ \cup {pos}] /\ b1' = idom[b1] /\ pc' = "climb"
    BY <1>1, <1>7 DEF FrontierClimb
  <2>2. /\ df'[b1] = df[b1] \cup {pos}
        /\ \A b \in Reachable : b # b1 => df'[b] = df[b]
    BY <1>2, <1>3, <2>1 DEF TypeOK
  <2>3. /\ pos \in Reachable
        /\ DomIn(succ, idom[pos], b1)
    BY <1>1, <1>7 DEF FrontierInv, Dom
  <2>4. PICK p \in Block : pos \in succ[p] /\ DomIn(succ, b1, p)
    BY <1>1, <1>7 DEF FrontierInv, Dom
  <2>5. pos \in FrontierIn(succ, b1)
    <3>1. ~SDomIn(succ, b1, pos)
      <4> SUFFICES ASSUME SDomIn(succ, b1, pos) PROVE FALSE
        OBVIOUS
      <4>1. DomIn(succ, b1, idom[pos])
        BY <1>2, <1>3, <1>4, <1>7, <2>3, Graph DEF IsIdomIn
      <4> QED
        BY <1>2, <1>7, <2>3, <4>1, DomAntisymmetric
    <3>2. p \in PredIn(succ, pos)
      BY <1>2, <2>4, Graph DEF PredIn
    <3> QED
      BY <2>3, <2>4, <3>1, <3>2 DEF FrontierIn, Reachable
  <2>6. b1 # Root
    <3>1. b1 = Root => idom[pos] = Root
      BY <1>2, <2>3, Graph, DomBasic DEF Reachable
    <3> QED
      BY <1>7, <3>1
  <2>7. IsIdomIn(succ, idom[b1], b1) /\ b1 \in Block
    BY <1>1, <1>2, <1>3, <1>7, <2>6 DEF IdomInv, Late
  <2>8. SDomIn(succ, idom[pos], b1) /\ idom[pos] \in Block
    <3>1. idom[pos] \in ReachableIn(succ)
      BY <1>2, <2>3, DomReachable
    <3> QED
      BY <1>3, <1>7, <2>3, <3>1 DEF SDomIn, Reachable
  <2>9. DomIn(succ, idom[pos], idom[b1])
    BY <1>2, <2>7, <2>8, Graph DEF IsIdomIn
  <2>10. DomIn(succ, idom[b1], p)
    BY <1>2, <2>4, <2>7, DomTransitive DEF IsIdomIn, SDomIn
  <2>11. ASSUME NEW b \in Reachable, NEW q \in Block, pos \in FrontierIn(succ, b),
                pos \in succ[q], q \notin rest, Dom(b, q)
         PROVE  pos \in df'[b] \/ Dom(b, idom[b1])
    <3>1. pos \in df[b] \/ DomIn(succ, b, b1)
      BY <1>1, <2>11 DEF FrontierInv, Dom
    <3>2. CASE b = b1
      BY <2>2, <3>2
    <3>3. CASE b # b1 /\ DomIn(succ, b, b1)
      <4>1. SDomIn(succ, b, b1)
        BY <3>3 DEF SDomIn
      <4>2. DomIn(succ, b, idom[b1])
        BY <1>2, <1>3, <2>7, <4>1, Graph DEF IsIdomIn
      <4> QED
        BY <4>2 DEF Dom
    <3> QED
      BY <2>2, <3>1, <3>2, <3>3
  <2>12. \A b \in Reachable : df[b] \subseteq df'[b]
    BY <2>2
  <2>13. \A b \in Reachable : df'[b] \subseteq FrontierIn(succ, b)
    BY <2>2, <2>5 DEF FrontierInv
  <2>14. \A b \in Reachable, y \in Block :
           y < pos /\ y \in FrontierIn(succ, b) => y \in df'[b]
    BY <1>1, <2>12 DEF FrontierInv
  <2>15. /\ \E q \in Block : pos \in succ[q] /\ Dom(idom[b1], q)
         /\ Dom(idom[pos], idom[b1])
    BY <2>4, <2>9, <2>10 DEF Dom
  <2>16. /\ \A b \in Block : Root \notin succ[b]
         /\ idom[Null] = Null
         /\ rest \subseteq Pred(pos) /\ pos # Root
    BY <1>1 DEF FrontierInv
  <2> QED
    BY <1>1, <2>1, <2>3, <2>11, <2>13, <2>14, <2>15, <2>16, SameFrontier DEF FrontierInv
<1> QED
  BY <1>5, <1>6, <1>7

\* The remaining steps of the frontier and tree loops.
LEMMA LateF ==
  ASSUME IInv, JInv, FrontierInv,
         FrontierNextBlock \/ FrontierDone \/ TreeBlock \/ TreeDone
  PROVE  FrontierInv'
<1>1. succ' = succ /\ df' = df /\ idom' = idom
  BY DEF FrontierNextBlock, FrontierDone, TreeBlock, TreeDone, order_vars
<1>2. TypeOK /\ DOMAIN succ = Block
  BY Graph DEF IInv
<1>3. CASE FrontierNextBlock
  <2>1. pc = "df_preds" /\ rest = {} /\ pos' = pos + 1 /\ pc' = "df" /\ pos \in Nat
    BY <1>2, <1>3 DEF FrontierNextBlock, TypeOK
  <2>2. ASSUME NEW b \in Reachable, NEW y \in Block, y < pos + 1,
               y \in FrontierIn(succ, b)
        PROVE  y \in df[b]
    <3>1. CASE y < pos
      BY <2>1, <2>2, <3>1 DEF FrontierInv
    <3>2. CASE y = pos
      <4>1. PICK p \in Block : pos \in succ[p] /\ Dom(b, p)
        BY <1>2, <2>2, <3>2 DEF FrontierIn, PredIn, Dom
      <4> QED
        BY <2>1, <2>2, <3>2, <4>1 DEF FrontierInv
    <3> QED
      BY <2>1, <2>2, <3>1, <3>2 DEF Block
  <2> QED
    BY <1>1, <2>1, <2>2, SameFrontier DEF FrontierInv
<1>4. CASE FrontierDone
  <2>1. pc = "df" /\ pos > N /\ pc' = "tree" /\ pos \in Nat
    BY <1>2, <1>4 DEF FrontierDone, TypeOK
  <2>2. \A y \in Block : y < pos
    BY <2>1, DominatorsAssumption DEF Block
  <2> QED
    BY <1>1, <2>1, <2>2, SameFrontier DEF FrontierInv
<1>5. CASE TreeBlock \/ TreeDone
  <2>1. pc = "tree" /\ pc' \in {"tree", "done"}
    BY <1>5 DEF TreeBlock, TreeDone
  <2> QED
    BY <1>1, <2>1, SameFrontier DEF FrontierInv
<1> QED
  BY <1>3, <1>4, <1>5

\* Every step keeps what is said of the frontiers.
LEMMA StepF == ASSUME IInv, JInv, FrontierInv, [Next]_vars, IInv' PROVE FrontierInv'
<1>1. CASE (\E b \in Block : Visit(b)) \/ FinishInner \/ FinishRoot
  <2>1. pc = "dfs" /\ pc' \in {"dfs", "idom"} /\ succ' = succ /\ df' = df
    BY <1>1 DEF Visit, FinishInner, FinishRoot, Numbered
  <2>2. idom'[Null] = idom[Null]
    <3>1. CASE idom' = idom
      BY <3>1
    <3>2. CASE idom' = Cleared
      <4>1. Null \in Ptr /\ Null # Root
        BY DominatorsAssumption DEF Null, Ptr, Root
      <4> QED
        BY <3>2, <4>1 DEF Cleared, FrontierInv
    <3> QED
      BY <1>1, <3>1, <3>2 DEF Visit, FinishInner, FinishRoot
  <2> QED
    BY <2>1, <2>2, EarlyF DEF Late
<1>2. CASE SkipRoot \/ FirstPred \/ (\E p \in Block : OtherPred(p)) \/ Store
           \/ Climb1 \/ Climb2 \/ Met
  <2>1. pc \in {"idom", "preds", "intersect"} /\ succ' = succ /\ df' = df
    BY <1>2 DEF SkipRoot, FirstPred, OtherPred, Store, Climb1, Climb2, Met
  <2>2. pc' \notin Late
    BY <1>2 DEF SkipRoot, FirstPred, OtherPred, Store, Climb1, Climb2, Met, Late
  <2>3. idom'[Null] = idom[Null]
    <3>1. CASE Store
      <4>1. idom' = [idom EXCEPT ![Bb] = new_idom] /\ pc = "preds"
        BY <3>1 DEF Store
      <4>2. TypeOK /\ Bb \in Block
        BY <4>1 DEF IInv, CandInv, TypeOK, Bb
      <4>3. Bb # Null /\ Null \in Ptr
        BY <4>2, Graph, DominatorsAssumption DEF Null, Ptr
      <4> QED
        BY <4>1, <4>2, <4>3 DEF TypeOK
    <3>2. CASE ~Store
      BY <1>2, <3>2 DEF SkipRoot, FirstPred, OtherPred, Climb1, Climb2, Met
    <3> QED
      BY <3>1, <3>2
  <2> QED
    BY <2>1, <2>2, <2>3, EarlyF DEF Late
<1>3. CASE NextPass
  <2>1. /\ pc = "idom" /\ succ' = succ /\ df' = df /\ idom' = idom
        /\ pos' = 1 /\ pc' \in {"idom", "df"}
    BY <1>3 DEF NextPass, order_vars
  <2> QED
    BY <2>1, EarlyF DEF Late
<1>4. CASE After
  BY <1>4, FrontierBlockF, FrontierPredF, FrontierClimbF, LateF DEF After
<1>5. CASE UNCHANGED vars
  <2>1. /\ succ' = succ /\ pc' = pc /\ df' = df /\ idom' = idom /\ rest' = rest
        /\ pos' = pos /\ b1' = b1
    BY <1>5 DEF vars, order_vars, loop_vars
  <2> QED
    BY <2>1, SameFrontier DEF FrontierInv
<1> QED
  BY <1>1, <1>2, <1>3, <1>4, <1>5 DEF Next, After

\* create_dominance_frontier ends with the dominance frontiers of the path
\* definition, on every graph in which no block branches to the entry (as the
\* builder never does; on others the entry is missing from its own frontier).
THEOREM FrontiersFound ==
  ASSUME EntryHasNoPred
  PROVE  Spec => []FrontierCorrect
<1>1. Init /\ IInv => FrontierInv
  <2> SUFFICES ASSUME Init, IInv PROVE FrontierInv
    OBVIOUS
  <2>1. /\ pc = "dfs" /\ succ \in CFG /\ idom = [b \in Ptr |-> Null]
        /\ df = [b \in Ptr |-> {}]
    BY DEF Init
  <2>2. Null \in Ptr /\ Reachable \subseteq Ptr
    BY Graph, DominatorsAssumption DEF Null, Ptr, IInv
  <2> QED
    BY <2>1, <2>2 DEF FrontierInv, EntryHasNoPred
<1>2. IInv /\ JInv /\ FrontierInv /\ [Next]_vars /\ IInv' => FrontierInv'
  BY StepF
<1>3. IInv /\ JInv /\ FrontierInv => FrontierCorrect
  <2> SUFFICES ASSUME IInv, FrontierInv, pc = "done", NEW b \in Reachable
               PROVE  df[b] = FrontierIn(succ, b)
    BY DEF FrontierCorrect
  <2>1. FrontierIn(succ, b) \subseteq Block
    BY Graph DEF FrontierIn, Reachable, IInv
  <2> QED
    BY <2>1 DEF FrontierInv
<1> QED
  BY Correspondence, InitInv, <1>1, <1>2, <1>3, PTL DEF Spec

-----------------------------------------------------------------------------
(***************************************************************************)
(* The tree Mem2Reg walks.                                                 *)
(***************************************************************************)

\* Below is the last element of an iteration.
LEMMA BelowIteration ==
  ASSUME TypeOK, NEW a \in Block
  PROVE  LET F == [r \in SUBSET Block |-> r \cup UNION {kids[b] : b \in r}]
         IN  /\ N \in Nat
             /\ F \in [SUBSET Block -> SUBSET Block]
             /\ \E f \in [0..N -> SUBSET Block] :
                  /\ f[0] = kids[a]
                  /\ \A k \in 1..N : f[k] = F[f[k - 1]]
                  /\ Below(a) = f[N]
<1> DEFINE S(r) == r \cup UNION {kids[b] : b \in r}
           F == [r \in SUBSET Block |-> S(r)]
           s == kids[a]
           P(f) == f = [k \in 0..N |-> IF k = 0 THEN s ELSE S(f[k - 1])]
           c == CHOOSE f : P(f)
<1>1. N \in Nat /\ Block \subseteq Ptr
  BY DominatorsAssumption, Graph
<1>2. /\ \A r \in SUBSET Block : S(r) \in SUBSET Block
      /\ s \in SUBSET Block
  BY <1>1 DEF TypeOK
<1>3. F \in [SUBSET Block -> SUBSET Block]
  BY <1>2
<1>4. PICK h : h = [k \in 0..N |-> IF k = 0 THEN s ELSE F[h[k - 1]]]
  <2> DEFINE X == SUBSET Block
  <2>1. F \in [X -> X] /\ s \in X
    BY <1>2, <1>3
  <2>2. N \in Nat
    BY <1>1
  <2> HIDE DEF F, s, S, P, c, X
  <2> QED
    BY <2>1, <2>2, IterationExists
<1>5. \A k \in 0..N : h[k] \in SUBSET Block
  <2>1. h[0] \in SUBSET Block /\ \A k \in 1..N : h[k] = F[h[k - 1]]
    <3> HIDE DEF F, s
    <3> QED
      BY <1>1, <1>2, <1>4
  <2>2. \A r \in SUBSET Block : F[r] \in SUBSET Block
    <3> HIDE DEF F
    <3> QED
      BY <1>3
  <2> HIDE DEF F
  <2> QED
    BY <1>1, <2>1, <2>2, IterationStays
<1>6. P(h)
  <2>1. \A k \in 0..N : k # 0 => F[h[k - 1]] = S(h[k - 1])
    <3> SUFFICES ASSUME NEW k \in 0..N, k # 0 PROVE F[h[k - 1]] = S(h[k - 1])
      OBVIOUS
    <3>1. h[k - 1] \in SUBSET Block
      BY <1>1, <1>5
    <3> QED
      BY <3>1
  <2> HIDE DEF F, S, s
  <2> QED
    BY <1>4, <2>1
<1>7. P(c)
  <2> HIDE DEF P
  <2> QED
    BY <1>6, Zenon
<1>8. Below(a) = c[N]
  BY Zenon DEF Below
<1>9. c[0] = kids[a] /\ \A k \in 1..N : c[k] = S(c[k - 1])
  <2> HIDE DEF S, c
  <2> QED
    BY <1>1, <1>7
<1>10. \A k \in 0..N : c[k] \in SUBSET Block
  <2> DEFINE G == {k \in 0..N : c[k] \in SUBSET Block}
  <2>1. 0 \in G
    <3> HIDE DEF S, c
    <3> QED
      BY <1>1, <1>2, <1>9
  <2>2. ASSUME NEW k \in 1..N, k - 1 \in G PROVE k \in G
    <3> HIDE DEF S, c
    <3>1. k \in 0..N /\ c[k] = S(c[k - 1]) /\ c[k - 1] \in SUBSET Block
      BY <1>1, <1>9, <2>2
    <3> QED
      BY <1>2, <3>1
  <2> HIDE DEF G, c
  <2>3. \A k \in 0..N : k \in G
    BY <1>1, <2>1, <2>2, UpTo
  <2> QED
    BY <2>3 DEF G
<1>11. c \in [0..N -> SUBSET Block]
  <2> HIDE DEF S, c
  <2> QED
    BY <1>7, <1>10
<1>12. \A k \in 1..N : c[k] = F[c[k - 1]]
  <2> SUFFICES ASSUME NEW k \in 1..N PROVE c[k] = F[c[k - 1]]
    OBVIOUS
  <2>1. c[k - 1] \in SUBSET Block /\ c[k] = S(c[k - 1])
    <3> HIDE DEF S, c
    <3> QED
      BY <1>1, <1>9, <1>10
  <2> HIDE DEF c
  <2> QED
    BY <2>1
<1> HIDE DEF c
<1> QED
  BY <1>1, <1>3, <1>8, <1>9, <1>11, <1>12

\* The blocks below a are the least set that holds the children of a and, with
\* a block, its children.
LEMMA BelowLeast ==
  ASSUME TypeOK, NEW a \in Block
  PROVE  /\ Below(a) \subseteq Block
         /\ kids[a] \subseteq Below(a)
         /\ \A b \in Below(a) : kids[b] \subseteq Below(a)
         /\ \A T \in SUBSET Block :
              kids[a] \subseteq T /\ (\A b \in T : kids[b] \subseteq T)
                => Below(a) \subseteq T
<1> DEFINE F == [r \in SUBSET Block |-> r \cup UNION {kids[b] : b \in r}]
           R == Below(a)
<1>1. N \in Nat /\ F \in [SUBSET Block -> SUBSET Block]
  BY BelowIteration
<1>2. PICK f \in [0..N -> SUBSET Block] :
         /\ f[0] = kids[a]
         /\ \A k \in 1..N : f[k] = F[f[k - 1]]
         /\ R = f[N]
  BY BelowIteration
<1>3. R \in SUBSET Block
  <2> HIDE DEF F, R
  <2> QED
    BY <1>1, <1>2
<1>4. \A r \in SUBSET Block : r \subseteq F[r]
  OBVIOUS
<1>5. IsFiniteSet(Block) /\ Cardinality(Block) = N
  BY FS_Interval, DominatorsAssumption DEF Block
<1>6. F[R] = R
  <2>1. Grows(F, Block) /\ Iterates(f, F, Block, Cardinality(Block))
    <3> HIDE DEF F, R
    <3> QED
      BY <1>1, <1>2, <1>4, <1>5 DEF Grows, Iterates
  <2> HIDE DEF F, R
  <2>2. F[f[Cardinality(Block)]] = f[Cardinality(Block)]
    BY <1>5, <2>1, IterationCloses, Zenon
  <2> QED
    BY <1>2, <1>5, <2>2
<1>7. R = R \cup UNION {kids[b] : b \in R}
  <2> HIDE DEF R
  <2> QED
    BY <1>3, <1>6
<1>8. ASSUME NEW b \in R PROVE kids[b] \subseteq R
  <2> HIDE DEF R
  <2> QED
    BY <1>7
<1>9. ASSUME NEW X, f[0] \in X, \A r \in X : F[r] \in X PROVE R \in X
  <2> HIDE DEF F, R
  <2>1. \A k \in 0..N : f[k] \in X
    BY <1>1, <1>2, <1>9, IterationStays
  <2> QED
    BY <1>1, <1>2, <2>1
<1>10. kids[a] \subseteq R
  <2> DEFINE X == {r \in SUBSET Block : kids[a] \subseteq r}
  <2>1. f[0] \in X
    <3> HIDE DEF F, R
    <3> QED
      BY <1>1, <1>2
  <2>2. \A r \in X : F[r] \in X
    <3> HIDE DEF F
    <3> QED
      BY <1>1, <1>4
  <2>3. R \in X
    <3> HIDE DEF F, R, X
    <3> QED
      BY <1>9, <2>1, <2>2
  <2> QED
    BY <2>3
<1>11. ASSUME NEW T \in SUBSET Block, kids[a] \subseteq T,
              \A b \in T : kids[b] \subseteq T
       PROVE  R \subseteq T
  <2> DEFINE X == {r \in SUBSET Block : r \subseteq T}
  <2>1. f[0] \in X
    <3> HIDE DEF F, R
    <3> QED
      BY <1>1, <1>2, <1>11
  <2>2. ASSUME NEW r \in X PROVE F[r] \in X
    <3>1. F[r] = r \cup UNION {kids[b] : b \in r}
      OBVIOUS
    <3>2. UNION {kids[b] : b \in r} \subseteq T
      BY <1>11
    <3> HIDE DEF F
    <3> QED
      BY <3>1, <3>2
  <2>3. R \in X
    <3> HIDE DEF F, R, X
    <3> QED
      BY <1>9, <2>1, <2>2
  <2> QED
    BY <2>3
<1> HIDE DEF R
<1> QED
  BY <1>3, <1>8, <1>10, <1>11 DEF R

\* create_dom_tree_succ adds each block once, and no other loop adds any.
LEMMA StepK == ASSUME IInv, KidsInv, [Next]_vars, IInv' PROVE KidsInv'
<1>1. TypeOK
  BY DEF IInv
<1>2. CASE TreeBlock
  <2>1. /\ pc = "tree" /\ pc' = "tree" /\ idom' = idom /\ pos <= N
        /\ pos' = pos + 1
        /\ kids' = IF idom[pos] # pos
                   THEN [kids EXCEPT ![idom[pos]] = @ \cup {pos}]
                   ELSE kids
    BY <1>2 DEF TreeBlock
  <2>2. /\ pos \in Block /\ pos \in Ptr /\ idom[pos] \in Ptr
        /\ \A b \in Block : b < pos + 1 <=> (b < pos \/ b = pos)
    BY <1>1, <2>1 DEF TypeOK, Block, Ptr
  <2>3. ASSUME NEW c \in Ptr
        PROVE  kids'[c] = {b \in Block : b < pos + 1 /\ idom[b] = c /\ b # c}
    <3>1. kids[c] = {b \in Block : b < pos /\ idom[b] = c /\ b # c}
      BY <2>1 DEF KidsInv
    <3>2. CASE c = idom[pos] /\ c # pos
      <4>1. kids'[c] = kids[c] \cup {pos}
        BY <1>1, <2>1, <3>2 DEF TypeOK
      <4> QED
        BY <2>2, <3>1, <3>2, <4>1
    <3>3. CASE c # idom[pos] \/ c = pos
      <4>1. kids'[c] = kids[c]
        BY <1>1, <2>1, <2>2, <3>3 DEF TypeOK
      <4> QED
        BY <2>2, <3>1, <3>3, <4>1
    <3> QED
      BY <3>2, <3>3
  <2> QED
    BY <2>1, <2>3 DEF KidsInv
<1>3. CASE TreeDone
  <2>1. /\ pc = "tree" /\ pc' = "done" /\ pos > N
        /\ idom' = idom /\ kids' = kids /\ pos' = pos
    BY <1>3 DEF TreeDone, loop_vars
  <2> QED
    BY <2>1 DEF KidsInv
<1>4. CASE FrontierDone
  <2>1. pc = "df" /\ pc' = "tree" /\ pos' = 1 /\ idom' = idom /\ kids' = kids
    BY <1>4 DEF FrontierDone
  <2>2. \A b \in Block : ~(b < 1)
    BY DEF Block
  <2> QED
    BY <2>1, <2>2 DEF KidsInv
<1>5. CASE \/ \E b \in Block : Visit(b)
           \/ FinishInner \/ FinishRoot \/ SkipRoot \/ FirstPred
           \/ \E p \in Block : OtherPred(p)
           \/ Store \/ NextPass \/ Climb1 \/ Climb2 \/ Met \/ FrontierBlock
           \/ \E p \in Block : FrontierPred(p)
           \/ FrontierClimb \/ FrontierNextBlock
  <2>1. pc \notin {"tree", "done"} /\ pc' \notin {"tree", "done"} /\ kids' = kids
    BY <1>5 DEF Visit, FinishInner, FinishRoot, Numbered, SkipRoot, FirstPred,
       OtherPred, Store, NextPass, Climb1, Climb2, Met, FrontierBlock,
       FrontierPred, FrontierClimb, FrontierNextBlock
  <2> QED
    BY <2>1 DEF KidsInv
<1>6. CASE UNCHANGED vars
  BY <1>6 DEF KidsInv, vars, loop_vars
<1> QED
  BY <1>2, <1>3, <1>4, <1>5, <1>6 DEF Next

\* In the finished tree, a block lies below those that strictly dominate it.
LEMMA TreeOfDominators ==
  ASSUME IInv, JInv, KidsInv, pc = "done", NEW a \in Reachable
  PROVE  Below(a) = {b \in Block : SDom(a, b)}
<1> DEFINE T == {b \in Block : SDom(a, b)}
<1>1. /\ TypeOK /\ IdomInv /\ ListInv /\ OrdInv /\ TreeInv
      /\ IsFlowGraph(succ) /\ DOMAIN succ = Block /\ Root = Entry
      /\ a \in Block /\ Reachable \subseteq Block /\ Null \notin Block
      /\ Block \subseteq Ptr /\ Root \in Block
  BY Graph DEF IInv, JInv
<1>2. \A c \in Ptr : kids[c] = {b \in Block : idom[b] = c /\ b # c}
  <2>1. \A b \in Block : b < pos
    BY <1>1, DominatorsAssumption DEF KidsInv, TypeOK, Block
  <2> QED
    BY <2>1 DEF KidsInv
<1>3. ASSUME NEW b \in Block, SDom(a, b)
      PROVE  /\ b \in Reachable /\ b # Root /\ SDom(idom[b], b)
             /\ Dom(a, idom[b]) /\ idom[b] \in Block /\ idom[b] \in Reachable
  <2>1. b \in Reachable /\ Dom(a, b) /\ a # b
    BY <1>3 DEF SDom, SDomIn, Dom, DomIn, Reachable
  <2>2. b # Root
    BY <1>1, <2>1, DomBasic DEF Dom, Reachable
  <2>3. IsIdomIn(succ, idom[b], b)
    BY <1>1, <2>1, <2>2 DEF IdomInv, Late
  <2>4. SDom(idom[b], b) /\ Dom(a, idom[b])
    BY <1>1, <1>3, <2>3 DEF IsIdomIn, SDom, Dom
  <2>5. idom[b] \in Reachable
    BY <1>1, <2>4, DomReachable DEF SDom, SDomIn, Reachable
  <2> QED
    BY <1>1, <2>1, <2>2, <2>4, <2>5
<1>4. Below(a) \subseteq T
  <2>1. ASSUME NEW c \in Reachable, NEW b \in kids[c], c = a \/ SDom(a, c)
        PROVE  b \in T
    <3>1. b \in Block /\ idom[b] = c /\ b # c
      BY <1>1, <1>2, <2>1
    <3>2. b # Root /\ b \in Reachable
      BY <1>1, <2>1, <3>1 DEF IdomInv, Late
    <3>3. SDomIn(succ, c, b)
      BY <1>1, <3>1, <3>2 DEF IdomInv, Late, IsIdomIn
    <3>4. CASE c = a
      BY <3>1, <3>3, <3>4 DEF SDom
    <3>5. CASE SDom(a, c)
      <4>1. DomIn(succ, a, c) /\ DomIn(succ, c, b) /\ a # c
        BY <3>3, <3>5 DEF SDom, SDomIn
      <4>2. DomIn(succ, a, b)
        BY <1>1, <4>1, DomTransitive
      <4>3. a # b
        BY <1>1, <4>1, DomAntisymmetric
      <4> QED
        BY <3>1, <4>2, <4>3 DEF SDom, SDomIn
    <3> QED
      BY <2>1, <3>4, <3>5
  <2>2. kids[a] \subseteq T
    BY <2>1
  <2>3. \A c \in T : kids[c] \subseteq T
    <3>1. \A c \in T : c \in Reachable /\ SDom(a, c)
      BY <1>3
    <3> HIDE DEF T
    <3> QED
      BY <2>1, <3>1
  <2> HIDE DEF T
  <2>4. T \in SUBSET Block
    BY DEF T
  <2> QED
    BY <1>1, <2>2, <2>3, <2>4, BelowLeast
<1>5. T \subseteq Below(a)
  <2> DEFINE U == {i \in 1..Len(rpo) : rpo[i] \in T /\ rpo[i] \notin Below(a)}
  <2>1. SUFFICES ASSUME U # {} PROVE FALSE
    <3>1. \A b \in T : \E i \in 1..Len(rpo) : rpo[i] = b
      BY <1>1, <1>3 DEF ListInv
    <3> HIDE DEF T
    <3> QED
      BY <2>1, <3>1
  <2>2. U \subseteq Nat /\ Len(rpo) \in Nat
    BY <1>1 DEF TypeOK
  <2>3. PICK i \in U : \A k \in U : i <= k
    <3> HIDE DEF U
    <3> QED
      BY <2>1, <2>2, LeastNat
  <2> DEFINE b == rpo[i]
             c == idom[b]
  <2>4. i \in 1..Len(rpo) /\ b \in T /\ b \notin Below(a) /\ b \in Block
    BY <2>3
  <2> HIDE DEF b, U
  <2>5. /\ b # Root /\ SDom(c, b) /\ Dom(a, c) /\ c \in Block
        /\ c \in Reachable
    BY <1>3, <2>4
  <2>6. c # Null /\ id[b] < id[c] /\ c \in Ptr /\ b # c
    BY <1>1, <2>5, <2>4 DEF TreeInv, SDom, SDomIn
  <2>7. b \in kids[c]
    BY <1>2, <2>4, <2>6
  <2>8. c # a
    BY <1>1, <2>4, <2>7, BelowLeast
  <2>9. c \notin Below(a)
    BY <1>1, <2>4, <2>7, BelowLeast
  <2> HIDE DEF c
  <2>10. c \in T
    BY <2>5, <2>8 DEF SDom, SDomIn, Dom
  <2>11. PICK j \in 1..Len(rpo) : rpo[j] = c
    BY <1>1, <2>5 DEF ListInv
  <2>12. id[b] = Len(rpo) - i /\ id[c] = Len(rpo) - j
    BY <1>1, <2>4, <2>11 DEF OrdInv, b
  <2>13. j < i
    BY <2>2, <2>4, <2>6, <2>11, <2>12
  <2>14. j \in U
    BY <2>9, <2>10, <2>11 DEF U
  <2> QED
    BY <2>2, <2>3, <2>4, <2>11, <2>13, <2>14
<1> QED
  BY <1>4, <1>5

\* create_dom_tree_succ ends with the dominator tree that Mem2Reg::re_name
\* walks: every block but the root has one parent, and the blocks below a
\* reachable block are those it strictly dominates.
THEOREM TreeFound == Spec => []TreeCorrect
<1>1. Init => KidsInv
  BY DEF Init, KidsInv
<1>2. IInv /\ JInv /\ KidsInv /\ [Next]_vars /\ IInv' => KidsInv'
  BY StepK
<1>3. ASSUME IInv, JInv, KidsInv PROVE TreeCorrect
  <2> SUFFICES ASSUME pc = "done"
               PROVE  /\ \A b \in Block \ {Root} :
                           \E a \in Ptr : {c \in Ptr : b \in kids[c]} = {a}
                      /\ \A a \in Reachable : Below(a) = {b \in Block : SDom(a, b)}
    BY DEF TreeCorrect
  <2>1. TypeOK /\ IdomInv /\ Root \in Block /\ Null \notin Block
    BY <1>3, Graph DEF IInv, JInv
  <2>2. ASSUME NEW b \in Block \ {Root}
        PROVE  {c \in Ptr : b \in kids[c]} = {idom[b]} /\ idom[b] \in Ptr
    <3>1. b < pos
      BY <1>3, <2>1, DominatorsAssumption DEF KidsInv, TypeOK, Block
    <3>2. idom[b] # b
      BY <2>1 DEF IdomInv, Late, IsIdomIn, SDomIn
    <3>3. idom[b] \in Ptr
      BY <2>1, DominatorsAssumption DEF TypeOK, Block, Ptr
    <3>4. \A c \in Ptr : b \in kids[c] <=> (idom[b] = c /\ b # c)
      BY <1>3, <3>1 DEF KidsInv
    <3> QED
      BY <3>2, <3>3, <3>4
  <2> QED
    BY <1>3, <2>2, TreeOfDominators
<1> QED
  BY Correspondence, InitInv, <1>1, <1>2, <1>3, PTL DEF Spec

-----------------------------------------------------------------------------
(***************************************************************************)
(* The iteration does not oscillate.                                       *)
(***************************************************************************)

\* The loops of create_idom.
Loop == {"idom", "preds", "intersect"}

\* The number of the block the pass is at: those it has gone by have higher ones.
Cut == Len(rpo) - pos

\* The blocks above all predecessors of b with an idom, those in s left out.
Shared(b, s) ==
  {a \in Block : \A p \in Block : b \in succ[p] /\ p \notin s /\ idom[p] # Null
                                  => a \in Anc(p)}

\* What lies above all predecessors of a block lies above the block, and the
\* candidate is the lowest block above the predecessors looked at.
MeetInv ==
  /\ pc = "dfs" => \A b \in Block : idom[b] = Null
  /\ pc \in Loop =>
       \A b \in Block \ {Root} : idom[b] # Null => Shared(b, {}) \subseteq Anc(b)
  /\ pc = "preds" => Shared(Bb, rest) \subseteq Anc(new_idom)
  /\ pc = "intersect" => Shared(Bb, rest) \subseteq Anc(b1) \cap Anc(b2)

\* Every block follows a predecessor earlier in the list.  For a block the pass
\* has gone by, all that lies above it lies above that predecessor; for the
\* others, what the pass has not come to yet.  So no block hangs below one that
\* is about to move when all its predecessors have already left it.
FollowInv ==
  pc \in Loop =>
    \A b \in Block \ {Root} : idom[b] # Null =>
      \E q \in Block :
        /\ b \in succ[q] /\ idom[q] # Null /\ id[b] < id[q]
        /\ \A x \in Anc(b) \ {b} : id[x] <= Cut \/ id[b] > Cut => x \in Anc(q)

UpInv == MeetInv /\ FollowInv

-----------------------------------------------------------------------------
\* What lies above a block of the tree is in the tree, with a higher number, and
\* of two blocks above it one is above the other.
LEMMA Ascent ==
  ASSUME IInv, pc # "dfs", NEW y \in Block, idom[y] # Null
  PROVE  /\ Anc(y) \subseteq Block
         /\ \A a \in Anc(y) : idom[a] # Null /\ idom[a] \in Anc(y)
         /\ \A a \in Anc(y) : id[y] \in Nat /\ id[a] \in Nat /\ (a = y \/ id[y] < id[a])
         /\ \A a, c \in Anc(y) : id[a] <= id[c] => c \in Anc(a)
<1>1. TypeOK /\ TreeInv
  BY DEF IInv
<1>2. \A b \in Block : idom[b] # Null =>
        /\ idom[b] \in Block /\ idom[idom[b]] # Null
        /\ b = Root \/ id[b] < id[idom[b]]
  BY <1>1 DEF TreeInv
<1>3. \A b \in Block : id[b] \in Nat
  BY <1>1 DEF TypeOK
<1>4. Anc(y) \subseteq Block
  BY DEF Anc
<1>5. ASSUME NEW z \in Block, idom[z] # Null, NEW a \in Anc(z)
      PROVE  idom[a] # Null /\ (a = z \/ id[z] < id[a])
  <2> DEFINE S == {b \in Block : idom[b] # Null /\ (b = z \/ id[z] < id[b])}
  <2>1. S \in SUBSET Block /\ z \in S
    BY <1>5
  <2>2. ASSUME NEW b \in S PROVE idom[b] \in S
    <3>1. CASE b = Root
      BY <1>1, <2>2, <3>1 DEF TreeInv
    <3>2. CASE b # Root
      BY <1>2, <1>3, <2>2, <3>2
    <3> QED
      BY <3>1, <3>2
  <2>3. a \in S
    <3> HIDE DEF S
    <3> QED
      BY <2>1, <2>2 DEF Anc
  <2> QED
    BY <2>3
<1>6. \A a \in Anc(y) : idom[a] # Null /\ (a = y \/ id[y] < id[a])
  BY <1>5
<1>7. \A a \in Anc(y) : idom[a] \in Anc(y)
  BY <1>1, <1>2, <1>4, <1>6, AncFacts
<1>8. ASSUME NEW a \in Anc(y), NEW c \in Anc(y), id[a] <= id[c]
      PROVE  c \in Anc(a)
  <2> DEFINE S == {z \in Anc(y) : a \in Anc(z) \/ z \in Anc(a)}
  <2>1. S \in SUBSET Block /\ y \in S
    BY <1>1, <1>4, AncFacts
  <2>2. ASSUME NEW z \in S PROVE idom[z] \in S
    <3>1. z \in Anc(y) /\ z \in Block /\ a \in Block /\ idom[z] \in Anc(y)
          /\ idom[z] \in Block
      BY <1>4, <1>7, <2>2
    <3>2. CASE z \in Anc(a)
      BY <1>1, <3>1, <3>2, AncFacts
    <3>3. CASE a \in Anc(z) /\ a # z
      BY <1>1, <3>1, <3>3, AncFacts
    <3>4. CASE a = z
      <4>1. z \in Anc(a)
        BY <1>1, <3>1, <3>4, AncFacts
      <4> QED
        BY <3>2, <4>1
    <3> QED
      BY <2>2, <3>2, <3>3, <3>4
  <2>3. c \in S
    <3> HIDE DEF S
    <3> QED
      BY <1>8, <2>1, <2>2 DEF Anc
  <2>4. CASE a \in Anc(c)
    <3>1. a = c \/ id[c] < id[a]
      BY <1>4, <1>5, <1>6, <2>4
    <3>2. a \in Block /\ c \in Block
      BY <1>4
    <3> QED
      BY <1>1, <1>3, <1>8, <2>4, <3>1, <3>2
  <2> QED
    BY <2>3, <2>4
<1> QED
  BY <1>3, <1>4, <1>6, <1>7, <1>8

\* A block X gets a new idom n above it in number.  What was not below X keeps
\* its way up.  What was keeps it as far as X, and goes on above n.
LEMMA MovedWay ==
  ASSUME IInv, pc # "dfs", NEW X \in Block, X # Root, NEW n \in Block, idom[n] # Null,
         id[X] < id[n], idom' = [idom EXCEPT ![X] = n],
         NEW y \in Block, idom[y] # Null
  PROVE  /\ X \notin Anc(y) => Anc(y)' = Anc(y)
         /\ X \in Anc(y) => /\ \A x \in Anc(y) : X \in Anc(x) => x \in Anc(y)'
                            /\ \A x \in Anc(y)' : \/ x \in Anc(y) /\ X \in Anc(x)
                                                  \/ x \in Anc(n)
                            /\ Anc(n) \subseteq Anc(y)'
         /\ (idom[X] # Null /\ n \in Anc(X)) => Anc(y)' \subseteq Anc(y)
<1>1. TypeOK
  BY DEF IInv
<1>2. Block \subseteq Ptr /\ idom'[X] = n /\ \A b \in Block : b # X => idom'[b] = idom[b]
  BY <1>1, Graph DEF TypeOK
<1>3. /\ Anc(y) \subseteq Block /\ Anc(n) \subseteq Block /\ y \in Anc(y) /\ n \in Anc(n)
      /\ \A a \in Anc(y) : idom[a] # Null /\ idom[a] \in Anc(y)
      /\ \A a \in Anc(n) : idom[a] # Null /\ idom[a] \in Anc(n)
  BY <1>1, Ascent, AncFacts
<1>4. \A z : \A a : a \in Anc(z)' <=>
        /\ a \in Block
        /\ \A S \in SUBSET Block : z \in S /\ (\A b \in S : idom'[b] \in S) => a \in S
  BY DEF Anc
<1>5. \A z : \A a : a \in Anc(z) <=>
        /\ a \in Block
        /\ \A S \in SUBSET Block : z \in S /\ (\A b \in S : idom[b] \in S) => a \in S
  BY DEF Anc
<1>6. ASSUME NEW z \in Block, idom[z] # Null, X \notin Anc(z)
      PROVE  Anc(z)' = Anc(z)
  <2>1. /\ Anc(z) \in SUBSET Block /\ z \in Anc(z)
        /\ \A b \in Anc(z) : b # X /\ idom'[b] = idom[b] /\ idom[b] \in Anc(z)
    BY <1>1, <1>2, <1>6, Ascent, AncFacts
  <2>2. Anc(z)' \subseteq Anc(z)
    BY <1>4, <2>1
  <2>3. ASSUME NEW a \in Anc(z) PROVE a \in Anc(z)'
    <3> SUFFICES ASSUME NEW S \in SUBSET Block, z \in S, \A b \in S : idom'[b] \in S
                 PROVE  a \in S
      BY <1>4, <2>1
    <3> DEFINE T == S \cap Anc(z)
    <3>1. T \in SUBSET Block /\ z \in T /\ \A b \in T : idom[b] \in T
      BY <2>1
    <3>2. a \in T
      <4> HIDE DEF T
      <4> QED
        BY <1>5, <2>3, <3>1
    <3> QED
      BY <3>2
  <2> QED
    BY <2>2, <2>3
<1>7. X \notin Anc(n)
  <2>1. \A a \in Anc(n) : id[n] \in Nat /\ id[a] \in Nat /\ (a = n \/ id[n] < id[a])
    BY Ascent
  <2> QED
    BY <2>1
<1>8. Anc(n)' = Anc(n)
  BY <1>6, <1>7
<1>9. ASSUME X \in Anc(y), NEW x \in Anc(y), X \in Anc(x)
      PROVE  x \in Anc(y)'
  <2> SUFFICES ASSUME NEW S \in SUBSET Block, y \in S, \A b \in S : idom'[b] \in S
               PROVE  x \in S
    BY <1>3, <1>4
  <2> DEFINE T == {z \in Anc(y) : X \in Anc(z) => z \in S}
  <2>1. T \in SUBSET Block /\ y \in T
    BY <1>3
  <2>2. ASSUME NEW z \in T PROVE idom[z] \in T
    <3>1. z \in Anc(y) /\ z \in Block /\ idom[z] # Null /\ idom[z] \in Anc(y)
          /\ idom[z] \in Block /\ idom[idom[z]] # Null
      BY <1>3
    <3> SUFFICES ASSUME X \in Anc(idom[z]) PROVE idom[z] \in S
      BY <3>1
    <3>2. X \in Anc(z)
      BY <1>1, <3>1, AncFacts
    <3>3. z \in S
      BY <2>2, <3>2
    <3>4. CASE z = X
      <4>1. id[idom[z]] <= id[X] /\ id[X] \in Nat /\ id[idom[z]] \in Nat
        BY <3>1, Ascent
      <4>2. id[z] < id[idom[z]]
        BY <3>1, <3>4 DEF IInv, TreeInv
      <4> QED
        BY <3>4, <4>1, <4>2
    <3>5. CASE z # X
      BY <1>2, <3>1, <3>3, <3>5
    <3> QED
      BY <3>4, <3>5
  <2>3. x \in T
    <3> HIDE DEF T
    <3> QED
      BY <1>5, <1>9, <2>1, <2>2
  <2> QED
    BY <1>9, <2>3
<1>10. ASSUME X \in Anc(y)
       PROVE  \A x \in Anc(y)' : (x \in Anc(y) /\ X \in Anc(x)) \/ x \in Anc(n)
  <2> DEFINE T == {z \in Anc(y) : X \in Anc(z)} \cup Anc(n)
  <2>1. T \in SUBSET Block /\ y \in T
    BY <1>3, <1>10
  <2>2. ASSUME NEW z \in T PROVE idom'[z] \in T
    <3>1. CASE z = X
      BY <1>2, <1>3, <3>1
    <3>2. CASE z # X /\ z \in Anc(n)
      BY <1>2, <1>3, <3>2
    <3>3. CASE z # X /\ z \in Anc(y) /\ X \in Anc(z)
      <4>1. X \in Anc(idom[z])
        BY <1>1, <1>3, <3>3, AncFacts
      <4> QED
        BY <1>2, <1>3, <3>3, <4>1
    <3> QED
      BY <3>1, <3>2, <3>3
  <2>3. Anc(y)' \subseteq T
    <3> HIDE DEF T
    <3> QED
      BY <1>4, <2>1, <2>2
  <2> QED
    BY <2>3
<1>11. ASSUME X \in Anc(y) PROVE Anc(n) \subseteq Anc(y)'
  <2>1. X \in Anc(y)'
    BY <1>1, <1>9, <1>11, AncFacts
  <2> SUFFICES ASSUME NEW a \in Anc(n)', NEW S \in SUBSET Block, y \in S,
                      \A b \in S : idom'[b] \in S
               PROVE  a \in S
    BY <1>3, <1>4, <1>8
  <2>2. X \in S
    BY <1>4, <2>1
  <2>3. n \in S
    BY <1>2, <2>2
  <2> QED
    BY <1>4, <2>3
<1>12. ASSUME idom[X] # Null, n \in Anc(X) PROVE Anc(y)' \subseteq Anc(y)
  <2>1. \A b \in Anc(y) : idom'[b] \in Anc(y)
    BY <1>1, <1>2, <1>3, <1>12, AncFacts
  <2> QED
    BY <1>3, <1>4, <2>1
<1> QED
  BY <1>6, <1>9, <1>10, <1>11, <1>12

\* The numbering leaves the map of idoms empty.
LEMMA InitUp == Init => UpInv
<1> SUFFICES ASSUME Init PROVE UpInv
  OBVIOUS
<1>1. pc = "dfs" /\ idom = [b \in Ptr |-> Null]
  BY DEF Init
<1>2. Block \subseteq Ptr
  BY DominatorsAssumption DEF Block, Ptr
<1> QED
  BY <1>1, <1>2 DEF UpInv, MeetInv, FollowInv, Loop

\* An activation of post_order_visit does not touch it either.
LEMMA DfsUp ==
  ASSUME UpInv, (\E b \in Block : Visit(b)) \/ FinishInner
  PROVE  UpInv'
<1>1. pc = "dfs" /\ pc' = "dfs" /\ idom' = idom
  BY DEF Visit, FinishInner, Numbered
<1> QED
  BY <1>1 DEF UpInv, MeetInv, FollowInv, Loop

\* create_idom starts with the root alone.
LEMMA FinishRootUp == ASSUME IInv, FinishRoot PROVE UpInv'
<1>1. pc' = "idom" /\ idom' = Cleared /\ Block \subseteq Ptr
  BY Graph DEF FinishRoot, IInv
<1>2. \A b \in Block \ {Root} : idom'[b] = Null
  BY <1>1 DEF Cleared
<1> QED
  BY <1>1, <1>2 DEF UpInv, MeetInv, FollowInv, Loop

\* A step that moves neither the tree nor the position of the pass.
LEMMA SameUp ==
  ASSUME UpInv, pc \in Loop, pc' \in Loop, idom' = idom, succ' = succ, id' = id,
         rpo' = rpo, pos' = pos
  PROVE  /\ FollowInv'
         /\ Bb' = Bb /\ \A x : Anc(x)' = Anc(x)
         /\ \A b \in Block \ {Root} : idom'[b] # Null => Shared(b, {})' \subseteq Anc(b)'
<1>1. Bb' = Bb /\ Cut' = Cut
  BY DEF Bb, Cut
<1>2. \A x : Anc(x)' = Anc(x)
  BY SameAnc
<1>3. FollowInv'
  BY <1>1, <1>2 DEF UpInv, FollowInv
<1>4. \A b : Shared(b, {})' = Shared(b, {})
  BY <1>2 DEF Shared
<1> QED
  BY <1>1, <1>2, <1>3, <1>4 DEF UpInv, MeetInv

\* The pass skips the root, or starts again.
LEMMA PassUp == ASSUME IInv, UpInv, SkipRoot \/ NextPass PROVE UpInv'
<1>1. /\ pc = "idom" /\ idom' = idom /\ succ' = succ /\ id' = id /\ rpo' = rpo
      /\ pc' \in {"idom", "df"}
  BY DEF SkipRoot, NextPass, order_vars
<1>2. TypeOK /\ OrdInv /\ TreeInv
  BY DEF IInv
<1>3. /\ \A x : Anc(x)' = Anc(x) /\ \A b : Shared(b, {})' = Shared(b, {})
  BY <1>1, SameAnc DEF Shared
<1>4. MeetInv'
  BY <1>1, <1>3 DEF UpInv, MeetInv, Loop
<1>5. ASSUME NEW b \in Block \ {Root}, idom[b] # Null
      PROVE  \/ id[b] > Cut
             \/ id[b] <= Cut' /\ \A x \in Block : id[x] <= Cut' => id[x] <= Cut
  <2>1. PICK i \in 1..Len(rpo) : rpo[i] = b
    BY <1>1, <1>2, <1>5 DEF TreeInv
  <2>2. /\ id[b] = Len(rpo) - i /\ Len(rpo) \in Nat /\ pos \in Nat
        /\ \A x \in Block : id[x] \in Nat
    BY <1>1, <1>2, <2>1 DEF OrdInv, TypeOK
  <2>3. CASE NextPass
    BY <2>1, <2>2, <2>3 DEF NextPass, Cut
  <2>4. CASE SkipRoot
    <3>1. pos' = pos + 1 /\ i # pos
      BY <2>1, <2>4 DEF SkipRoot, Bb
    <3>2. Cut = Len(rpo) - pos /\ Cut' = Len(rpo) - (pos + 1)
      BY <1>1, <3>1 DEF Cut
    <3> QED
      BY <2>1, <2>2, <3>1, <3>2
  <2> QED
    BY <2>3, <2>4
<1>6. FollowInv'
  <2> SUFFICES ASSUME NEW b \in Block \ {Root}, idom[b] # Null
               PROVE  \E q \in Block :
                        /\ b \in succ[q] /\ idom[q] # Null /\ id[b] < id[q]
                        /\ \A x \in Anc(b) \ {b} :
                             id[x] <= Cut' \/ id[b] > Cut' => x \in Anc(q)
    BY <1>1, <1>3 DEF FollowInv
  <2>1. PICK q \in Block :
          /\ b \in succ[q] /\ idom[q] # Null /\ id[b] < id[q]
          /\ \A x \in Anc(b) \ {b} : id[x] <= Cut \/ id[b] > Cut => x \in Anc(q)
    BY <1>1 DEF UpInv, FollowInv, Loop
  <2>2. id[b] \in Nat /\ Cut' \in Int /\ Anc(b) \subseteq Block
    <3>1. pos' \in Nat /\ Len(rpo') \in Nat
      BY <1>1, <1>2 DEF TypeOK, SkipRoot, NextPass
    <3> QED
      BY <1>2, <3>1 DEF TypeOK, Cut, Anc
  <2>3. \A x \in Anc(b) \ {b} : id[x] <= Cut' \/ id[b] > Cut' => x \in Anc(q)
    BY <1>5, <2>1, <2>2
  <2> QED
    BY <2>1, <2>3
<1> QED
  BY <1>4, <1>6 DEF UpInv

\* The first predecessor is the candidate.
LEMMA FirstPredUp == ASSUME IInv, UpInv, FirstPred, IInv' PROVE UpInv'
<1>1. pc' # "abort"
  BY DEF IInv, NoAbort
<1>2. PICK p \in Pred(Bb) :
        /\ idom[p] # Null /\ new_idom' = p /\ rest' = Pred(Bb) \ {p} /\ pc' = "preds"
  BY <1>1 DEF FirstPred
<1>3. /\ pc = "idom" /\ idom' = idom /\ succ' = succ /\ id' = id /\ rpo' = rpo /\ pos' = pos
      /\ pc \in Loop /\ pc' \in Loop
  BY <1>2 DEF FirstPred, order_vars, Loop
<1>4. p \in Block /\ Bb \in succ[p]
  BY <1>2 DEF Pred
<1>5. Shared(Bb, rest)' \subseteq Anc(new_idom)'
  BY <1>2, <1>3, <1>4, SameUp DEF Shared
<1> QED
  BY <1>2, <1>3, <1>5, SameUp DEF UpInv, MeetInv

\* A further predecessor is skipped, or intersected with the candidate.
LEMMA OtherPredUp ==
  ASSUME IInv, UpInv, NEW p \in Block, OtherPred(p), JInv
  PROVE  UpInv'
<1>1. /\ pc = "preds" /\ p \in rest /\ rest' = rest \ {p}
      /\ idom' = idom /\ succ' = succ /\ id' = id /\ rpo' = rpo /\ pos' = pos
      /\ new_idom' = new_idom
  BY DEF OtherPred, order_vars
<1>2. Bb \in succ[p]
  BY <1>1 DEF JInv, BelowInv, Pred
<1>3. Shared(Bb, rest) \subseteq Anc(new_idom)
  BY <1>1 DEF UpInv, MeetInv
<1>4. CASE idom[p] = Null
  <2>1. pc' = "preds" /\ pc \in Loop /\ pc' \in Loop
    BY <1>1, <1>4 DEF OtherPred, Loop
  <2>2. Shared(Bb, rest)' \subseteq Shared(Bb, rest)
    BY <1>1, <1>4, <2>1, SameUp DEF Shared
  <2> QED
    BY <1>1, <1>3, <2>1, <2>2, SameUp DEF UpInv, MeetInv
<1>5. CASE idom[p] # Null
  <2>1. pc' = "intersect" /\ pc \in Loop /\ pc' \in Loop /\ b1' = p /\ b2' = new_idom
    BY <1>1, <1>5 DEF OtherPred, Loop
  <2>2. Shared(Bb, rest)' \subseteq Shared(Bb, rest) /\ Shared(Bb, rest)' \subseteq Anc(p)
    BY <1>1, <1>2, <1>5, <2>1, SameUp DEF Shared
  <2> QED
    BY <1>1, <1>3, <2>1, <2>2, SameUp DEF UpInv, MeetInv
<1> QED
  BY <1>4, <1>5

\* A step of intersect: what lies above both arguments is not the lower one.
LEMMA ClimbUp == ASSUME IInv, UpInv, Climb1 \/ Climb2, IInv' PROVE UpInv'
<1>1. pc' # "abort"
  BY DEF IInv, NoAbort
<1>2. /\ pc = "intersect" /\ pc' = "intersect" /\ rest' = rest
      /\ idom' = idom /\ succ' = succ /\ id' = id /\ rpo' = rpo /\ pos' = pos
      /\ \/ id[b1] < id[b2] /\ b1' = idom[b1] /\ b2' = b2
         \/ id[b2] < id[b1] /\ b2' = idom[b2] /\ b1' = b1
  BY <1>1 DEF Climb1, Climb2, order_vars
<1>3. pc \in Loop /\ pc' \in Loop /\ pc # "dfs"
  BY <1>2 DEF Loop
<1>4. /\ b1 \in Block /\ idom[b1] # Null /\ b2 \in Block /\ idom[b2] # Null /\ TypeOK
  BY <1>2 DEF IInv, CandInv
<1>5. Shared(Bb, rest)' = Shared(Bb, rest)
  BY <1>2, <1>3, SameUp DEF Shared
<1>6. Shared(Bb, rest) \subseteq Anc(b1) \cap Anc(b2)
  BY <1>2 DEF UpInv, MeetInv
<1>7. ASSUME NEW a \in Anc(b1) \cap Anc(b2)
      PROVE  a \in Anc(b1') /\ a \in Anc(b2')
  <2>1. /\ a \in Block /\ id[a] \in Nat /\ id[b1] \in Nat /\ id[b2] \in Nat
        /\ id[b1] <= id[a] /\ id[b2] <= id[a]
    BY <1>3, <1>4, Ascent
  <2>2. a # b1 => a \in Anc(idom[b1])
    BY <1>4, <2>1, AncFacts
  <2>3. a # b2 => a \in Anc(idom[b2])
    BY <1>4, <2>1, AncFacts
  <2>4. id[b1] < id[b2] => a # b1
    BY <2>1
  <2>5. id[b2] < id[b1] => a # b2
    BY <2>1
  <2> QED
    BY <1>2, <2>2, <2>3, <2>4, <2>5
<1>8. Anc(b1)' = Anc(b1') /\ Anc(b2)' = Anc(b2')
  BY <1>2 DEF Anc
<1>9. Shared(Bb, rest)' \subseteq Anc(b1)' \cap Anc(b2)'
  BY <1>5, <1>6, <1>7, <1>8
<1> QED
  BY <1>2, <1>3, <1>9, SameUp DEF UpInv, MeetInv

\* The arguments have met.
LEMMA MetUp == ASSUME IInv, UpInv, Met PROVE UpInv'
<1>1. /\ pc = "intersect" /\ pc' = "preds" /\ rest' = rest /\ b1 = b2 /\ new_idom' = b1
      /\ idom' = idom /\ succ' = succ /\ id' = id /\ rpo' = rpo /\ pos' = pos
      /\ pc \in Loop /\ pc' \in Loop
  BY DEF Met, order_vars, Loop
<1>2. Shared(Bb, rest)' = Shared(Bb, rest)
  BY <1>1, SameUp DEF Shared
<1>3. Shared(Bb, rest) \subseteq Anc(b1)
  BY <1>1 DEF UpInv, MeetInv
<1>4. Anc(new_idom)' = Anc(b1)
  BY <1>1 DEF Anc
<1> QED
  BY <1>1, <1>2, <1>3, <1>4, SameUp DEF UpInv, MeetInv

\* The candidate is stored.  It lies above all predecessors, so above the block
\* if that had an idom.
LEMMA StoreClimbs ==
  ASSUME IInv, JInv, UpInv, Store
  PROVE  /\ Bb \in Block /\ Bb # Root /\ id[Bb] = Cut
         /\ new_idom \in Block /\ idom[new_idom] # Null /\ id[Bb] < id[new_idom]
         /\ idom[Bb] # Null => new_idom \in Anc(Bb)
         /\ idom[Bb] # Null => id[idom[Bb]] <= id[new_idom]
<1>1. pc = "preds" /\ rest = {} /\ pc \in Loop /\ pc # "dfs" /\ id' = id /\ pc' = "idom"
  BY DEF Store, order_vars, Loop
<1>2. TypeOK /\ OrdInv /\ TreeInv /\ CandInv
  BY DEF IInv
<1>3. /\ pos \in 2..Len(rpo) /\ Len(rpo) \in Nat
      /\ new_idom \in Block /\ idom[new_idom] # Null
  BY <1>1, <1>2 DEF CandInv, TypeOK
<1>4. /\ Bb \in Block /\ id[Bb] = Cut /\ Bb # Root
  BY <1>1, <1>2, <1>3 DEF OrdInv, TypeOK, Bb, Cut
<1>5. id[Bb] < id[new_idom]
  <2>1. TreeInv'
    BY StoreInv DEF IInv
  <2>2. idom'[Bb] = new_idom
    BY <1>2, <1>4, Graph DEF Store, TypeOK
  <2>3. new_idom # Null
    BY <1>2, <1>3, Graph
  <2> QED
    BY <1>1, <1>4, <2>1, <2>2, <2>3 DEF TreeInv
<1>6. ASSUME idom[Bb] # Null
      PROVE  new_idom \in Anc(Bb) /\ id[idom[Bb]] <= id[new_idom]
  <2>1. new_idom \in Shared(Bb, {})
    BY <1>1, <1>3 DEF JInv, AboveInv, Shared
  <2>2. new_idom \in Anc(Bb)
    BY <1>1, <1>4, <1>6, <2>1 DEF UpInv, MeetInv
  <2>3. id[Bb] \in Nat /\ id[new_idom] \in Nat
    BY <1>2, <1>3, <1>4 DEF TypeOK
  <2>4. new_idom \in Anc(idom[Bb])
    BY <1>2, <1>3, <1>4, <1>5, <2>2, <2>3, AncFacts
  <2>5. idom[Bb] \in Block /\ idom[idom[Bb]] # Null
    BY <1>1, <1>2, <1>4, <1>6 DEF TreeInv
  <2> QED
    BY <1>1, <2>2, <2>4, <2>5, Ascent
<1> QED
  BY <1>3, <1>4, <1>5, <1>6

\* No way up gains a block by it.
LEMMA StoreWay ==
  ASSUME IInv, JInv, UpInv, Store, NEW y \in Block, idom[y] # Null
  PROVE  Anc(y)' \subseteq Anc(y)
<1>1. pc # "dfs" /\ idom' = [idom EXCEPT ![Bb] = new_idom]
  BY DEF Store
<1>0. PICK X \in Block, n \in Block : X = Bb /\ n = new_idom
  BY StoreClimbs
<1>2. /\ X # Root /\ idom[n] # Null /\ id[X] < id[n]
      /\ idom[X] # Null => n \in Anc(X)
  BY <1>0, StoreClimbs
<1>3. idom' = [idom EXCEPT ![X] = n]
  BY <1>0, <1>1
<1>4. X \in Anc(y) => idom[X] # Null
  BY <1>1, Ascent
<1> QED
  BY <1>1, <1>2, <1>3, <1>4, MovedWay

\* What lies above all predecessors of a block is above the block afterwards
\* too: a block below the stored one has a predecessor below it.
LEMMA StoreMeet == ASSUME IInv, JInv, UpInv, Store PROVE MeetInv'
<1>1. /\ pc = "preds" /\ rest = {} /\ pc \in Loop /\ pc # "dfs" /\ pc' = "idom"
      /\ idom' = [idom EXCEPT ![Bb] = new_idom] /\ succ' = succ
  BY DEF Store, Loop
<1>2. TypeOK
  BY DEF IInv
<1>0. PICK X \in Block, n \in Block : X = Bb /\ n = new_idom
  BY StoreClimbs
<1>3. /\ X \in Block /\ X # Root /\ n \in Block /\ idom[n] # Null /\ id[X] < id[n]
      /\ id[X] = Cut
  BY <1>0, StoreClimbs
<1>4. idom' = [idom EXCEPT ![X] = n] /\ idom'[X] = n /\ n # Null
      /\ \A b \in Block : b # X => idom'[b] = idom[b]
  BY <1>0, <1>1, <1>2, <1>3, Graph DEF TypeOK
<1>5. Shared(X, {}) \subseteq Anc(n)
  BY <1>0, <1>1 DEF UpInv, MeetInv
<1>6. \A b \in Block \ {Root} : idom[b] # Null => Shared(b, {}) \subseteq Anc(b)
  BY <1>1 DEF UpInv, MeetInv
<1>7. \A b \in Block \ {Root} : idom[b] # Null =>
        \E q \in Block :
          /\ b \in succ[q] /\ idom[q] # Null
          /\ \A x \in Anc(b) \ {b} : id[x] <= Cut \/ id[b] > Cut => x \in Anc(q)
  BY <1>1 DEF UpInv, FollowInv
<1>8. ASSUME NEW y \in Block, idom[y] # Null, X \in Anc(y)
       PROVE  (\A x \in Anc(y) : X \in Anc(x) => x \in Anc(y)') /\ Anc(n) \subseteq Anc(y)'
  <2>1. \A x \in Anc(y) : X \in Anc(x) => x \in Anc(y)'
    BY <1>1, <1>3, <1>4, <1>8, MovedWay
  <2>2. Anc(n) \subseteq Anc(y)'
    BY <1>1, <1>3, <1>4, <1>8, MovedWay
  <2> QED
    BY <2>1, <2>2
<1>9. \A b : Shared(b, {})' \subseteq Shared(b, {})
  <2> SUFFICES ASSUME NEW b, NEW a \in Block, NEW p \in Block, b \in succ[p],
                      idom[p] # Null, idom'[p] # Null => a \in Anc(p)'
               PROVE  a \in Anc(p)
    BY <1>1 DEF Shared
  <2>1. idom'[p] # Null
    BY <1>4
  <2> QED
    BY <2>1, StoreWay
<1>10. ASSUME NEW b \in Block \ {Root}, idom'[b] # Null, NEW a \in Shared(b, {})'
      PROVE  a \in Anc(b)'
  <2>1. a \in Shared(b, {}) /\ a \in Block
    BY <1>9, <1>10 DEF Shared
  <2>2. CASE b = X
    <3>1. a \in Anc(n)
      BY <1>5, <2>1, <2>2
    <3>2. X \notin Anc(n)
      <4>1. \A c \in Anc(n) : id[n] \in Nat /\ id[c] \in Nat /\ (c = n \/ id[n] < id[c])
        BY <1>1, <1>3, Ascent
      <4> QED
        BY <1>3, <4>1
    <3>3. Anc(n)' = Anc(n)
      BY <1>1, <1>3, <1>4, <3>2, MovedWay
    <3>4. \A S \in SUBSET Block : n \in S /\ (\A z \in S : idom'[z] \in S) => a \in S
      BY <3>1, <3>3 DEF Anc
    <3>5. \A S \in SUBSET Block : b \in S /\ (\A z \in S : idom'[z] \in S) => a \in S
      BY <1>4, <2>2, <3>4
    <3> QED
      BY <2>1, <3>5 DEF Anc
  <2>3. CASE b # X
    <3>1. idom[b] # Null /\ a \in Anc(b)
      BY <1>4, <1>6, <1>10, <2>1, <2>3
    <3>2. CASE X \notin Anc(b)
      BY <1>1, <1>3, <1>4, <3>1, <3>2, MovedWay
    <3>3. CASE X \in Anc(b)
      <4>1. PICK q \in Block :
              /\ b \in succ[q] /\ idom[q] # Null
              /\ \A x \in Anc(b) \ {b} : id[x] <= Cut \/ id[b] > Cut => x \in Anc(q)
        BY <1>7, <3>1
      <4>2. X \in Anc(q)
        <5>1. id[X] \in Nat
          BY <1>2, <1>3 DEF TypeOK
        <5> QED
          BY <1>3, <2>3, <3>3, <4>1, <5>1
      <4>3. idom'[q] # Null
        BY <1>4, <4>1
      <4>4. a \in Anc(q)'
        BY <1>1, <1>10, <4>1, <4>3 DEF Shared
      <4>5. X \in Anc(a) \/ a \in Anc(n)
        BY <1>1, <1>3, <1>4, <4>1, <4>2, <4>4, MovedWay
      <4>6. /\ \A x \in Anc(b) : X \in Anc(x) => x \in Anc(b)'
            /\ Anc(n) \subseteq Anc(b)'
        BY <1>8, <3>1, <3>3
      <4> QED
        BY <3>1, <4>5, <4>6
    <3> QED
      BY <3>2, <3>3
  <2> QED
    BY <2>2, <2>3
<1> QED
  BY <1>1, <1>10 DEF MeetInv

\* The stored block follows a predecessor earlier in the list; of the others no
\* way up changes below the stored block.
LEMMA StoreFollow == ASSUME IInv, JInv, UpInv, Store PROVE FollowInv'
<1>1. /\ pc = "preds" /\ rest = {} /\ pc \in Loop /\ pc # "dfs" /\ pc' = "idom"
      /\ idom' = [idom EXCEPT ![Bb] = new_idom] /\ succ' = succ /\ id' = id /\ rpo' = rpo
      /\ pos' = pos + 1
  BY DEF Store, Loop, order_vars
<1>2. TypeOK /\ OrdInv /\ TreeInv /\ PassInv /\ CandInv
  BY DEF IInv
<1>0. PICK X \in Block, n \in Block : X = Bb /\ n = new_idom
  BY StoreClimbs
<1>3. /\ X \in Block /\ X # Root /\ n \in Block /\ idom[n] # Null /\ id[X] < id[n]
      /\ id[X] = Cut
  BY <1>0, StoreClimbs
<1>4. idom' = [idom EXCEPT ![X] = n] /\ idom'[X] = n /\ n # Null
      /\ \A b \in Block : b # X => idom'[b] = idom[b]
  BY <1>0, <1>1, <1>2, <1>3, Graph DEF TypeOK
<1>5. /\ pos \in 2..Len(rpo) /\ Len(rpo) \in Nat /\ Cut = Len(rpo) - pos /\ Cut' = Cut - 1
      /\ X = rpo[pos] /\ \A b \in Block : id[b] \in Nat
  BY <1>0, <1>1, <1>2 DEF CandInv, TypeOK, Cut, Bb
<1>6. \A b \in Block \ {Root} : idom[b] # Null =>
        \E q \in Block :
          /\ b \in succ[q] /\ idom[q] # Null /\ id[b] < id[q]
          /\ \A x \in Anc(b) \ {b} : id[x] <= Cut \/ id[b] > Cut => x \in Anc(q)
  BY <1>1 DEF UpInv, FollowInv
<1>7. \A q \in Block : X \in succ[q] /\ idom[q] # Null => n \in Anc(q)
  BY <1>0, <1>1 DEF JInv, AboveInv
<1>8. PICK j \in 1..(pos - 1) : X \in succ[rpo[j]]
  BY <1>1, <1>2, <1>5 DEF OrdInv
<1>9. X \notin Anc(n)
  <2>1. \A c \in Anc(n) : id[n] \in Nat /\ id[c] \in Nat /\ (c = n \/ id[n] < id[c])
    BY <1>1, <1>3, Ascent
  <2> QED
    BY <1>3, <2>1
<1> SUFFICES ASSUME NEW b \in Block \ {Root}, idom'[b] # Null
             PROVE  \E q \in Block :
                      /\ b \in succ[q] /\ idom'[q] # Null /\ id[b] < id[q]
                      /\ \A x \in Anc(b)' \ {b} :
                           id[x] <= Cut' \/ id[b] > Cut' => x \in Anc(q)'
  BY <1>1 DEF FollowInv
<1>10. CASE b = X
  <2>0. PICK q \in Block : j \in 1..Len(rpo) /\ j < pos /\ q = rpo[j]
    BY <1>2, <1>5, <1>8 DEF TypeOK
  <2>1. /\ j \in 1..Len(rpo) /\ j < pos /\ q \in Block /\ X \in succ[q]
        /\ idom[q] # Null /\ id[q] = Len(rpo) - j
    BY <1>1, <1>2, <1>8, <2>0 DEF OrdInv, PassInv
  <2>2. idom'[q] # Null /\ id[X] < id[q]
    BY <1>3, <1>4, <1>5, <2>1
  <2>3. X \notin Anc(q)
    <3>1. \A c \in Anc(q) : id[q] \in Nat /\ id[c] \in Nat /\ (c = q \/ id[q] < id[c])
      BY <1>1, <2>1, Ascent
    <3> QED
      BY <2>2, <3>1
  <2>4. Anc(q)' = Anc(q) /\ n \in Anc(q) /\ Anc(n)' = Anc(n)
    <3>1. Anc(q)' = Anc(q)
      BY <1>1, <1>3, <1>4, <2>1, <2>3, MovedWay
    <3>2. Anc(n)' = Anc(n)
      BY <1>1, <1>3, <1>4, <1>9, MovedWay
    <3> QED
      BY <1>7, <2>1, <3>1, <3>2
  <2>5. ASSUME NEW x \in Anc(b)', x # b PROVE x \in Anc(q)'
    <3>1. /\ x \in Block
          /\ \A S \in SUBSET Block : b \in S /\ (\A z \in S : idom'[z] \in S) => x \in S
      BY <2>5 DEF Anc
    <3>2. x \in Anc(n)
      <4>1. n \in Anc(n) /\ Anc(n) \subseteq Block /\ \A z \in Anc(n) : idom[z] \in Anc(n)
        BY <1>1, <1>2, <1>3, Ascent, AncFacts
      <4> DEFINE S == Anc(n) \cup {b}
      <4>2. S \in SUBSET Block /\ b \in S /\ \A z \in S : idom'[z] \in S
        BY <1>4, <1>9, <1>10, <4>1
      <4>3. x \in S
        <5> HIDE DEF S
        <5> QED
          BY <3>1, <4>2
      <4> QED
        BY <2>5, <4>3
    <3> QED
      BY <1>2, <1>3, <2>1, <2>4, <3>1, <3>2, AncFacts
  <2>6. \A x \in Anc(b)' \ {b} : id[x] <= Cut' \/ id[b] > Cut' => x \in Anc(q)'
    BY <2>5
  <2> QED
    BY <1>10, <2>1, <2>2, <2>6
<1>11. CASE b # X
  <2>1. idom[b] # Null
    BY <1>4, <1>11
  <2>2. PICK q \in Block :
          /\ b \in succ[q] /\ idom[q] # Null /\ id[b] < id[q]
          /\ \A x \in Anc(b) \ {b} : id[x] <= Cut \/ id[b] > Cut => x \in Anc(q)
    BY <1>6, <2>1
  <2>3. idom'[q] # Null
    BY <1>4, <2>2
  <2>4. id[b] # Cut
    <3>1. PICK i \in 1..Len(rpo) : rpo[i] = b
      BY <1>1, <1>2, <2>1 DEF TreeInv
    <3>2. id[b] = Len(rpo) - i
      BY <1>1, <1>2, <3>1 DEF OrdInv
    <3> QED
      BY <1>5, <1>11, <3>1, <3>2
  <2>5. ASSUME NEW x \in Anc(b)', x # b, id[x] <= Cut' \/ id[b] > Cut'
        PROVE  x \in Anc(q)'
    <3>1. x \in Anc(b) /\ x \in Block /\ id[x] \in Nat /\ id[b] \in Nat
      BY <1>5, <2>1, StoreWay DEF Anc
    <3>2. x \in Anc(q)
      BY <1>5, <2>2, <2>4, <2>5, <3>1
    <3>3. CASE X \notin Anc(q)
      BY <1>1, <1>3, <1>4, <2>2, <3>2, <3>3, MovedWay
    <3>4. CASE X \in Anc(q)
      <4>1. id[q] <= id[X] /\ id[q] \in Nat /\ id[X] \in Nat
        BY <1>1, <2>2, <3>4, Ascent
      <4>2. id[b] < Cut
        BY <1>3, <2>2, <3>1, <4>1
      <4>3. id[x] <= id[X]
        BY <1>3, <1>5, <2>5, <3>1, <4>1, <4>2
      <4>4. X \in Anc(x)
        BY <1>1, <2>2, <3>2, <3>4, <4>3, Ascent
      <4> QED
        BY <1>1, <1>3, <1>4, <2>2, <3>2, <3>4, <4>4, MovedWay
    <3> QED
      BY <3>3, <3>4
  <2> QED
    BY <2>2, <2>3, <2>5
<1> QED
  BY <1>10, <1>11

\* Every step keeps it.
LEMMA StepUp == ASSUME IInv, JInv, UpInv, [Next]_vars, IInv' PROVE UpInv'
<1>1. CASE Next /\ ~After
  BY <1>1, DfsUp, FinishRootUp, PassUp, FirstPredUp, OtherPredUp, StoreMeet, StoreFollow,
     ClimbUp, MetUp DEF Next, After, UpInv
<1>2. CASE After
  <2>1. pc' \in Late
    BY <1>2 DEF After, FrontierBlock, FrontierPred, FrontierClimb, FrontierNextBlock,
                FrontierDone, TreeBlock, TreeDone, Late
  <2> QED
    BY <2>1 DEF UpInv, MeetInv, FollowInv, Loop, Late
<1>3. CASE UNCHANGED vars
  <2>1. /\ succ' = succ /\ pc' = pc /\ id' = id /\ rpo' = rpo /\ idom' = idom
        /\ rest' = rest /\ pos' = pos /\ new_idom' = new_idom /\ b1' = b1 /\ b2' = b2
    BY <1>3 DEF vars, order_vars, loop_vars
  <2>2. CASE pc \in Loop
    <3>1. Shared(Bb, rest)' = Shared(Bb, rest)
      BY <2>1, <2>2, SameUp DEF Shared
    <3> QED
      BY <2>1, <2>2, <3>1, SameUp DEF UpInv, MeetInv, Loop
  <2>3. CASE pc \notin Loop
    BY <2>1, <2>3 DEF UpInv, MeetInv, FollowInv, Loop
  <2> QED
    BY <2>2, <2>3
<1> QED
  BY <1>1, <1>2, <1>3

\* create_idom never lowers an idom it has found, on any graph and in any order
\* of the predecessor lists, so its passes cannot go back and forth.
THEOREM IdomsOnlyClimb == Spec => IdomOnlyClimbs
<1> DEFINE Up == \A b \in Block : idom[b] # Null => id[idom[b]] <= id[idom'[b]]
<1>1. ASSUME IInv, JInv, UpInv, [Next]_vars PROVE [Up]_idom
  <2> SUFFICES ASSUME idom' # idom, NEW b \in Block, idom[b] # Null
               PROVE  id[idom[b]] <= id[idom'[b]]
    OBVIOUS
  <2>1. Store \/ FinishRoot
    BY <1>1 DEF Next, vars, Visit, FinishInner, SkipRoot, FirstPred, OtherPred, NextPass,
                Climb1, Climb2, Met, FrontierBlock, FrontierPred, FrontierClimb,
                FrontierNextBlock, FrontierDone, TreeBlock, TreeDone
  <2>2. CASE FinishRoot
    BY <1>1, <2>2 DEF UpInv, MeetInv, FinishRoot, Numbered
  <2>3. CASE Store
    <3>1. pc # "dfs" /\ idom' = [idom EXCEPT ![Bb] = new_idom]
      BY <2>3 DEF Store
    <3>2. TypeOK /\ TreeInv
      BY <1>1 DEF IInv
    <3>3. id[idom[b]] \in Nat
      BY <3>1, <3>2 DEF TreeInv, TypeOK
    <3>4. CASE b = Bb
      BY <1>1, <2>3, <3>1, <3>2, <3>4, StoreClimbs, Graph DEF TypeOK
    <3>5. CASE b # Bb
      BY <3>1, <3>2, <3>3, <3>5, Graph DEF TypeOK
    <3> QED
      BY <3>4, <3>5
  <2> QED
    BY <2>1, <2>2, <2>3
<1>2. IInv /\ JInv /\ UpInv /\ [Next]_vars /\ IInv' => UpInv'
  BY StepUp
<1>3. Init => UpInv
  BY InitUp
<1>4. IInv /\ JInv /\ UpInv /\ [Next]_vars => [Up]_idom
  BY <1>1
<1> QED
  BY Correspondence, <1>2, <1>3, <1>4, PTL DEF Spec, IdomOnlyClimbs
=============================================================================
