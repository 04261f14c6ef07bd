------------------------- MODULE Mem2RegRunProofs -------------------------
(***************************************************************************)
(* Proof that the promotion changes no result, for every function and      *)
(* every path through it: LoadsAgree of Mem2RegRun.                        *)
(*                                                                         *)
(* The current value of a variable at a position is defined on the         *)
(* finished phis and the code alone (Current).  re_name gives each load    *)
(* the current value (CInv), and along any path the current value holds    *)
(* what memory holds (RInv).                                               *)
(***************************************************************************)
EXTENDS Mem2RegRun, Mem2RegProofs

-----------------------------------------------------------------------------
(***************************************************************************)
(* The current value of a variable.  A function f with its phis is its     *)
(* graph, its code and the variables with a phi in each block; u holds the *)
(* operands of the users of its loads.                                     *)
(***************************************************************************)
Fn == [succ |-> g, code |-> code, phi |-> phi]

StoreAt(f, b, i, v) == /\ i \in DOMAIN f.code[b]
                       /\ f.code[b][i].op = "store" /\ f.code[b][i].lval = v

EndOf(f, b) == Len(f.code[b]) + 1

\* Block d gives v a value before position q.
Gives(f, d, v, q) ==
  v \in f.phi[d] \/ \E i \in DOMAIN f.code[d] : StoreAt(f, d, i, v) /\ i < q

\* What counts of block d on the way to position q of block b.
Till(f, d, b, q) == IF d = b THEN q ELSE EndOf(f, d)

\* Block d is on every path to position q of block b and gives v a value.
Giver(f, d, b, v, q) == DomIn(f.succ, d, b) /\ Gives(f, d, v, Till(f, d, b, q))

OperandIn(u, r) == IF r[1] = "load" THEN u[r] ELSE r

\* w is the last value block d gives v before position q.
LastGiven(f, u, w, d, v, q) ==
  \/ \E i \in DOMAIN f.code[d] :
       /\ StoreAt(f, d, i, v) /\ i < q
       /\ \A j \in DOMAIN f.code[d] : StoreAt(f, d, j, v) /\ j < q => j <= i
       /\ w = OperandIn(u, f.code[d][i].rval)
  \/ /\ v \in f.phi[d] /\ w = <<"phi", d, v>>
     /\ \A j \in DOMAIN f.code[d] : ~(StoreAt(f, d, j, v) /\ j < q)

\* d is the closest block on the way to position q of block b that gives v a
\* value.
Closest(f, d, b, v, q) ==
  /\ Giver(f, d, b, v, q)
  /\ \A e \in DOMAIN f.succ : Giver(f, e, b, v, q) => DomIn(f.succ, e, d)

\* w is the value of v at position q of block b in SSA form.
Current(f, u, w, b, v, q) ==
  \E d \in DOMAIN f.succ :
    Closest(f, d, b, v, q) /\ LastGiven(f, u, w, d, v, Till(f, d, b, q))

-----------------------------------------------------------------------------
(***************************************************************************)
(* What re_name has done so far.                                           *)
(***************************************************************************)

\* re_name has been through block b.
Through(b) ==
  /\ pc \notin {"vars", "work"}
  /\ b \in ReachableIn(g)
  /\ \A c \in Ahead : ~DomIn(g, c, b)
  /\ pc = "instr" => b # Top.bb

\* re_name has been at position i of block b.
Passed(b, i) == Through(b) \/ (pc = "instr" /\ b = Top.bb /\ i < pos)

\* The values operands can have.
Name == {w \in Value : w[1] = "const"} \cup Loads
          \cup {<<"phi", b, v>> : b \in Block, v \in Promoted}

\* A load that was passed has the current value of its variable for its users
\* and is gone, or stays because its variable has none.  The others are used
\* as they are.
UseCurrent ==
  /\ use \in [Loads -> Name]
  /\ \A l \in Loads :
       LET v == code[l[2]][l[3]].lval IN
         IF <<l[2], l[3]>> \in wait \cup erased
         THEN Passed(l[2], l[3]) /\ Current(Fn, use, use[l], l[2], v, l[3])
         ELSE /\ use[l] = l
              /\ Passed(l[2], l[3]) /\ v \in Promoted =>
                   \A d \in Block : ~Giver(Fn, d, l[2], v, l[3])

\* What is to be erased is a load or store of a promoted variable in a block
\* that is being visited.
GoneInv ==
  /\ \A w \in wait \cup erased : code[w[1]][w[2]].lval \in Promoted
  /\ \A w \in wait : \E k \in 1..Len(frames) : frames[k].bb = w[1]
  /\ pc = "instr" => Top.kids = kids[Top.bb]

\* The stacks hold the current values, those an activation was called with
\* the ones at the end of its caller's block.
StacksCurrent ==
  /\ \A v \in Promoted : Len(stk[v]) > 0 =>
       /\ pc = "instr" => Current(Fn, use, stk[v][Len(stk[v])], Top.bb, v, pos)
       /\ pc = "kids" =>
            Current(Fn, use, stk[v][Len(stk[v])], Top.bb, v, EndOf(Fn, Top.bb))
  /\ \A k \in 1..Len(frames) : \A v \in Promoted :
       LET s == frames[k].saved[v]
           b == frames[k - 1].bb
       IN  Len(s) > 0 => k > 1 /\ Current(Fn, use, s[Len(s)], b, v, EndOf(Fn, b))

\* A phi has the current value at the end of each predecessor that has one
\* and that re_name has been through.
ArgsCurrent ==
  \A b \in Block : \A v \in Promoted :
    /\ \A k \in DOMAIN args[b][v] :
         LET a == args[b][v][k] IN
           Current(Fn, use, a.val, a.bb, v, EndOf(Fn, a.bb))
    /\ \A p \in Block :
         b \in g[p] /\ v \in phi[b] /\ Through(p)
           /\ (\E d \in Block : Giver(Fn, d, p, v, EndOf(Fn, p)))
         => \E k \in DOMAIN args[b][v] : args[b][v][k].bb = p

Renaming == UseCurrent /\ GoneInv /\ StacksCurrent /\ ArgsCurrent

\* Unless the pass has failed.
CInv == pc \notin {"abort", "crash"} => Renaming

-----------------------------------------------------------------------------
(***************************************************************************)
(* The two executions.                                                     *)
(***************************************************************************)
Phis == {<<"phi", b, v>> : b \in Block, v \in Promoted}

RunType ==
  /\ mem \in [Var -> Int] /\ mem2 \in [Var -> Int]
  /\ val \in [Loads -> Int] /\ val2 \in [Loads \cup Phis -> Int]

\* Before the call nothing is set.
IdleInv ==
  at = 0 => mem = Start /\ mem2 = Start /\ val = [l \in Loads |-> Undef]

\* Where control is.
PlaceInv == at # 0 => pc = "done" /\ at \in ReachableIn(g) /\ ep \in 1..EndOf(Fn, at)

\* A variable that is set has a current value, which holds what memory holds;
\* memory that is not promoted is the same.
MemAgrees ==
  at # 0 =>
    /\ \A v \in Promoted : mem[v] # Undef =>
         /\ \E d \in Block : Giver(Fn, d, at, v, ep)
         /\ \A w \in Name : Current(Fn, use, w, at, v, ep) => Eval2(w) = mem[v]
    /\ \A a \in Var \ Promoted : mem[a] # Undef => mem2[a] = mem[a]

RInv == RunType /\ IdleInv /\ PlaceInv /\ MemAgrees /\ LoadsAgree

-----------------------------------------------------------------------------
(***************************************************************************)
(* Lemmas about the current value.                                         *)
(***************************************************************************)

IsFn(f) ==
  /\ IsFlowGraph(f.succ)
  /\ \A b \in DOMAIN f.succ : /\ Len(f.code[b]) \in Nat
                              /\ DOMAIN f.code[b] = 1..Len(f.code[b])

\* Between two positions without a store to v its current value is the same.
LEMMA SameBetween ==
  ASSUME NEW f, NEW b, NEW v, NEW q, NEW r,
         \A i \in DOMAIN f.code[b] : StoreAt(f, b, i, v) => (i < q <=> i < r)
  PROVE  /\ \A d : Giver(f, d, b, v, q) <=> Giver(f, d, b, v, r)
         /\ \A u, w : Current(f, u, w, b, v, q) => Current(f, u, w, b, v, r)
<1>1. \A d : Gives(f, d, v, Till(f, d, b, q)) <=> Gives(f, d, v, Till(f, d, b, r))
  <2> TAKE d
  <2>1. CASE d = b
    BY <2>1 DEF Gives, Till
  <2>2. CASE d # b
    BY <2>2 DEF Till
  <2> QED
    BY <2>1, <2>2
<1>2. \A d : Giver(f, d, b, v, q) <=> Giver(f, d, b, v, r)
  BY <1>1 DEF Giver
<1>3. \A d : Closest(f, d, b, v, q) <=> Closest(f, d, b, v, r)
  BY <1>2 DEF Closest
<1>4. \A d, u, w : LastGiven(f, u, w, d, v, Till(f, d, b, q))
                     => LastGiven(f, u, w, d, v, Till(f, d, b, r))
  <2> TAKE d, u, w
  <2>1. CASE d = b
    BY <2>1 DEF LastGiven, Till
  <2>2. CASE d # b
    BY <2>2 DEF Till
  <2> QED
    BY <2>1, <2>2
<1> QED
  BY <1>2, <1>3, <1>4 DEF Current

\* A block with a phi for v starts with it as the current value.
LEMMA PhiCurrent ==
  ASSUME NEW f, IsFn(f), NEW b \in ReachableIn(f.succ), NEW v, v \in f.phi[b]
  PROVE  /\ Giver(f, b, b, v, 1)
         /\ \A u, w : Current(f, u, w, b, v, 1) <=> w = <<"phi", b, v>>
<1>1. /\ IsFlowGraph(f.succ) /\ b \in DOMAIN f.succ /\ DomIn(f.succ, b, b)
  BY ReachFacts, DomBasic DEF IsFn
<1>2. \A j \in DOMAIN f.code[b] : ~(StoreAt(f, b, j, v) /\ j < 1)
  BY <1>1 DEF IsFn
<1>3. Till(f, b, b, 1) = 1
  BY DEF Till
<1>4. Giver(f, b, b, v, 1)
  BY <1>1, <1>3 DEF Giver, Gives
<1>5. \A d : Closest(f, d, b, v, 1) => d = b
  BY <1>1, <1>4, DomAntisymmetric DEF Closest, Giver
<1>6. Closest(f, b, b, v, 1)
  BY <1>4 DEF Closest, Giver
<1>7. \A u, w : LastGiven(f, u, w, b, v, 1) <=> w = <<"phi", b, v>>
  BY <1>2 DEF LastGiven
<1> QED
  BY <1>1, <1>3, <1>4, <1>5, <1>6, <1>7 DEF Current

\* After a store to v its operand is the current value.
LEMMA StoreCurrent ==
  ASSUME NEW f, IsFn(f), NEW b \in ReachableIn(f.succ), NEW v, NEW i,
         StoreAt(f, b, i, v)
  PROVE  /\ Giver(f, b, b, v, i + 1)
         /\ \A u, w : Current(f, u, w, b, v, i + 1)
                        <=> w = OperandIn(u, f.code[b][i].rval)
<1>1. /\ IsFlowGraph(f.succ) /\ b \in DOMAIN f.succ /\ DomIn(f.succ, b, b)
  BY ReachFacts, DomBasic DEF IsFn
<1>2. i \in DOMAIN f.code[b] /\ i \in Nat /\ DOMAIN f.code[b] \subseteq Nat
  BY <1>1 DEF StoreAt, IsFn
<1>3. Till(f, b, b, i + 1) = i + 1
  BY DEF Till
<1>4. Giver(f, b, b, v, i + 1)
  BY <1>1, <1>2, <1>3 DEF Giver, Gives
<1>5. \A d : Closest(f, d, b, v, i + 1) => d = b
  BY <1>1, <1>4, DomAntisymmetric DEF Closest, Giver
<1>6. Closest(f, b, b, v, i + 1)
  BY <1>4 DEF Closest, Giver
<1>7. \A j \in DOMAIN f.code[b] : (j < i + 1 <=> j <= i) /\ (j <= i /\ i <= j => i = j)
  BY <1>2
<1>8. ASSUME NEW u, NEW w
      PROVE  LastGiven(f, u, w, b, v, i + 1) <=> w = OperandIn(u, f.code[b][i].rval)
  <2>1. ASSUME LastGiven(f, u, w, b, v, i + 1)
        PROVE  w = OperandIn(u, f.code[b][i].rval)
    BY <1>2, <1>7, <2>1 DEF LastGiven
  <2>2. ASSUME w = OperandIn(u, f.code[b][i].rval)
        PROVE  LastGiven(f, u, w, b, v, i + 1)
    BY <1>2, <1>7, <2>2 DEF LastGiven
  <2> QED
    BY <2>1, <2>2
<1> QED
  BY <1>1, <1>3, <1>4, <1>5, <1>6, <1>8 DEF Current

\* Without a phi the current value at the start of a child in the dominator
\* tree is the one at the end of its parent.
LEMMA ChildCurrent ==
  ASSUME NEW f, IsFn(f), NEW p, NEW b \in ChildrenIn(f.succ, p), NEW v,
         v \notin f.phi[b], NEW u, NEW w, Current(f, u, w, p, v, EndOf(f, p))
  PROVE  Current(f, u, w, b, v, 1)
<1>1. /\ IsFlowGraph(f.succ) /\ b \in DOMAIN f.succ /\ SDomIn(f.succ, p, b)
      /\ \A c \in DOMAIN f.succ : SDomIn(f.succ, c, b) => DomIn(f.succ, c, p)
  BY DEF IsFn, ChildrenIn, IsIdomIn
<1>2. p # b /\ DomIn(f.succ, p, b)
  BY <1>1 DEF SDomIn
<1>3. \A d : Till(f, d, p, EndOf(f, p)) = EndOf(f, d)
  BY DEF Till
<1>4. \A d : d # b => Till(f, d, b, 1) = EndOf(f, d)
  BY DEF Till
<1>5. ~Gives(f, b, v, Till(f, b, b, 1))
  <2>1. \A j \in DOMAIN f.code[b] : ~(j < 1)
    BY <1>1 DEF IsFn
  <2> QED
    BY <2>1 DEF Gives, Till
<1>6. \A d : DomIn(f.succ, d, p) => d # b /\ DomIn(f.succ, d, b)
  BY <1>1, <1>2, DomTransitive, DomAntisymmetric
<1>7. \A d \in DOMAIN f.succ : Giver(f, d, b, v, 1) <=> Giver(f, d, p, v, EndOf(f, p))
  <2> TAKE d \in DOMAIN f.succ
  <2>1. ASSUME Giver(f, d, b, v, 1) PROVE Giver(f, d, p, v, EndOf(f, p))
    <3>1. d # b /\ DomIn(f.succ, d, b)
      BY <1>5, <2>1 DEF Giver
    <3>2. DomIn(f.succ, d, p)
      BY <1>1, <3>1 DEF SDomIn
    <3> QED
      BY <1>3, <1>4, <2>1, <3>1, <3>2 DEF Giver
  <2>2. ASSUME Giver(f, d, p, v, EndOf(f, p)) PROVE Giver(f, d, b, v, 1)
    BY <1>3, <1>4, <1>6, <2>2 DEF Giver
  <2> QED
    BY <2>1, <2>2
<1>8. PICK d \in DOMAIN f.succ : /\ Closest(f, d, p, v, EndOf(f, p))
                                 /\ LastGiven(f, u, w, d, v, Till(f, d, p, EndOf(f, p)))
  BY DEF Current
<1>9. Closest(f, d, b, v, 1)
  BY <1>7, <1>8 DEF Closest
<1>10. Till(f, d, p, EndOf(f, p)) = Till(f, d, b, 1)
  BY <1>3, <1>4, <1>6, <1>8 DEF Closest, Giver
<1> QED
  BY <1>8, <1>9, <1>10 DEF Current

\* The phis of v are in the frontiers of the blocks that give it a value.
PhisPlaced(f, v) ==
  \A d \in DOMAIN f.succ : Gives(f, d, v, EndOf(f, d)) =>
    \A y \in FrontierIn(f.succ, d) : v \in f.phi[y]

\* Without a phi the current value at the start of a block is the one at the
\* end of every predecessor; and where a predecessor has one, so has the block.
LEMMA BranchCurrent ==
  ASSUME NEW f, IsFn(f), NEW p \in ReachableIn(f.succ), NEW b \in f.succ[p], NEW v,
         PhisPlaced(f, v)
  PROVE  /\ (\E d \in DOMAIN f.succ : Giver(f, d, p, v, EndOf(f, p))) =>
              \E d \in DOMAIN f.succ : Giver(f, d, b, v, 1)
         /\ \A u, w : v \notin f.phi[b] /\ Current(f, u, w, b, v, 1) =>
              Current(f, u, w, p, v, EndOf(f, p))
<1>1. /\ IsFlowGraph(f.succ) /\ p \in DOMAIN f.succ /\ b \in ReachableIn(f.succ)
      /\ b \in DOMAIN f.succ /\ p \in PredIn(f.succ, b)
  BY ReachFacts DEF IsFn, PredIn
<1>2. \A d : Till(f, d, p, EndOf(f, p)) = EndOf(f, d)
  BY DEF Till
<1>3. \A d : d # b => Till(f, d, b, 1) = EndOf(f, d)
  BY DEF Till
<1>4. \A d \in DOMAIN f.succ : Giver(f, d, p, v, EndOf(f, p)) =>
        v \in f.phi[b] \/ (SDomIn(f.succ, d, b) /\ Giver(f, d, b, v, 1))
  <2> SUFFICES ASSUME NEW d \in DOMAIN f.succ, Giver(f, d, p, v, EndOf(f, p)),
                      v \notin f.phi[b]
               PROVE  SDomIn(f.succ, d, b) /\ Giver(f, d, b, v, 1)
    OBVIOUS
  <2>1. DomIn(f.succ, d, p) /\ Gives(f, d, v, EndOf(f, d))
    BY <1>2 DEF Giver
  <2>2. SDomIn(f.succ, d, b)
    BY <1>1, <2>1 DEF PhisPlaced, FrontierIn
  <2> QED
    BY <1>3, <2>1, <2>2 DEF Giver, SDomIn
<1>5. (\E d \in DOMAIN f.succ : Giver(f, d, p, v, EndOf(f, p))) =>
        \E d \in DOMAIN f.succ : Giver(f, d, b, v, 1)
  <2>1. CASE v \in f.phi[b]
    BY <1>1, <2>1, PhiCurrent
  <2>2. CASE v \notin f.phi[b]
    BY <1>4, <2>2
  <2> QED
    BY <2>1, <2>2
<1>6. ASSUME NEW u, NEW w, v \notin f.phi[b], Current(f, u, w, b, v, 1)
      PROVE  Current(f, u, w, p, v, EndOf(f, p))
  <2>1. PICK d \in DOMAIN f.succ : /\ Closest(f, d, b, v, 1)
                                   /\ LastGiven(f, u, w, d, v, Till(f, d, b, 1))
    BY <1>6 DEF Current
  <2>2. ~Gives(f, b, v, Till(f, b, b, 1))
    <3>1. \A j \in DOMAIN f.code[b] : ~(j < 1)
      BY <1>1 DEF IsFn
    <3> QED
      BY <1>6, <3>1 DEF Gives, Till
  <2>3. SDomIn(f.succ, d, b) /\ Gives(f, d, v, EndOf(f, d))
    BY <1>3, <2>1, <2>2 DEF Closest, Giver, SDomIn
  <2>4. DomIn(f.succ, d, p)
    BY <1>1, <2>3, DomOfPred
  <2>5. Giver(f, d, p, v, EndOf(f, p))
    BY <1>2, <2>3, <2>4 DEF Giver
  <2>6. Closest(f, d, p, v, EndOf(f, p))
    BY <1>4, <1>6, <2>1, <2>5 DEF Closest
  <2>7. Till(f, d, b, 1) = Till(f, d, p, EndOf(f, p))
    BY <1>2, <1>3, <2>3 DEF SDomIn
  <2> QED
    BY <2>1, <2>6, <2>7 DEF Current
<1> QED
  BY <1>5, <1>6

\* The function of the pass.
LEMMA FnFacts ==
  ASSUME InputInv
  PROVE  /\ IsFn(Fn) /\ Fn.succ = g /\ DOMAIN Fn.succ = Block /\ Fn.code = code
         /\ Fn.phi = phi
         /\ \A b \in Block : /\ EndOf(Fn, b) = Len(code[b]) + 1 /\ EndOf(Fn, b) \in Nat
                             /\ DOMAIN code[b] = 1..Len(code[b]) /\ Len(code[b]) \in Nat
         /\ \A b, i, v : StoreAt(Fn, b, i, v) <=> IsStore(b, i) /\ code[b][i].lval = v
<1>1. Fn.succ = g /\ Fn.code = code /\ Fn.phi = phi
  BY DEF Fn
<1>2. /\ IsFlowGraph(g) /\ DOMAIN g = Block
      /\ \A b \in Block : /\ DOMAIN code[b] = 1..Len(code[b]) /\ Len(code[b]) \in Nat
  BY InputFacts
<1>3. IsFn(Fn)
  BY <1>1, <1>2 DEF IsFn
<1>4. \A b \in Block : EndOf(Fn, b) = Len(code[b]) + 1 /\ EndOf(Fn, b) \in Nat
  BY <1>1, <1>2 DEF EndOf
<1>5. \A b, i, v : StoreAt(Fn, b, i, v) <=> IsStore(b, i) /\ code[b][i].lval = v
  BY <1>1 DEF StoreAt, IsStore
<1> QED
  BY <1>1, <1>2, <1>3, <1>4, <1>5

\* A name is a value.
LEMMA NameFacts ==
  ASSUME InputInv
  PROVE  /\ Name \subseteq Value
         /\ \A w \in Name : /\ w[3] \in Nat
                            /\ w[1] # "const" => w \in Loads \cup Phis
<1>1. Loads \subseteq Value /\ Block \subseteq Nat /\ Promoted \subseteq Nat
  BY InputFacts
<1>2. \A b \in Block, v \in Promoted : <<"phi", b, v>> \in Value
  BY <1>1 DEF Value
<1>3. Name \subseteq Value
  BY <1>1, <1>2 DEF Name
<1>4. \A w \in Value : w[3] \in Nat
  BY DEF Value
<1> QED
  BY <1>3, <1>4 DEF Name, Phis

\* The operand of a store is defined on the way to it.
LEMMA StoredOperand ==
  ASSUME InputInv, UseInv, use \in [Loads -> Name],
         NEW d \in ReachableIn(g), NEW i, IsStore(d, i),
         NEW w, w = OperandIn(use, code[d][i].rval)
  PROVE  w \in Name /\ Reaches(g, w, d) /\ ComesBefore(w, d, i)
<1> DEFINE r == code[d][i].rval
<1>1. /\ IsFlowGraph(g) /\ d \in Block /\ DomIn(g, d, d) /\ i \in Nat
  BY InputFacts, DomBasic DEF IsStore
<1>2. /\ r \in Value
      /\ r[1] # "load" => r[1] = "const"
      /\ r[1] = "load" =>
           /\ r \in Loads
           /\ \/ r[2] = d /\ r[3] < i
              \/ SDomIn(g, r[2], d)
  BY <1>1, StoredFacts
<1> HIDE DEF r
<1>3. CASE r[1] # "load"
  <2>1. w = r /\ r[1] = "const"
    BY <1>2, <1>3 DEF OperandIn, r
  <2> QED
    BY <1>2, <2>1 DEF Name, Reaches, ComesBefore
<1>4. CASE r[1] = "load"
  <2>1. w = use[r] /\ r \in Loads
    BY <1>2, <1>4 DEF OperandIn, r
  <2>2. /\ w = r \/ Reaches(g, w, r[2])
        /\ ComesBefore(w, r[2], r[3] + 1) /\ w \in Name
    BY <2>1 DEF UseInv
  <2>3. w[3] \in Nat /\ r[3] \in Nat
    BY <2>1, <2>2, NameFacts DEF Name
  <2>4. (r[2] = d /\ r[3] < i) \/ SDomIn(g, r[2], d)
    BY <1>2, <1>4
  <2>5. DomIn(g, r[2], d)
    BY <1>1, <2>4 DEF SDomIn
  <2>6. Reaches(g, w, d)
    <3>1. CASE w = r
      BY <2>5, <3>1 DEF Reaches
    <3>2. CASE Reaches(g, w, r[2])
      BY <1>1, <2>5, <3>2, ReachesOn
    <3> QED
      BY <2>2, <3>1, <3>2
  <2>7. ASSUME w[1] = "load", w[2] = d PROVE w[3] < i
    <3>1. DomIn(g, d, r[2])
      <4>1. CASE w = r
        BY <1>1, <2>7, <4>1
      <4>2. CASE Reaches(g, w, r[2])
        BY <2>7, <4>2 DEF Reaches
      <4> QED
        BY <2>2, <4>1, <4>2
    <3>2. r[2] = d
      BY <1>1, <2>5, <3>1, DomAntisymmetric
    <3>3. r[3] < i
      BY <2>4, <3>2 DEF SDomIn
    <3>4. w[3] < r[3] + 1
      BY <2>2, <2>7, <3>2 DEF ComesBefore
    <3> QED
      BY <1>1, <2>3, <3>3, <3>4
  <2> QED
    BY <2>2, <2>6, <2>7 DEF ComesBefore
<1> QED
  BY <1>3, <1>4

\* The current value is defined on the way to where it is current; it is no
\* value of a block that has given the variable none.
LEMMA CurrentFacts ==
  ASSUME InputInv, UseInv, use \in [Loads -> Name], phi \in [Block -> SUBSET Promoted],
         NEW b, NEW v \in Promoted, NEW q \in Nat, NEW w, Current(Fn, use, w, b, v, q)
  PROVE  /\ w \in Name /\ Reaches(g, w, b) /\ ComesBefore(w, b, q)
         /\ ~Gives(Fn, b, v, q) /\ w[1] # "const" => w[2] # b
<1>1. PICK d \in Block : /\ Closest(Fn, d, b, v, q)
                         /\ LastGiven(Fn, use, w, d, v, Till(Fn, d, b, q))
  BY FnFacts DEF Current
<1>2. /\ IsFlowGraph(g) /\ Fn.succ = g /\ Fn.code = code
      /\ EndOf(Fn, d) \in Nat
  BY FnFacts, InputFacts
<1>3. /\ DomIn(g, d, b) /\ d \in ReachableIn(g) /\ DomIn(g, d, d)
      /\ d = b => Gives(Fn, b, v, q)
  BY <1>1, <1>2, DomReachable, DomBasic DEF Closest, Giver, Till
<1>4. Till(Fn, d, b, q) \in Nat /\ (d = b => Till(Fn, d, b, q) = q)
  BY <1>2 DEF Till
<1>5. w \in Name /\ Reaches(g, w, d) /\ ComesBefore(w, d, Till(Fn, d, b, q))
  <2>1. CASE w = <<"phi", d, v>>
    BY <1>3, <2>1 DEF Name, Reaches, ComesBefore
  <2>2. CASE \E i \in DOMAIN code[d] : /\ StoreAt(Fn, d, i, v) /\ i < Till(Fn, d, b, q)
                                       /\ w = OperandIn(use, code[d][i].rval)
    <3>1. PICK i \in DOMAIN code[d] : /\ StoreAt(Fn, d, i, v) /\ i < Till(Fn, d, b, q)
                                      /\ w = OperandIn(use, code[d][i].rval)
      BY <2>2
    <3>2. IsStore(d, i) /\ i \in Nat
      BY <3>1, FnFacts
    <3>3. w \in Name /\ Reaches(g, w, d) /\ ComesBefore(w, d, i)
      BY <1>3, <3>1, <3>2, StoredOperand
    <3>4. w[3] \in Nat
      BY <3>3, NameFacts
    <3> QED
      BY <1>4, <3>1, <3>2, <3>3, <3>4 DEF ComesBefore
  <2> QED
    BY <1>1, <1>2, <2>1, <2>2 DEF LastGiven
<1>6. Reaches(g, w, b)
  BY <1>2, <1>3, <1>5, ReachesOn
<1>7. ASSUME d # b, w[1] # "const" PROVE w[2] # b
  <2>1. DomIn(g, w[2], d)
    BY <1>5, <1>7 DEF Reaches
  <2> QED
    BY <1>2, <1>3, <1>7, <2>1, DomAntisymmetric
<1>8. ComesBefore(w, b, q)
  <2>1. CASE d = b
    BY <1>4, <1>5, <2>1
  <2>2. CASE d # b
    BY <1>7, <2>2 DEF ComesBefore
  <2> QED
    BY <2>1, <2>2
<1> QED
  BY <1>3, <1>5, <1>6, <1>7, <1>8

\* The current value depends on the loads before the position only.
LEMMA CurrentUse ==
  ASSUME InputInv, NEW b, NEW v, NEW q \in Nat, NEW w, NEW u, NEW t,
         \A r \in Loads : DomIn(g, r[2], b) /\ (r[2] = b => r[3] < q) => t[r] = u[r],
         Current(Fn, u, w, b, v, q)
  PROVE  Current(Fn, t, w, b, v, q)
<1>1. PICK d \in Block : /\ Closest(Fn, d, b, v, q)
                         /\ LastGiven(Fn, u, w, d, v, Till(Fn, d, b, q))
  BY FnFacts DEF Current
<1>2. /\ IsFlowGraph(g) /\ Fn.succ = g /\ Fn.code = code /\ DOMAIN Fn.succ = Block
  BY FnFacts, InputFacts
<1>3. DomIn(g, d, b) /\ d \in ReachableIn(g)
  BY <1>1, <1>2, DomReachable DEF Closest, Giver
<1>4. ASSUME NEW i, StoreAt(Fn, d, i, v), i < Till(Fn, d, b, q)
      PROVE  OperandIn(t, code[d][i].rval) = OperandIn(u, code[d][i].rval)
  <2> DEFINE r == code[d][i].rval
  <2>1. IsStore(d, i) /\ i \in Nat
    BY <1>4, FnFacts DEF IsStore
  <2>2. r[1] = "load" =>
           /\ r \in Loads
           /\ \/ r[2] = d /\ r[3] < i
              \/ SDomIn(g, r[2], d)
    BY <1>3, <2>1, StoredFacts
  <2>3. r[1] = "load" => r[3] \in Nat
    BY <2>2, NameFacts DEF Name
  <2> HIDE DEF r
  <2>4. ASSUME r[1] = "load" PROVE t[r] = u[r]
    <3>1. DomIn(g, r[2], b)
      BY <1>2, <1>3, <2>2, <2>4, DomTransitive DEF SDomIn
    <3>2. ASSUME r[2] = b PROVE r[3] < q
      <4>1. d = b
        <5>1. CASE SDomIn(g, r[2], d)
          BY <1>2, <1>3, <3>2, <5>1, DomAntisymmetric DEF SDomIn
        <5> QED
          BY <2>2, <2>4, <3>2, <5>1
      <4>2. r[3] < i /\ i < q
        BY <1>4, <2>2, <2>4, <3>2, <4>1 DEF SDomIn, Till
      <4> QED
        BY <2>1, <2>3, <2>4, <4>2
    <3> QED
      BY <2>2, <2>4, <3>1, <3>2
  <2> QED
    BY <2>4 DEF OperandIn, r
<1>5. LastGiven(Fn, t, w, d, v, Till(Fn, d, b, q))
  BY <1>1, <1>2, <1>4 DEF LastGiven
<1> QED
  BY <1>1, <1>2, <1>5 DEF Current

-----------------------------------------------------------------------------
(***************************************************************************)
(* What re_name has been through.                                          *)
(***************************************************************************)

\* What the steps of the pass keep.
LEMMA SameFn ==
  ASSUME UNCHANGED input_vars
  PROVE  /\ Name' = Name /\ Phis' = Phis
         /\ phi' = phi => Fn' = Fn
<1>1. Block' = Block /\ Loads' = Loads /\ g' = g /\ code' = code
  BY SameInput
<1>2. Name' = Name /\ Phis' = Phis
  BY <1>1 DEF Name, Phis
<1>3. phi' = phi => Fn' = Fn
  BY <1>1 DEF Fn
<1> QED
  BY <1>2, <1>3

\* While re_name is at an instruction of a block, nothing below the block has
\* been passed.
LEMMA BelowTop ==
  ASSUME MInv, GoneInv, pc = "instr", NEW b, DomIn(g, Top.bb, b)
  PROVE  /\ ~Through(b)
         /\ b # Top.bb => \E c \in Ahead : DomIn(g, c, b)
         /\ \A i : Passed(b, i) => b = Top.bb /\ i < pos
<1>1. /\ IsFlowGraph(g) /\ Len(frames) \in 1..Len(frames) /\ Top = frames[Len(frames)]
      /\ Top.bb \in Block /\ Top.kids = kids[Top.bb] /\ kids[Top.bb] \subseteq Block
      /\ kids[Top.bb] = ChildrenIn(g, Top.bb)
  BY TopWay, InputFacts DEF MInv, ShapeInv, GoneInv
<1>2. ASSUME b # Top.bb PROVE \E c \in Ahead : DomIn(g, c, b)
  <2>1. PICK c \in ChildrenIn(g, Top.bb) : DomIn(g, c, b)
    BY <1>1, <1>2, ChildToward DEF SDomIn
  <2>2. c \in Ahead
    BY <1>1, <2>1 DEF Ahead
  <2> QED
    BY <2>1, <2>2
<1>3. ~Through(b)
  BY <1>2 DEF Through
<1> QED
  BY <1>2, <1>3 DEF Passed

\* A step from one instruction to the next passes that instruction.
LEMMA PassOne ==
  ASSUME MInv, pc = "instr", UNCHANGED <<input_vars, pc, frames>>, pos' = pos + 1
  PROVE  /\ \A b : Through(b)' <=> Through(b)
         /\ \A b, i : i \in Nat =>
              (Passed(b, i)' <=> Passed(b, i) \/ (b = Top.bb /\ i = pos))
         /\ Top' = Top
<1>1. g' = g /\ Block' = Block
  BY SameInput
<1>2. Ahead' = Ahead /\ Top' = Top /\ pc' = pc /\ pos \in Nat
  BY <1>1 DEF Ahead, Top, MInv, TypeOK
<1>3. \A b : Through(b)' <=> Through(b)
  BY <1>1, <1>2 DEF Through
<1>4. \A i : i \in Nat => (i < pos + 1 <=> i < pos \/ i = pos)
  BY <1>2
<1> QED
  BY <1>2, <1>3, <1>4 DEF Passed

\* The end of a block passes the block.
LEMMA PassBlock ==
  ASSUME MInv, FillPhis
  PROVE  /\ \A b : Through(b)' <=> Through(b) \/ b = Top.bb
         /\ \A b \in Block : \A i \in DOMAIN code[b] : Passed(b, i)' <=> Passed(b, i)
         /\ Top' = Top
<1>1. /\ pc = "instr" /\ pc' = "kids" /\ UNCHANGED <<input_vars, frames>>
      /\ pos > Len(code[Top.bb])
  BY DEF FillPhis, AtEnd
<1>2. g' = g /\ Block' = Block /\ Ahead' = Ahead /\ Top' = Top
  BY <1>1, SameInput DEF Ahead, Top
<1>3. /\ Len(frames) \in 1..Len(frames) /\ Top = frames[Len(frames)] /\ Top.bb \in Block
      /\ Top.bb \in ReachableIn(g) /\ pos \in Nat /\ Len(code[Top.bb]) \in Nat
      /\ DOMAIN code[Top.bb] = 1..Len(code[Top.bb])
  <2>1. /\ Len(frames) \in Nat \ {0} /\ Top = frames[Len(frames)] /\ Top.bb \in Block
        /\ Top.bb \in ReachableIn(g)
    BY <1>1, TopWay DEF MInv, ShapeInv
  <2>2. /\ Len(code[Top.bb]) \in Nat /\ DOMAIN code[Top.bb] = 1..Len(code[Top.bb])
    BY <2>1, InputFacts DEF MInv
  <2>3. pos \in Nat
    BY DEF MInv, TypeOK
  <2> QED
    BY <2>1, <2>2, <2>3
<1>4. \A c \in Ahead : ~DomIn(g, c, Top.bb)
  BY <1>3 DEF Ahead, MInv, PathInv
<1>5. \A b : Through(b)' <=> Through(b) \/ b = Top.bb
  BY <1>1, <1>2, <1>3, <1>4 DEF Through
<1>6. \A i \in DOMAIN code[Top.bb] : i < pos
  BY <1>1, <1>3
<1> QED
  BY <1>1, <1>2, <1>5, <1>6 DEF Passed

\* A call passes nothing: what was ahead below its block still is.
LEMMA PassNone ==
  ASSUME MInv, NEW c \in Block, Recurse(c)
  PROVE  /\ \A b : Through(b)' <=> Through(b)
         /\ \A b \in Block : \A i \in DOMAIN code[b] : Passed(b, i)' <=> Passed(b, i)
         /\ Top'.bb = c
<1> DEFINE L == Len(frames)
<1>1. /\ pc = "kids" /\ pc' = "instr" /\ pos' = 1 /\ UNCHANGED input_vars
  BY DEF Recurse, Enter
<1>2. g' = g /\ Block' = Block
  BY <1>1, SameInput
<1>3. /\ L \in Nat \ {0} /\ Len(frames') = L + 1
      /\ \A k \in 1..L : frames'[k].kids \subseteq frames[k].kids
      /\ \A k \in 1..L : k < L => frames'[k].kids = frames[k].kids
      /\ frames'[L].kids = frames[L].kids \ {c}
      /\ frames'[L + 1].bb = c /\ frames'[L + 1].kids = kids[c]
      /\ c \in frames[L].kids
  BY CallFrames DEF MInv, ShapeInv
<1>4. /\ IsFlowGraph(g) /\ kids[c] = ChildrenIn(g, c)
      /\ frames[L].kids \subseteq Block
      /\ L \in 1..L /\ \A k \in 1..(L + 1) : k \in 1..L \/ k = L + 1
      /\ L + 1 \in 1..(L + 1) /\ 1..L \subseteq 1..(L + 1)
      /\ \A k \in 1..L : k < L \/ k = L
      /\ \A b \in Block : DOMAIN code[b] = 1..Len(code[b])
  <2>1. /\ IsFlowGraph(g) /\ kids[c] = ChildrenIn(g, c)
        /\ \A b \in Block : DOMAIN code[b] = 1..Len(code[b])
    BY InputFacts DEF MInv
  <2>2. frames[L].kids \subseteq Block
    BY <1>1, TopFacts DEF MInv, ShapeInv
  <2> QED
    BY <1>3, <2>1, <2>2
<1>5. c \in Ahead /\ c \in ReachableIn(g) /\ DomIn(g, c, c)
  <2>1. c \in kids[frames[L].bb] /\ frames[L].bb \in Block
    BY <1>3, <1>4, InputFacts DEF MInv, PathInv
  <2>2. c \in ReachableIn(g)
    BY <2>1, ChildFacts DEF MInv
  <2> QED
    BY <1>3, <1>4, <2>2, DomBasic DEF Ahead
<1>6. Ahead' \subseteq Ahead \cup kids[c]
  BY <1>2, <1>3, <1>4 DEF Ahead
<1>7. Ahead \ {c} \subseteq Ahead'
  <2> SUFFICES ASSUME NEW x \in Block, x # c, NEW k \in 1..L, x \in frames[k].kids
               PROVE  x \in frames'[k].kids
    BY <1>2, <1>3, <1>4 DEF Ahead
  <2> QED
    BY <1>3, <1>4
<1>8. kids[c] \subseteq Ahead'
  BY <1>2, <1>3, <1>4, InputFacts DEF Ahead, MInv
<1>9. Top'.bb = c
  BY <1>3 DEF Top
<1>10. ASSUME NEW b, Through(b) PROVE Through(b)'
  <2>1. ~DomIn(g, c, b) /\ b \in ReachableIn(g) /\ b # c
    BY <1>5, <1>10 DEF Through
  <2>2. ASSUME NEW x \in kids[c], DomIn(g, x, b) PROVE FALSE
    <3>1. DomIn(g, c, x)
      BY ChildFacts DEF MInv, SDomIn
    <3> QED
      BY <1>4, <2>1, <2>2, <3>1, DomTransitive
  <2> QED
    BY <1>1, <1>2, <1>6, <1>9, <1>10, <2>1, <2>2 DEF Through
<1>11. ASSUME NEW b, Through(b)' PROVE Through(b)
  <2>1. b \in ReachableIn(g) /\ b # c /\ \A x \in Ahead' : ~DomIn(g, x, b)
    BY <1>1, <1>2, <1>9, <1>11 DEF Through
  <2>2. ~DomIn(g, c, b)
    <3> SUFFICES ASSUME DomIn(g, c, b) PROVE FALSE
      OBVIOUS
    <3>1. PICK x \in ChildrenIn(g, c) : DomIn(g, x, b)
      BY <1>4, <2>1, ChildToward DEF SDomIn
    <3> QED
      BY <1>4, <1>8, <2>1, <3>1
  <2> QED
    BY <1>1, <1>7, <2>1, <2>2 DEF Through
<1>12. \A b \in Block : \A i \in DOMAIN code[b] : ~(i < pos')
  BY <1>1, <1>4, InputFacts DEF MInv
<1> QED
  BY <1>1, <1>9, <1>10, <1>11, <1>12 DEF Passed

\* When re_name is called on the entry it has been through nothing.
LEMMA PassStart ==
  ASSUME MInv, StartRename
  PROVE  /\ \A b : ~Through(b)'
         /\ \A b \in Block : \A i \in DOMAIN code[b] : ~Passed(b, i)'
         /\ Top'.bb = Entry /\ Top'.kids = kids[Entry] /\ Top'.saved = stk
         /\ Len(frames') = 1
<1>1. /\ pc' = "instr" /\ pos' = 1 /\ UNCHANGED input_vars
      /\ frames' = <<[bb |-> Entry, kids |-> kids[Entry], saved |-> stk]>>
  BY DEF StartRename, Enter
<1>2. g' = g /\ Block' = Block
  BY <1>1, SameInput
<1>3. /\ Len(frames') = 1 /\ Top' = frames'[1] /\ Top'.bb = Entry
      /\ Top'.kids = kids[Entry] /\ Top'.saved = stk
  BY <1>1 DEF Top
<1>4. /\ IsFlowGraph(g) /\ kids[Entry] = ChildrenIn(g, Entry)
      /\ kids[Entry] \subseteq Block
      /\ \A b \in Block : DOMAIN code[b] = 1..Len(code[b])
      /\ \A b \in Block : Len(code[b]) \in Nat
  BY InputFacts DEF MInv
<1>5. kids[Entry] \subseteq Ahead'
  BY <1>2, <1>3, <1>4 DEF Ahead
<1>6. ASSUME NEW b, Through(b)' PROVE FALSE
  <2>1. b \in ReachableIn(g) /\ b # Entry /\ \A x \in Ahead' : ~DomIn(g, x, b)
    BY <1>1, <1>2, <1>3, <1>6 DEF Through
  <2>2. SDomIn(g, Entry, b)
    BY <1>4, <2>1, DomBasic DEF SDomIn
  <2>3. PICK x \in ChildrenIn(g, Entry) : DomIn(g, x, b)
    BY <1>4, <2>2, ChildToward
  <2> QED
    BY <1>4, <1>5, <2>1, <2>3
<1>7. \A b \in Block : \A i \in DOMAIN code[b] : ~(i < pos')
  BY <1>1, <1>4
<1> QED
  BY <1>3, <1>6, <1>7 DEF Passed

\* A return passes nothing.
LEMMA PassReturn ==
  ASSUME MInv, Leave
  PROVE  /\ \A b : Through(b)' <=> Through(b)
         /\ \A b, i : Passed(b, i)' <=> Passed(b, i)
         /\ Len(frames') = Len(frames) - 1
         /\ \A k \in 1..(Len(frames) - 1) : frames'[k] = frames[k]
         /\ pc' = "kids" => Len(frames) > 1 /\ Top' = frames[Len(frames) - 1]
<1> DEFINE L == Len(frames)
<1>1. /\ pc = "kids" /\ Top.kids = {} /\ pc' \in {"kids", "alloca"}
      /\ pc' = "kids" => Below # <<>>
      /\ frames' = Below /\ UNCHANGED input_vars
  BY DEF Leave
<1>2. g' = g /\ Block' = Block
  BY <1>1, SameInput
<1>3. /\ L \in Nat \ {0} /\ Top = frames[L] /\ Len(frames') = L - 1
      /\ Below \in Seq(Frame)
      /\ \A k \in 1..(L - 1) : frames'[k] = frames[k]
  BY <1>1, TopFacts DEF MInv, ShapeInv
<1>4. Ahead' = Ahead
  <2>1. \A k \in 1..L : k \in 1..(L - 1) \/ frames[k].kids = {}
    BY <1>1, <1>3
  <2>2. 1..(L - 1) \subseteq 1..L
    BY <1>3
  <2> QED
    BY <1>2, <1>3, <2>1, <2>2 DEF Ahead
<1>5. \A b : Through(b)' <=> Through(b)
  BY <1>1, <1>2, <1>4 DEF Through
<1>6. pc' = "kids" => L > 1 /\ Top' = frames[L - 1]
  <2> SUFFICES ASSUME pc' = "kids" PROVE L > 1 /\ Top' = frames[L - 1]
    OBVIOUS
  <2>1. L - 1 # 0
    BY <1>1, <1>3
  <2>2. L - 1 \in 1..(L - 1)
    BY <1>3, <2>1
  <2> QED
    BY <1>3, <2>1, <2>2 DEF Top
<1> QED
  BY <1>1, <1>3, <1>5, <1>6 DEF Passed

\* A variable that has a value where re_name is has one on its stack.
LEMMA GiverOnStack ==
  ASSUME MInv, pc = "instr", NEW v \in Promoted, NEW d \in Block,
         Giver(Fn, d, Top.bb, v, pos)
  PROVE  Len(stk[v]) > 0 /\ v \in known
<1> DEFINE L == Len(frames)
<1>1. /\ L \in Nat \ {0} /\ Top = frames[L] /\ Top.bb \in Block
  BY TopWay DEF MInv, ShapeInv
<1>2. /\ pos \in Nat \ {0} /\ stk[v] \in Seq(Value)
  BY DEF MInv, TypeOK
<1>3. Top.saved[v] \in Seq(Value)
  BY TopFacts DEF MInv, ShapeInv
<1>4. Extends(Top.saved[v], stk[v], Pushed(Top.bb, v, pos))
  BY DEF MInv, StackInv
<1>5. Pushed(Top.bb, v, pos) \in Nat
  BY <1>1, <1>2, PushedFacts DEF MInv
<1>6. DomIn(g, d, Top.bb) /\ Gives(Fn, d, v, Till(Fn, d, Top.bb, pos))
  BY FnFacts DEF Giver, MInv
<1>7. Len(stk[v]) > 0
  <2>1. CASE d = Top.bb
    <3>1. Gives(Fn, Top.bb, v, pos)
      BY <1>6, <2>1 DEF Till
    <3>2. \/ v \in phi[Top.bb]
          \/ \E i : i < pos /\ IsStore(Top.bb, i) /\ code[Top.bb][i].lval = v
      BY <3>1, FnFacts DEF Gives, MInv
    <3>3. Pushed(Top.bb, v, pos) > 0
      BY <1>1, <1>2, <3>2, PushedFacts DEF MInv
    <3> QED
      BY <1>2, <1>3, <1>4, <1>5, <3>3, ExtendsLen
  <2>2. CASE d # Top.bb
    <3>1. PICK j \in 1..L : frames[j].bb = d
      BY <1>1, <1>6 DEF MInv, PathInv
    <3>2. j < L /\ L \in 1..L
      BY <1>1, <2>2, <3>1
    <3>3. Defines(d, v)
      <4>1. v \in Fn.phi[d] \/ \E i \in DOMAIN Fn.code[d] : StoreAt(Fn, d, i, v)
        BY <1>6 DEF Gives
      <4> QED
        BY <4>1, FnFacts DEF Defines, StoreBlocks, MInv
    <3>4. Len(Top.saved[v]) > 0
      BY <1>1, <3>1, <3>2, <3>3 DEF MInv, ValueInv
    <3> QED
      BY <1>2, <1>3, <1>4, <1>5, <3>4, ExtendsLen
  <2> QED
    BY <2>1, <2>2
<1> QED
  BY <1>7 DEF MInv, ValueInv

-----------------------------------------------------------------------------
(***************************************************************************)
(* The steps of re_name keep the current values.                           *)
(***************************************************************************)

\* No other operand changes when a load is replaced: its users are below it,
\* where re_name has not been.
LEMMA NotUsedYet ==
  ASSUME MInv, SSAInv, Renaming, AtLoad, NEW old, old = <<"load", Top.bb, pos>>
  PROVE  /\ old \in Loads /\ old[2] = Top.bb /\ old[3] = pos
         /\ <<Top.bb, pos>> \notin wait \cup erased
         /\ use[old] = old
         /\ \A l \in Loads : use[l] = old => l = old
         /\ \A b \in Block : \A v \in Promoted : \A k \in DOMAIN args[b][v] :
              /\ args[b][v][k].val # old
              /\ ~DomIn(g, Top.bb, args[b][v][k].bb)
<1>1. pc = "instr" /\ ShapeInv /\ PathInv
  BY DEF AtLoad, MInv, ShapeInv
<1>2. /\ IsFlowGraph(g) /\ Top.bb \in Block /\ DomIn(g, Top.bb, Top.bb) /\ pos \in Nat
  BY <1>1, TopWay DEF ShapeInv, TypeOK
<1>3. old \in Loads /\ old[1] = "load" /\ old[2] = Top.bb /\ old[3] = pos
  BY <1>1, HereFacts
<1>4. GoneInv /\ UseCurrent
  BY DEF Renaming
<1>5. ~Passed(Top.bb, pos)
  BY <1>1, <1>2, <1>4, BelowTop
<1>6. <<Top.bb, pos>> \notin wait \cup erased
  BY <1>3, <1>4, <1>5 DEF UseCurrent
<1>7. use[old] = old
  BY <1>3, <1>4, <1>6 DEF UseCurrent
<1>8. ASSUME NEW l \in Loads, use[l] = old, l # old PROVE FALSE
  <2>1. Passed(l[2], l[3])
    BY <1>4, <1>8 DEF UseCurrent
  <2>2. DomIn(g, Top.bb, l[2]) /\ ComesBefore(old, l[2], l[3] + 1)
    BY <1>3, <1>8 DEF SSAInv, UseInv, Reaches
  <2>3. l[2] = Top.bb /\ l[3] < pos
    BY <1>1, <1>4, <2>1, <2>2, BelowTop
  <2>4. pos < l[3] + 1
    BY <1>3, <2>2, <2>3 DEF ComesBefore
  <2>5. l[3] \in Nat
    <3>1. l \in Value
      BY <1>1, InputFacts DEF ShapeInv
    <3> QED
      BY <3>1 DEF Value
  <2> QED
    BY <1>2, <2>3, <2>4, <2>5
<1>9. ASSUME NEW b \in Block, NEW v \in Promoted, NEW k \in DOMAIN args[b][v]
      PROVE  /\ args[b][v][k].val # old
             /\ ~DomIn(g, Top.bb, args[b][v][k].bb)
  <2> DEFINE a == args[b][v][k]
  <2>1. /\ Reaches(g, a.val, a.bb) /\ \A c \in Ahead : ~DomIn(g, c, a.bb)
        /\ a.bb # Top.bb
    BY <1>1 DEF SSAInv, ArgsInv, ArgsOK
  <2> HIDE DEF a
  <2>2. ~DomIn(g, Top.bb, a.bb)
    BY <1>1, <1>4, <2>1, BelowTop
  <2>3. a.val # old
    BY <1>3, <2>1, <2>2 DEF Reaches
  <2> QED
    BY <2>2, <2>3 DEF a
<1> QED
  BY <1>3, <1>6, <1>7, <1>8, <1>9

\* A step from one instruction of a block to the next, which at most gives
\* the users of that instruction their operand.
LEMMA StepOne ==
  ASSUME MInv, SSAInv, Renaming, pc = "instr",
         IsLoad(Top.bb, pos) \/ IsStore(Top.bb, pos),
         UNCHANGED <<input_vars, pc, frames, phi, erased, args>>, pos' = pos + 1,
         use' \in [Loads -> Name],
         NEW old, old = <<"load", Top.bb, pos>>,
         \A l \in Loads : l # old => use'[l] = use[l],
         wait' = wait \/ (/\ wait' = wait \cup {<<Top.bb, pos>>}
                          /\ code[Top.bb][pos].lval \in Promoted),
         old \in Loads => IF <<Top.bb, pos>> \in wait' \cup erased
           THEN Current(Fn, use', use'[old], Top.bb, code[Top.bb][pos].lval, pos)
           ELSE /\ use'[old] = old
                /\ code[Top.bb][pos].lval \in Promoted =>
                     \A d \in Block : ~Giver(Fn, d, Top.bb, code[Top.bb][pos].lval, pos),
         \A v \in Promoted : Len(stk'[v]) > 0 =>
           Current(Fn, use', stk'[v][Len(stk'[v])], Top.bb, v, pos + 1)
  PROVE  Renaming'
<1>1. /\ g' = g /\ Block' = Block /\ Loads' = Loads /\ code' = code /\ Fn' = Fn
      /\ kids' = kids /\ Name' = Name /\ Top' = Top
  BY SameInput, SameFn DEF Top
<1>2. /\ \A b : Through(b)' <=> Through(b)
      /\ \A b, i : i \in Nat =>
           (Passed(b, i)' <=> Passed(b, i) \/ (b = Top.bb /\ i = pos))
  BY PassOne
<1>3. /\ IsFlowGraph(g) /\ Top.bb \in Block /\ DomIn(g, Top.bb, Top.bb) /\ pos \in Nat
      /\ \A k \in 1..(Len(frames) - 1) : SDomIn(g, frames[k].bb, Top.bb)
      /\ Len(frames) \in Nat
  BY TopWay DEF MInv, ShapeInv, TypeOK
<1>4. /\ UseCurrent /\ GoneInv /\ StacksCurrent /\ ArgsCurrent /\ InputInv
  BY DEF Renaming, MInv
<1>5. old[2] = Top.bb /\ old[3] = pos
  OBVIOUS
<1>6. \A l \in Loads : /\ l = <<"load", l[2], l[3]>> /\ l[3] \in Nat
                       /\ l[2] \in Block
  <2>1. \A l \in Loads : l \in Value
    BY <1>4, InputFacts
  <2>2. \A l \in Value : l[3] \in Nat
    BY DEF Value
  <2> QED
    BY <2>1, <2>2, LoadsFacts
<1>7. ASSUME NEW b, NEW v, NEW q \in Nat, NEW w, Current(Fn, use, w, b, v, q),
             DomIn(g, Top.bb, b) => b = Top.bb /\ q <= pos
      PROVE  Current(Fn, use', w, b, v, q)
  <2>1. ASSUME NEW r \in Loads, DomIn(g, r[2], b), r[2] = b => r[3] < q
        PROVE  use'[r] = use[r]
    <3>1. r # old
      BY <1>3, <1>5, <1>7, <2>1
    <3> QED
      BY <3>1
  <2> QED
    BY <1>4, <1>7, <2>1, CurrentUse
<1>8. UseCurrent'
  <2> SUFFICES ASSUME NEW l \in Loads
               PROVE  LET v == code[l[2]][l[3]].lval IN
                 IF <<l[2], l[3]>> \in wait' \cup erased
                 THEN Passed(l[2], l[3])' /\ Current(Fn, use', use'[l], l[2], v, l[3])
                 ELSE /\ use'[l] = l
                      /\ Passed(l[2], l[3])' /\ v \in Promoted =>
                           \A d \in Block : ~Giver(Fn, d, l[2], v, l[3])
    BY <1>1 DEF UseCurrent
  <2>1. CASE l = old
    BY <1>2, <1>3, <1>5, <2>1
  <2>2. CASE l # old
    <3>1. /\ use'[l] = use[l] /\ l[3] \in Nat /\ ~(l[2] = Top.bb /\ l[3] = pos)
      BY <1>6, <2>2
    <3>2. <<l[2], l[3]>> \in wait' \cup erased <=> <<l[2], l[3]>> \in wait \cup erased
      BY <3>1
    <3>3. Passed(l[2], l[3])' <=> Passed(l[2], l[3])
      BY <1>2, <3>1
    <3>4. CASE <<l[2], l[3]>> \in wait \cup erased
      <4>1. /\ Passed(l[2], l[3])
            /\ Current(Fn, use, use[l], l[2], code[l[2]][l[3]].lval, l[3])
        BY <1>4, <3>4 DEF UseCurrent
      <4>2. DomIn(g, Top.bb, l[2]) => l[2] = Top.bb /\ l[3] <= pos
        BY <1>3, <1>4, <3>1, <4>1, BelowTop
      <4>3. Current(Fn, use', use[l], l[2], code[l[2]][l[3]].lval, l[3])
        BY <1>7, <3>1, <4>1, <4>2
      <4> QED
        BY <3>1, <3>2, <3>3, <3>4, <4>1, <4>3
    <3>5. CASE <<l[2], l[3]>> \notin wait \cup erased
      <4>1. /\ use[l] = l
            /\ Passed(l[2], l[3]) /\ code[l[2]][l[3]].lval \in Promoted =>
                 \A d \in Block : ~Giver(Fn, d, l[2], code[l[2]][l[3]].lval, l[3])
        BY <1>4, <3>5 DEF UseCurrent
      <4> QED
        BY <3>1, <3>2, <3>3, <3>5, <4>1
    <3> QED
      BY <3>4, <3>5
  <2> QED
    BY <2>1, <2>2
<1>9. GoneInv'
  <2>1. \A w \in wait' \cup erased : w \in wait \cup erased \/
          (w[1] = Top.bb /\ w[2] = pos /\ code[Top.bb][pos].lval \in Promoted)
    OBVIOUS
  <2>2. \A w \in wait' : w \in wait \/ w[1] = Top.bb
    OBVIOUS
  <2>3. Top = frames[Len(frames)] /\ Len(frames) \in 1..Len(frames)
    BY TopWay DEF MInv, ShapeInv
  <2> QED
    BY <1>1, <1>4, <2>1, <2>2, <2>3 DEF GoneInv
<1>10. StacksCurrent'
  <2>1. ASSUME NEW k \in 1..Len(frames), NEW v \in Promoted, Len(frames[k].saved[v]) > 0
        PROVE  k > 1 /\ Current(Fn, use', frames[k].saved[v][Len(frames[k].saved[v])],
                                frames[k - 1].bb, v, EndOf(Fn, frames[k - 1].bb))
    <3>1. k > 1 /\ Current(Fn, use, frames[k].saved[v][Len(frames[k].saved[v])],
                           frames[k - 1].bb, v, EndOf(Fn, frames[k - 1].bb))
      BY <1>4, <2>1 DEF StacksCurrent
    <3>2. SDomIn(g, frames[k - 1].bb, Top.bb) /\ frames[k - 1].bb \in Block
      <4>1. k - 1 \in 1..(Len(frames) - 1) /\ k - 1 \in 1..Len(frames)
        BY <1>3, <3>1
      <4>2. frames[k - 1].bb \in ReachableIn(g)
        BY <4>1 DEF MInv, PathInv
      <4> QED
        BY <1>3, <1>4, <4>1, <4>2, InputFacts
    <3>3. ~DomIn(g, Top.bb, frames[k - 1].bb)
      BY <1>3, <3>2, DomAntisymmetric DEF SDomIn
    <3>4. EndOf(Fn, frames[k - 1].bb) \in Nat
      BY <1>4, <3>2, FnFacts
    <3> QED
      BY <1>7, <3>1, <3>3, <3>4
  <2>2. pc' = "instr"
    OBVIOUS
  <2> QED
    BY <1>1, <2>1, <2>2 DEF StacksCurrent
<1>11. ArgsCurrent'
  <2>1. ASSUME NEW b \in Block, NEW v \in Promoted, NEW k \in DOMAIN args[b][v]
        PROVE  Current(Fn, use', args[b][v][k].val, args[b][v][k].bb, v,
                       EndOf(Fn, args[b][v][k].bb))
    <3>1. Current(Fn, use, args[b][v][k].val, args[b][v][k].bb, v,
                  EndOf(Fn, args[b][v][k].bb))
      BY <1>4 DEF ArgsCurrent
    <3>2. ~DomIn(g, Top.bb, args[b][v][k].bb) /\ args[b][v][k].bb \in Block
      <4>1. /\ args[b][v][k].bb \in PredIn(g, b) /\ args[b][v][k].bb # Top.bb
            /\ \A c \in Ahead : ~DomIn(g, c, args[b][v][k].bb)
        BY DEF SSAInv, ArgsInv, ArgsOK
      <4> QED
        BY <1>4, <4>1, BelowTop, InputFacts DEF PredIn
    <3>3. EndOf(Fn, args[b][v][k].bb) \in Nat
      BY <1>4, <3>2, FnFacts
    <3> QED
      BY <1>7, <3>1, <3>2, <3>3
  <2> QED
    BY <1>1, <1>2, <1>4, <2>1 DEF ArgsCurrent
<1> QED
  BY <1>8, <1>9, <1>10, <1>11 DEF Renaming

\* The elements of a sequence.
LEMMA Elements ==
  ASSUME NEW S, NEW s \in Seq(S) PROVE \A k \in DOMAIN s : s[k] \in S
OBVIOUS

\* A sequence with an element appended.
LEMMA Appended ==
  ASSUME NEW S, NEW s \in Seq(S), NEW x, NEW t, t = Append(s, x)
  PROVE  /\ Len(s) \in Nat /\ DOMAIN s = 1..Len(s) /\ DOMAIN t = 1..(Len(s) + 1)
         /\ t[Len(s) + 1] = x /\ \A k \in DOMAIN s : t[k] = s[k]
OBVIOUS

\* The last element of such a sequence.
LEMMA LastAppended ==
  ASSUME NEW S, NEW s \in Seq(S), NEW x, NEW t, t = Append(s, x)
  PROVE  t[Len(t)] = x
OBVIOUS

\* A load gets the current value of its variable.
LEMMA ReplaceCurrent == ASSUME MInv, SSAInv, Renaming, ReplaceLoad PROVE Renaming'
<1> DEFINE old == <<"load", Top.bb, pos>>
           v == Here.lval
           new == stk[v][Len(stk[v])]
<1>1. /\ AtLoad /\ pc = "instr" /\ IsLoad(Top.bb, pos) /\ v \in Promoted /\ stk[v] # <<>>
      /\ UNCHANGED <<input_vars, pc, frames, phi, erased, stk>> /\ pos' = pos + 1
      /\ use' = [l \in Loads |-> Subst(use[l], old, new)]
      /\ args' = [b \in Block |-> [x \in Promoted |->
           [k \in DOMAIN args[b][x] |->
              [args[b][x][k] EXCEPT !.val = Subst(@, old, new)]]]]
      /\ wait' = wait \cup {<<Top.bb, pos>>}
      /\ v = code[Top.bb][pos].lval
  BY DEF ReplaceLoad, AtLoad, HasStack, Here, place_vars
<1>2. /\ old \in Loads /\ use[old] = old
      /\ \A l \in Loads : use[l] = old => l = old
      /\ \A b \in Block : \A x \in Promoted : \A k \in DOMAIN args[b][x] :
           args[b][x][k].val # old
  BY <1>1, NotUsedYet
<1>3. /\ InputInv /\ UseCurrent /\ StacksCurrent /\ UseInv
      /\ phi \in [Block -> SUBSET Promoted] /\ stk[v] \in Seq(Value) /\ pos \in Nat
      /\ args \in [Block -> [Promoted -> Seq([val : Value, bb : Block])]]
  BY <1>1 DEF MInv, Renaming, SSAInv, TypeOK
<1>4. Len(stk[v]) > 0
  BY <1>1, <1>3
<1>5. Current(Fn, use, new, Top.bb, v, pos)
  BY <1>1, <1>3, <1>4 DEF StacksCurrent
<1>6. new \in Name
  BY <1>1, <1>3, <1>5, CurrentFacts DEF UseCurrent
<1> HIDE DEF old, new, v
<1>7. args' = args
  <2>1. ASSUME NEW b \in Block, NEW x \in Promoted
        PROVE  [k \in DOMAIN args[b][x] |->
                  [args[b][x][k] EXCEPT !.val = Subst(@, old, new)]] = args[b][x]
    <3> DEFINE s == args[b][x]
    <3>1. s \in Seq([val : Value, bb : Block])
      BY <1>3
    <3>2. \A k \in DOMAIN s : s[k] \in [val : Value, bb : Block]
      BY <3>1, Elements
    <3>3. ASSUME NEW k \in DOMAIN s
          PROVE  [s[k] EXCEPT !.val = Subst(@, old, new)] = s[k]
      <4>1. s[k].val # old /\ s[k] \in [val : Value, bb : Block]
        BY <1>2, <3>2
      <4>2. Subst(s[k].val, old, new) = s[k].val
        BY <4>1 DEF Subst
      <4> HIDE DEF s
      <4>3. [s[k] EXCEPT !.val = Subst(@, old, new)] = [s[k] EXCEPT !.val = s[k].val]
        BY <4>2
      <4> QED
        BY <4>1, <4>3
    <3> HIDE DEF s
    <3>4. [k \in DOMAIN s |-> [s[k] EXCEPT !.val = Subst(@, old, new)]]
            = [k \in DOMAIN s |-> s[k]]
      BY <3>3
    <3>5. [k \in DOMAIN s |-> s[k]] = s
      BY <3>1
    <3> QED
      BY <3>4, <3>5 DEF s
  <2>2. args' = [b \in Block |-> [x \in Promoted |-> args[b][x]]]
    BY <1>1, <2>1
  <2> QED
    BY <1>3, <2>2
<1>8. \A l \in Loads : use'[l] = IF l = old THEN new ELSE use[l]
  BY <1>1, <1>2 DEF Subst
<1>9. use' \in [Loads -> Name]
  BY <1>1, <1>3, <1>6, <1>8 DEF UseCurrent
<1>10. \A x \in Promoted : \A w : Current(Fn, use, w, Top.bb, x, pos) =>
                              Current(Fn, use', w, Top.bb, x, pos)
  <2>1. \A r \in Loads : (r[2] = Top.bb => r[3] < pos) => use'[r] = use[r]
    BY <1>3, <1>8 DEF old
  <2> QED
    BY <1>3, <2>1, CurrentUse
<1>11. \A x \in Promoted : \A w : Current(Fn, use', w, Top.bb, x, pos) =>
                              Current(Fn, use', w, Top.bb, x, pos + 1)
  <2> TAKE x \in Promoted
  <2> TAKE w
  <2>1. \A i \in DOMAIN Fn.code[Top.bb] :
          StoreAt(Fn, Top.bb, i, x) => (i < pos <=> i < pos + 1)
    <3> SUFFICES ASSUME NEW i, StoreAt(Fn, Top.bb, i, x), Top.bb \in Block
                 PROVE  i < pos <=> i < pos + 1
      BY <1>1, TopWay DEF MInv, ShapeInv
    <3>1. IsStore(Top.bb, i) /\ i \in Nat
      BY <1>3, FnFacts DEF IsStore
    <3>2. i # pos
      BY <1>1, <3>1 DEF IsStore, IsLoad
    <3> QED
      BY <1>3, <3>1, <3>2
  <2> QED
    BY <2>1, SameBetween
<1>12. \A x \in Promoted : Len(stk[x]) > 0 =>
         Current(Fn, use', stk[x][Len(stk[x])], Top.bb, x, pos + 1)
  BY <1>1, <1>3, <1>10, <1>11 DEF StacksCurrent
<1>13. /\ \A l \in Loads : l # old => use'[l] = use[l]
       /\ use'[old] = new /\ Current(Fn, use', new, Top.bb, v, pos)
  BY <1>1, <1>2, <1>5, <1>8, <1>10
<1>14. /\ old = <<"load", Top.bb, pos>> /\ <<Top.bb, pos>> \in wait' \cup erased
  BY <1>1 DEF old
<1>15. /\ pc = "instr" /\ IsLoad(Top.bb, pos) /\ code[Top.bb][pos].lval \in Promoted
       /\ UNCHANGED <<input_vars, pc, frames, phi, erased, args>> /\ pos' = pos + 1
       /\ stk' = stk /\ wait' = wait \cup {<<Top.bb, pos>>}
       /\ Current(Fn, use', use'[old], Top.bb, code[Top.bb][pos].lval, pos)
  BY <1>1, <1>7, <1>13
<1> QED
  BY <1>9, <1>12, <1>13, <1>14, <1>15, StepOne

\* An instruction on no promoted variable, or a load of one without a value,
\* stays.
LEMMA KeepCurrent ==
  ASSUME MInv, SSAInv, Renaming, KeepLoad \/ KeepStore PROVE Renaming'
<1> DEFINE old == <<"load", Top.bb, pos>>
           v == Here.lval
<1>1. /\ pc = "instr" /\ (IsLoad(Top.bb, pos) \/ IsStore(Top.bb, pos))
      /\ UNCHANGED <<input_vars, pc, frames, phi, erased, stk, use, args, wait>>
      /\ pos' = pos + 1 /\ v = code[Top.bb][pos].lval
  BY DEF KeepLoad, KeepStore, AtLoad, AtStore, Here, place_vars, ssa_vars
<1>2. /\ InputInv /\ UseCurrent /\ StacksCurrent /\ pos \in Nat /\ Top.bb \in Block
  BY <1>1, TopWay DEF MInv, Renaming, TypeOK, ShapeInv
<1>3. \A x \in Promoted : \A w : Current(Fn, use, w, Top.bb, x, pos) =>
                             Current(Fn, use, w, Top.bb, x, pos + 1)
  <2> TAKE x \in Promoted
  <2> TAKE w
  <2>1. ASSUME NEW i, StoreAt(Fn, Top.bb, i, x) PROVE i < pos <=> i < pos + 1
    <3>1. IsStore(Top.bb, i) /\ i \in Nat /\ code[Top.bb][i].lval = x
      BY <1>2, <2>1, FnFacts DEF IsStore
    <3>2. i # pos
      BY <1>1, <3>1 DEF IsStore, IsLoad, KeepLoad, KeepStore, AtLoad
    <3> QED
      BY <1>2, <3>1, <3>2
  <2> QED
    BY <2>1, SameBetween
<1>4. \A x \in Promoted : Len(stk[x]) > 0 =>
        Current(Fn, use, stk[x][Len(stk[x])], Top.bb, x, pos + 1)
  BY <1>1, <1>2, <1>3 DEF StacksCurrent
<1>5. ASSUME old \in Loads
      PROVE  /\ <<Top.bb, pos>> \notin wait \cup erased /\ use[old] = old
             /\ v \in Promoted => \A d \in Block : ~Giver(Fn, d, Top.bb, v, pos)
  <2>1. IsLoad(old[2], old[3])
    BY <1>5, LoadsFacts
  <2>2. IsLoad(Top.bb, pos)
    BY <2>1
  <2>3. AtLoad /\ ~HasStack(v)
    BY <1>1, <2>2 DEF AtLoad, KeepLoad, KeepStore, AtStore, IsLoad, IsStore
  <2>4. <<Top.bb, pos>> \notin wait \cup erased /\ use[old] = old
    BY <2>3, NotUsedYet
  <2>5. v \in Promoted => \A d \in Block : ~Giver(Fn, d, Top.bb, v, pos)
    BY <1>1, <2>3, GiverOnStack DEF HasStack
  <2> QED
    BY <2>4, <2>5
<1>6. use \in [Loads -> Name] /\ old = <<"load", Top.bb, pos>>
  BY <1>2 DEF UseCurrent
<1> HIDE DEF old, v
<1>7. use' = use /\ stk' = stk /\ wait' = wait
  BY <1>1
<1> QED
  BY <1>1, <1>4, <1>5, <1>6, <1>7, StepOne

\* A store's operand becomes the current value.
LEMMA PushCurrent == ASSUME MInv, SSAInv, Renaming, PushStore PROVE Renaming'
<1> DEFINE old == <<"load", Top.bb, pos>>
           v == Here.lval
           new == StoredValue(Here)
<1>1. /\ AtStore /\ pc = "instr" /\ IsStore(Top.bb, pos) /\ v \in Promoted
      /\ UNCHANGED <<input_vars, pc, frames, phi, erased, use, args>> /\ pos' = pos + 1
      /\ stk' = [stk EXCEPT ![v] = Append(@, new)]
      /\ wait' = wait \cup {<<Top.bb, pos>>}
      /\ Here = code[Top.bb][pos] /\ v = code[Top.bb][pos].lval
  BY DEF PushStore, AtStore, Here, place_vars
<1>2. /\ InputInv /\ UseCurrent /\ StacksCurrent /\ pos \in Nat
      /\ Top.bb \in ReachableIn(g) /\ Top.bb \in Block /\ stk \in [Promoted -> Seq(Value)]
  BY <1>1, TopWay DEF MInv, Renaming, TypeOK, ShapeInv
<1>3. new = OperandIn(use, code[Top.bb][pos].rval)
  BY <1>1 DEF StoredValue, Operand, OperandIn
<1>4. old \notin Loads
  <2> SUFFICES ASSUME old \in Loads PROVE FALSE
    OBVIOUS
  <2>1. IsLoad(old[2], old[3])
    BY LoadsFacts
  <2>2. IsLoad(Top.bb, pos)
    BY <2>1
  <2> QED
    BY <1>1, <2>2 DEF IsLoad, IsStore
<1> HIDE DEF old, new, v
<1>5. Current(Fn, use, new, Top.bb, v, pos + 1)
  <2>1. IsFn(Fn) /\ Fn.succ = g /\ Fn.code = code /\ StoreAt(Fn, Top.bb, pos, v)
    BY <1>1, <1>2, FnFacts
  <2> QED
    BY <1>2, <1>3, <2>1, StoreCurrent
<1>6. ASSUME NEW x \in Promoted, Len(stk'[x]) > 0
      PROVE  Current(Fn, use, stk'[x][Len(stk'[x])], Top.bb, x, pos + 1)
  <2>1. CASE x = v
    <3>1. stk'[x] = Append(stk[x], new) /\ stk[x] \in Seq(Value)
      BY <1>1, <1>2, <2>1
    <3>2. stk'[x][Len(stk'[x])] = new
      BY <3>1
    <3> QED
      BY <1>5, <2>1, <3>2
  <2>2. CASE x # v
    <3>1. stk'[x] = stk[x]
      BY <1>1, <1>2, <2>2
    <3>2. Current(Fn, use, stk[x][Len(stk[x])], Top.bb, x, pos)
      BY <1>1, <1>2, <1>6, <3>1 DEF StacksCurrent
    <3>3. ASSUME NEW i, StoreAt(Fn, Top.bb, i, x) PROVE i < pos <=> i < pos + 1
      <4>1. IsStore(Top.bb, i) /\ i \in Nat /\ code[Top.bb][i].lval = x
        BY <1>2, <3>3, FnFacts DEF IsStore
      <4>2. i # pos
        BY <1>1, <2>2, <4>1
      <4> QED
        BY <1>2, <4>1, <4>2
    <3> QED
      BY <3>1, <3>2, <3>3, SameBetween
  <2> QED
    BY <2>1, <2>2
<1>7. use \in [Loads -> Name] /\ old = <<"load", Top.bb, pos>>
  BY <1>2 DEF UseCurrent, old
<1>8. use' = use
  BY <1>1
<1> QED
  BY <1>1, <1>4, <1>6, <1>7, <1>8, StepOne

\* The phis of the successors get the current values at the end of the block.
LEMMA FillCurrent == ASSUME MInv, SSAInv, Renaming, FillPhis PROVE Renaming'
<1> DEFINE e == EndOf(Fn, Top.bb)
           pair(v) == [val |-> stk[v][Len(stk[v])], bb |-> Top.bb]
<1>1. /\ pc = "instr" /\ pos > Len(code[Top.bb]) /\ pc' = "kids"
      /\ UNCHANGED <<input_vars, frames, stk, use, wait, erased, phi>>
      /\ \A f \in PhisToFill : stk[f[2]] # <<>>
      /\ args' = [b \in Block |-> [v \in Promoted |->
           IF <<b, v>> \in PhisToFill THEN Append(args[b][v], pair(v)) ELSE args[b][v]]]
  BY DEF FillPhis, AtEnd, place_vars
<1>2. /\ InputInv /\ UseCurrent /\ GoneInv /\ StacksCurrent /\ ArgsCurrent /\ pos \in Nat
      /\ Top.bb \in Block /\ stk \in [Promoted -> Seq(Value)] /\ known \subseteq Promoted
      /\ args \in [Block -> [Promoted -> Seq([val : Value, bb : Block])]]
  BY <1>1, TopWay DEF MInv, Renaming, TypeOK, ShapeInv
<1>3. /\ g' = g /\ Block' = Block /\ Loads' = Loads /\ code' = code /\ Fn' = Fn
      /\ kids' = kids /\ Name' = Name /\ Top' = Top
  BY <1>1, SameInput, SameFn DEF Top
<1>4. /\ \A b : Through(b)' <=> Through(b) \/ b = Top.bb
      /\ \A b \in Block : \A i \in DOMAIN code[b] : Passed(b, i)' <=> Passed(b, i)
  BY PassBlock
<1>5. /\ \A v, d : Giver(Fn, d, Top.bb, v, e) => Giver(Fn, d, Top.bb, v, pos)
      /\ \A v, w : Current(Fn, use, w, Top.bb, v, pos) =>
                   Current(Fn, use, w, Top.bb, v, e)
  <2>1. \A i \in DOMAIN Fn.code[Top.bb] : i < pos /\ i < e
    <3>1. /\ DOMAIN Fn.code[Top.bb] = 1..Len(code[Top.bb]) /\ Len(code[Top.bb]) \in Nat
          /\ e = Len(code[Top.bb]) + 1
      BY <1>2, FnFacts
    <3> QED
      BY <1>1, <1>2, <3>1
  <2> HIDE DEF e
  <2> QED
    BY <2>1, SameBetween
<1>6. \A v \in Promoted : Len(stk[v]) > 0 =>
        Current(Fn, use, stk[v][Len(stk[v])], Top.bb, v, e)
  BY <1>1, <1>2, <1>5 DEF StacksCurrent
<1> HIDE DEF e, pair
<1>7. UseCurrent'
  <2>1. \A l \in Loads : l[2] \in Block /\ l[3] \in DOMAIN code[l[2]]
    BY LoadsFacts DEF IsLoad
  <2>2. \A l \in Loads : Passed(l[2], l[3])' <=> Passed(l[2], l[3])
    BY <1>4, <2>1
  <2>3. use' = use /\ wait' = wait /\ erased' = erased
    BY <1>1
  <2> QED
    BY <1>2, <1>3, <2>2, <2>3 DEF UseCurrent
<1>8. GoneInv'
  <2>1. wait' = wait /\ erased' = erased /\ frames' = frames /\ pc' # "instr"
    BY <1>1
  <2> QED
    BY <1>2, <1>3, <2>1 DEF GoneInv
<1>9. StacksCurrent'
  <2>1. frames' = frames /\ stk' = stk /\ use' = use /\ pc' = "kids"
    BY <1>1
  <2> QED
    BY <1>2, <1>3, <1>6, <2>1 DEF StacksCurrent, e
<1>10. ASSUME NEW b \in Block, NEW v \in Promoted
       PROVE  /\ \A k \in DOMAIN args'[b][v] :
                   LET a == args'[b][v][k] IN
                     Current(Fn, use, a.val, a.bb, v, EndOf(Fn, a.bb))
              /\ \A p \in Block :
                   b \in g[p] /\ v \in phi[b] /\ Through(p)'
                     /\ (\E d \in Block : Giver(Fn, d, p, v, EndOf(Fn, p)))
                   => \E k \in DOMAIN args'[b][v] : args'[b][v][k].bb = p
  <2> DEFINE s == args[b][v]
             t == args'[b][v]
  <2>1. t = IF <<b, v>> \in PhisToFill THEN Append(s, pair(v)) ELSE s
    BY <1>1
  <2>2. /\ \A k \in DOMAIN s : Current(Fn, use, s[k].val, s[k].bb, v, EndOf(Fn, s[k].bb))
        /\ \A p \in Block :
             b \in g[p] /\ v \in phi[b] /\ Through(p)
               /\ (\E d \in Block : Giver(Fn, d, p, v, EndOf(Fn, p)))
             => \E k \in DOMAIN s : s[k].bb = p
    BY <1>2 DEF ArgsCurrent
  <2>3. s \in Seq([val : Value, bb : Block])
    BY <1>2
  <2> HIDE DEF s, t
  <2>4. CASE <<b, v>> \in PhisToFill
    <3>1. stk[v] # <<>>
      <4>1. stk[<<b, v>>[2]] # <<>>
        BY <1>1, <2>4
      <4> QED
        BY <4>1
    <3>2. Current(Fn, use, stk[v][Len(stk[v])], Top.bb, v, e)
      BY <1>2, <1>6, <3>1
    <3>3. pair(v).val = stk[v][Len(stk[v])] /\ pair(v).bb = Top.bb
      BY DEF pair
    <3>4. /\ Len(s) \in Nat /\ DOMAIN s = 1..Len(s) /\ DOMAIN t = 1..(Len(s) + 1)
          /\ t[Len(s) + 1] = pair(v) /\ \A k \in DOMAIN s : t[k] = s[k]
      BY <2>1, <2>3, <2>4, Appended
    <3>5. \A k \in DOMAIN t : k \in DOMAIN s \/ k = Len(s) + 1
      BY <3>4
    <3>6. DOMAIN s \subseteq DOMAIN t /\ Len(s) + 1 \in DOMAIN t
      BY <3>4
    <3>7. \A k \in DOMAIN t : Current(Fn, use, t[k].val, t[k].bb, v, EndOf(Fn, t[k].bb))
      BY <2>2, <3>2, <3>3, <3>4, <3>5 DEF e
    <3>8. ASSUME NEW p \in Block, b \in g[p], v \in phi[b], Through(p)',
                 \E d \in Block : Giver(Fn, d, p, v, EndOf(Fn, p))
          PROVE  \E k \in DOMAIN t : t[k].bb = p
      <4>1. CASE p = Top.bb
        BY <3>3, <3>4, <3>6, <4>1
      <4>2. CASE Through(p)
        BY <2>2, <3>4, <3>6, <3>8, <4>2
      <4> QED
        BY <1>4, <3>8, <4>1, <4>2
    <3> QED
      BY <3>7, <3>8 DEF t
  <2>5. CASE <<b, v>> \notin PhisToFill
    <3>1. t = s
      BY <2>1, <2>5
    <3>2. ASSUME b \in g[Top.bb], v \in phi[b], NEW d \in Block,
                 Giver(Fn, d, Top.bb, v, EndOf(Fn, Top.bb))
          PROVE  FALSE
      <4>1. v \in known
        BY <1>1, <1>5, <3>2, GiverOnStack DEF e
      <4> QED
        BY <2>5, <3>2, <4>1 DEF PhisToFill
    <3> QED
      BY <1>4, <2>2, <3>1, <3>2 DEF t
  <2> QED
    BY <2>4, <2>5
<1>11. ArgsCurrent'
  <2>1. use' = use /\ phi' = phi
    BY <1>1
  <2> QED
    BY <1>3, <1>10, <2>1 DEF ArgsCurrent
<1> QED
  BY <1>7, <1>8, <1>9, <1>11 DEF Renaming

\* A block starts with the current values of its parent in the dominator tree
\* and its phis.
LEMMA CallCurrent ==
  ASSUME MInv, SSAInv, Renaming, NEW c \in Block, Recurse(c) PROVE Renaming'
<1> DEFINE L == Len(frames)
<1>1. /\ pc = "kids" /\ pc' = "instr" /\ pos' = 1
      /\ UNCHANGED <<input_vars, phi, use, args, wait, erased>>
      /\ stk' = [v \in Promoted |-> IF v \in phi[c] THEN Append(stk[v], <<"phi", c, v>>)
                                    ELSE stk[v]]
  BY DEF Recurse, Enter, place_vars, ssa_vars
<1>2. /\ InputInv /\ UseCurrent /\ GoneInv /\ StacksCurrent /\ ArgsCurrent
      /\ stk \in [Promoted -> Seq(Value)] /\ phi \in [Block -> SUBSET Promoted]
      /\ L \in Nat \ {0} /\ Top = frames[L] /\ Top.bb \in Block
  BY <1>1, TopWay DEF MInv, Renaming, TypeOK, ShapeInv
<1>3. /\ g' = g /\ Block' = Block /\ Loads' = Loads /\ code' = code /\ Fn' = Fn
      /\ kids' = kids /\ Name' = Name
  BY <1>1, SameInput, SameFn
<1>4. /\ \A b : Through(b)' <=> Through(b)
      /\ \A b \in Block : \A i \in DOMAIN code[b] : Passed(b, i)' <=> Passed(b, i)
      /\ Top'.bb = c
  BY PassNone
<1>5. /\ Len(frames') = L + 1
      /\ \A k \in 1..L : /\ frames'[k].bb = frames[k].bb
                         /\ frames'[k].saved = frames[k].saved
      /\ frames'[L + 1].bb = c /\ frames'[L + 1].kids = kids[c]
      /\ frames'[L + 1].saved = stk
      /\ c \in frames[L].kids
  BY CallFrames DEF MInv, ShapeInv
<1>6. /\ c \in ChildrenIn(g, Top.bb) /\ c \in ReachableIn(g)
  <2>1. c \in kids[Top.bb]
    <3>1. L \in 1..L
      BY <1>2
    <3> QED
      BY <1>2, <1>5, <3>1 DEF MInv, PathInv
  <2> QED
    BY <1>2, <2>1, InputFacts, ChildFacts
<1>7. \A v \in Promoted : Len(stk[v]) > 0 =>
        Current(Fn, use, stk[v][Len(stk[v])], Top.bb, v, EndOf(Fn, Top.bb))
  BY <1>1, <1>2 DEF StacksCurrent
<1>8. IsFn(Fn) /\ Fn.succ = g /\ Fn.phi = phi
  BY <1>2, FnFacts
<1>9. ASSUME NEW v \in Promoted, Len(stk'[v]) > 0
      PROVE  Current(Fn, use, stk'[v][Len(stk'[v])], c, v, 1)
  <2>1. CASE v \in phi[c]
    <3>1. stk'[v] = Append(stk[v], <<"phi", c, v>>) /\ stk[v] \in Seq(Value)
      BY <1>1, <1>2, <2>1
    <3>2. stk'[v][Len(stk'[v])] = <<"phi", c, v>>
      BY <3>1, LastAppended
    <3> QED
      BY <1>6, <1>8, <2>1, <3>2, PhiCurrent
  <2>2. CASE v \notin phi[c]
    <3>1. stk'[v] = stk[v]
      BY <1>1, <2>2
    <3> QED
      BY <1>6, <1>7, <1>8, <1>9, <2>2, <3>1, ChildCurrent
  <2> QED
    BY <2>1, <2>2
<1>10. UseCurrent'
  <2>1. \A l \in Loads : l[2] \in Block /\ l[3] \in DOMAIN code[l[2]]
    BY LoadsFacts DEF IsLoad
  <2>2. \A l \in Loads : Passed(l[2], l[3])' <=> Passed(l[2], l[3])
    BY <1>4, <2>1
  <2>3. use' = use /\ wait' = wait /\ erased' = erased
    BY <1>1
  <2> QED
    BY <1>2, <1>3, <2>2, <2>3 DEF UseCurrent
<1>11. GoneInv'
  <2>1. wait' = wait /\ erased' = erased
    BY <1>1
  <2>2. 1..L \subseteq 1..(L + 1)
    BY <1>2
  <2>3. Top' = frames'[L + 1]
    BY <1>5 DEF Top
  <2>4. \A w \in wait : \E k \in 1..Len(frames') : frames'[k].bb = w[1]
    BY <1>2, <1>5, <2>2 DEF GoneInv
  <2>5. \A w \in wait \cup erased : code[w[1]][w[2]].lval \in Promoted
    BY <1>2 DEF GoneInv
  <2> QED
    BY <1>3, <1>4, <1>5, <2>1, <2>3, <2>4, <2>5 DEF GoneInv
<1>12. ASSUME NEW k \in 1..(L + 1), NEW v \in Promoted, Len(frames'[k].saved[v]) > 0
       PROVE  k > 1 /\ Current(Fn, use, frames'[k].saved[v][Len(frames'[k].saved[v])],
                               frames'[k - 1].bb, v, EndOf(Fn, frames'[k - 1].bb))
  <2>1. CASE k = L + 1
    <3>1. k > 1 /\ k - 1 = L /\ L \in 1..L
      BY <1>2, <2>1
    <3>2. frames'[k - 1].bb = Top.bb /\ frames'[k].saved = stk
      BY <1>2, <1>5, <2>1, <3>1
    <3> QED
      BY <1>7, <1>12, <3>1, <3>2
  <2>2. CASE k # L + 1
    <3>1. k \in 1..L /\ (k > 1 => k - 1 \in 1..L)
      BY <1>2, <2>2
    <3>2. frames'[k].saved = frames[k].saved
      BY <1>5, <3>1
    <3>3. k > 1 /\ Current(Fn, use, frames[k].saved[v][Len(frames[k].saved[v])],
                           frames[k - 1].bb, v, EndOf(Fn, frames[k - 1].bb))
      BY <1>2, <1>12, <3>1, <3>2 DEF StacksCurrent
    <3>4. frames'[k - 1].bb = frames[k - 1].bb
      BY <1>5, <3>1, <3>3
    <3> QED
      BY <3>2, <3>3, <3>4
  <2> QED
    BY <2>1, <2>2
<1>13. StacksCurrent'
  <2>1. use' = use /\ pc' = "instr" /\ pos' = 1
    BY <1>1
  <2> QED
    BY <1>3, <1>4, <1>5, <1>9, <1>12, <2>1 DEF StacksCurrent
<1>14. ArgsCurrent'
  <2>1. use' = use /\ args' = args /\ phi' = phi
    BY <1>1
  <2> QED
    BY <1>2, <1>3, <1>4, <2>1 DEF ArgsCurrent
<1> QED
  BY <1>10, <1>11, <1>13, <1>14 DEF Renaming

\* In the entry block only the phis have values.
LEMMA StartCurrent == ASSUME MInv, SSAInv, Renaming, StartRename PROVE Renaming'
<1>1. /\ pc = "vars" /\ pc' = "instr" /\ pos' = 1
      /\ UNCHANGED <<input_vars, phi, use, args, wait, erased>>
      /\ stk' = [v \in Promoted |-> IF v \in phi[Entry]
                                    THEN Append(stk[v], <<"phi", Entry, v>>) ELSE stk[v]]
  BY DEF StartRename, Enter, place_vars, ssa_vars
<1>2. /\ InputInv /\ UseCurrent /\ GoneInv /\ Entry \in Block /\ Entry \in ReachableIn(g)
      /\ stk \in [Promoted -> Seq(Value)] /\ frames = <<>>
      /\ \A v \in Promoted : stk[v] = <<>>
  BY <1>1, InputFacts, ReachFacts DEF MInv, Renaming, TypeOK, PhaseInv
<1>3. /\ g' = g /\ Block' = Block /\ Loads' = Loads /\ code' = code /\ Fn' = Fn
      /\ kids' = kids /\ Name' = Name
  BY <1>1, SameInput, SameFn
<1>4. /\ \A b : ~Through(b)'
      /\ \A b \in Block : \A i \in DOMAIN code[b] : ~Passed(b, i)'
      /\ Top'.bb = Entry /\ Top'.kids = kids[Entry] /\ Top'.saved = stk
      /\ Len(frames') = 1
  BY PassStart
<1>5. UseCurrent'
  <2>1. \A l \in Loads : l[2] \in Block /\ l[3] \in DOMAIN code[l[2]]
    BY LoadsFacts DEF IsLoad
  <2>2. \A l \in Loads : ~Passed(l[2], l[3])' /\ ~Passed(l[2], l[3])
    BY <1>1, <1>4, <2>1 DEF Passed, Through
  <2>3. use' = use /\ wait' = wait /\ erased' = erased
    BY <1>1
  <2> QED
    BY <1>2, <1>3, <2>2, <2>3 DEF UseCurrent
<1>6. GoneInv'
  <2>1. wait' = wait /\ erased' = erased /\ Len(frames) = 0
    BY <1>1, <1>2
  <2>2. wait = {}
    BY <1>2, <2>1 DEF GoneInv
  <2> QED
    BY <1>2, <1>3, <1>4, <2>1, <2>2 DEF GoneInv
<1>7. IsFn(Fn) /\ Fn.succ = g /\ Fn.phi = phi
  BY <1>2, FnFacts
<1>8. ASSUME NEW v \in Promoted, Len(stk'[v]) > 0
      PROVE  Current(Fn, use, stk'[v][Len(stk'[v])], Entry, v, 1)
  <2>1. v \in phi[Entry]
    BY <1>1, <1>2, <1>8
  <2>2. stk'[v] = Append(stk[v], <<"phi", Entry, v>>) /\ stk[v] \in Seq(Value)
    BY <1>1, <1>2, <2>1
  <2>3. stk'[v][Len(stk'[v])] = <<"phi", Entry, v>>
    BY <2>2, LastAppended
  <2> QED
    BY <1>2, <1>7, <2>1, <2>3, PhiCurrent
<1>9. StacksCurrent'
  <2>1. use' = use /\ pc' = "instr" /\ pos' = 1 /\ Top' = frames'[1]
    BY <1>1, <1>4 DEF Top
  <2>2. \A k \in 1..Len(frames') : k = 1
    BY <1>4
  <2>3. \A v \in Promoted : ~(Len(frames'[1].saved[v]) > 0)
    BY <1>2, <1>4, <2>1
  <2> QED
    BY <1>3, <1>4, <1>8, <2>1, <2>2, <2>3 DEF StacksCurrent
<1>10. ArgsCurrent'
  <2>1. use' = use /\ args' = args /\ phi' = phi
    BY <1>1
  <2>2. \A b \in Block : \A v \in Promoted : args[b][v] = <<>>
    BY <1>1 DEF SSAInv, ArgsInv
  <2>3. \A b \in Block : \A v \in Promoted : DOMAIN args[b][v] = {}
    BY <2>2
  <2> QED
    BY <1>3, <1>4, <2>1, <2>3 DEF ArgsCurrent
<1> QED
  BY <1>5, <1>6, <1>9, <1>10 DEF Renaming

\* The values of the caller's block are current again after a return.
LEMMA LeaveCurrent == ASSUME MInv, SSAInv, Renaming, Leave PROVE Renaming'
<1> DEFINE L == Len(frames)
<1>1. /\ pc = "kids" /\ pc' \in {"kids", "alloca"}
      /\ UNCHANGED <<input_vars, phi, use, args>>
      /\ erased' = erased \cup {w \in wait : w[1] = Top.bb}
      /\ wait' = {w \in wait : w[1] # Top.bb}
  BY DEF Leave, place_vars
<1>2. /\ UseCurrent /\ GoneInv /\ StacksCurrent /\ ArgsCurrent
      /\ L \in Nat \ {0} /\ Top = frames[L]
  BY <1>1, TopWay DEF MInv, Renaming, ShapeInv
<1>3. /\ g' = g /\ Block' = Block /\ Loads' = Loads /\ code' = code /\ Fn' = Fn
      /\ kids' = kids /\ Name' = Name
  BY <1>1, SameInput, SameFn
<1>4. /\ \A b : Through(b)' <=> Through(b)
      /\ \A b, i : Passed(b, i)' <=> Passed(b, i)
      /\ Len(frames') = L - 1
      /\ \A k \in 1..(L - 1) : frames'[k] = frames[k]
      /\ pc' = "kids" => L > 1 /\ Top' = frames[L - 1]
  BY PassReturn
<1>5. stk' = Top.saved
  BY LeavePops DEF MInv, ShapeInv
<1>6. /\ wait' \cup erased' = wait \cup erased /\ use' = use /\ args' = args /\ phi' = phi
      /\ pc' # "instr"
  BY <1>1
<1>7. UseCurrent'
  BY <1>2, <1>3, <1>4, <1>6 DEF UseCurrent
<1>8. GoneInv'
  <2>1. ASSUME NEW w \in wait' PROVE \E k \in 1..(L - 1) : frames[k].bb = w[1]
    <3>1. w \in wait /\ w[1] # Top.bb
      BY <1>1, <2>1
    <3>2. PICK k \in 1..L : frames[k].bb = w[1]
      BY <1>2, <3>1 DEF GoneInv
    <3>3. k \in 1..(L - 1)
      BY <1>2, <3>1, <3>2
    <3> QED
      BY <3>2, <3>3
  <2> QED
    BY <1>2, <1>3, <1>4, <1>6, <2>1 DEF GoneInv
<1>9. \A k \in 1..L : \A v \in Promoted : Len(frames[k].saved[v]) > 0 =>
        k > 1 /\ Current(Fn, use, frames[k].saved[v][Len(frames[k].saved[v])],
                         frames[k - 1].bb, v, EndOf(Fn, frames[k - 1].bb))
  BY <1>2 DEF StacksCurrent
<1>10. StacksCurrent'
  <2>1. \A k \in 1..(L - 1) : k \in 1..L /\ (k > 1 => k - 1 \in 1..(L - 1))
    BY <1>2
  <2>2. L \in 1..L
    BY <1>2
  <2>3. ASSUME pc' = "kids", NEW v \in Promoted, Len(stk'[v]) > 0
        PROVE  Current(Fn, use, stk'[v][Len(stk'[v])], Top'.bb, v, EndOf(Fn, Top'.bb))
    BY <1>2, <1>4, <1>5, <1>9, <2>2, <2>3
  <2>4. ASSUME NEW k \in 1..(L - 1), NEW v \in Promoted, Len(frames'[k].saved[v]) > 0
        PROVE  k > 1 /\ Current(Fn, use, frames'[k].saved[v][Len(frames'[k].saved[v])],
                                frames'[k - 1].bb, v, EndOf(Fn, frames'[k - 1].bb))
    <3>1. frames'[k] = frames[k] /\ k \in 1..L
      BY <1>4, <2>1
    <3>2. k > 1
      BY <1>9, <2>4, <3>1
    <3>3. frames'[k - 1] = frames[k - 1]
      BY <1>4, <2>1, <3>2
    <3> QED
      BY <1>9, <2>4, <3>1, <3>3
  <2> QED
    BY <1>3, <1>4, <1>6, <2>3, <2>4 DEF StacksCurrent
<1>11. ArgsCurrent'
  BY <1>2, <1>3, <1>4, <1>6 DEF ArgsCurrent
<1> QED
  BY <1>7, <1>8, <1>10, <1>11 DEF Renaming

\* While the phis are placed nothing is renamed.
LEMMA PlaceCurrent ==
  ASSUME MInv, SSAInv, Renaming, (\E v \in Promoted : PickVar(v)) \/ PlacePhis \/ NextVar
  PROVE  Renaming'
<1>1. /\ pc \in {"vars", "work"} /\ pc' \in {"vars", "work"}
      /\ UNCHANGED <<input_vars, frames, stk, use, args, wait, erased>>
  BY DEF PickVar, PlacePhis, NextVar, ssa_vars
<1>2. /\ UseCurrent /\ GoneInv /\ frames = <<>>
      /\ \A v \in Promoted : stk[v] = <<>>
  BY <1>1 DEF MInv, Renaming, PhaseInv
<1>3. /\ Block' = Block /\ Loads' = Loads /\ code' = code /\ Name' = Name
  BY <1>1, SameInput, SameFn
<1>4. /\ \A b : ~Through(b) /\ ~Through(b)'
      /\ \A b, i : ~Passed(b, i) /\ ~Passed(b, i)'
  BY <1>1 DEF Passed, Through
<1>5. /\ use' = use /\ args' = args /\ wait' = wait /\ erased' = erased /\ stk' = stk
      /\ frames' = frames /\ pc' \notin {"instr", "kids"}
  BY <1>1
<1>6. UseCurrent'
  BY <1>2, <1>3, <1>4, <1>5 DEF UseCurrent
<1>7. GoneInv'
  BY <1>2, <1>3, <1>5 DEF GoneInv
<1>8. StacksCurrent'
  <2>1. Len(frames') = 0
    BY <1>2, <1>5
  <2>2. 1..Len(frames') = {}
    BY <2>1
  <2> QED
    BY <1>5, <2>2 DEF StacksCurrent
<1>9. ArgsCurrent'
  <2>1. \A b \in Block : \A v \in Promoted : args[b][v] = <<>>
    BY <1>1 DEF SSAInv, ArgsInv
  <2>2. \A b \in Block : \A v \in Promoted : DOMAIN args[b][v] = {}
    BY <2>1
  <2> QED
    BY <1>3, <1>4, <1>5, <2>2 DEF ArgsCurrent
<1> QED
  BY <1>6, <1>7, <1>8, <1>9 DEF Renaming

\* Removing the allocas changes no operand.
LEMMA AllocaCurrent ==
  ASSUME MInv, Renaming, RemoveAlloca \/ UNCHANGED vars
  PROVE  Renaming'
<1>1. /\ UNCHANGED <<input_vars, phi, frames, pos, stk, use, args, wait, erased>>
      /\ \/ pc = "alloca" /\ pc' = "done"
         \/ pc' = pc
  BY DEF RemoveAlloca, vars, place_vars, ssa_vars
<1>2. /\ UseCurrent /\ GoneInv /\ StacksCurrent /\ ArgsCurrent
  BY DEF Renaming
<1>3. /\ g' = g /\ Block' = Block /\ Loads' = Loads /\ code' = code /\ Fn' = Fn
      /\ kids' = kids /\ Name' = Name /\ Top' = Top /\ Ahead' = Ahead
  BY <1>1, SameInput, SameFn DEF Top, Ahead
<1>4. /\ pc' = "instr" <=> pc = "instr"
      /\ pc' = "kids" <=> pc = "kids"
      /\ pc' \in {"vars", "work"} <=> pc \in {"vars", "work"}
  BY <1>1
<1>5. \A b : Through(b)' <=> Through(b)
  BY <1>3, <1>4 DEF Through
<1>6. \A b, i : Passed(b, i)' <=> Passed(b, i)
  BY <1>1, <1>3, <1>4, <1>5 DEF Passed
<1>7. UseCurrent'
  BY <1>1, <1>2, <1>3, <1>6 DEF UseCurrent
<1>8. GoneInv'
  BY <1>1, <1>2, <1>3, <1>4 DEF GoneInv
<1>9. StacksCurrent'
  BY <1>1, <1>2, <1>3, <1>4 DEF StacksCurrent
<1>10. ArgsCurrent'
  BY <1>1, <1>2, <1>3, <1>5 DEF ArgsCurrent
<1> QED
  BY <1>7, <1>8, <1>9, <1>10 DEF Renaming

\* The current values are kept by every step of the pass.
LEMMA StepCurrent == ASSUME MInv, SSAInv, CInv, [Next]_vars PROVE CInv'
<1> SUFFICES ASSUME pc' \notin {"abort", "crash"} PROVE Renaming'
  BY DEF CInv
<1>1. pc \notin {"abort", "crash"}
  BY DEF Next, PickVar, PlacePhis, NextVar, StartRename, Enter, KeepLoad, ReplaceLoad,
         BackOfEmpty, KeepStore, PushStore, FillPhis, AssertFails, Recurse, Leave,
         RemoveAlloca, AtLoad, AtStore, AtEnd, vars
<1>2. Renaming
  BY <1>1 DEF CInv
<1>3. ~BackOfEmpty /\ ~AssertFails
  BY DEF BackOfEmpty, AssertFails
<1> QED
  BY <1>2, <1>3, PlaceCurrent, StartCurrent, KeepCurrent, ReplaceCurrent, PushCurrent,
     FillCurrent, CallCurrent, LeaveCurrent, AllocaCurrent DEF Next

\* At the start no load has another operand than itself.
LEMMA InitCurrent == Init => CInv
<1> SUFFICES ASSUME Init PROVE Renaming
  BY DEF CInv
<1>1. /\ pc = "vars" /\ use = [l \in Loads |-> l] /\ wait = {} /\ erased = {}
      /\ frames = <<>> /\ args = [b \in Block |-> [v \in Promoted |-> <<>>]]
      /\ stk = [v \in Promoted |-> <<>>]
  BY DEF Init
<1>2. /\ \A b : ~Through(b)
      /\ \A b, i : ~Passed(b, i)
  BY <1>1 DEF Passed, Through
<1>3. UseCurrent
  BY <1>1, <1>2 DEF UseCurrent, Name
<1>4. GoneInv
  BY <1>1 DEF GoneInv
<1>5. StacksCurrent
  <2>1. 1..Len(frames) = {}
    BY <1>1
  <2> QED
    BY <1>1, <2>1 DEF StacksCurrent
<1>6. ArgsCurrent
  <2>1. \A b \in Block : \A v \in Promoted : DOMAIN args[b][v] = {}
    BY <1>1
  <2> QED
    BY <1>2, <2>1 DEF ArgsCurrent
<1> QED
  BY <1>3, <1>4, <1>5, <1>6 DEF Renaming

-----------------------------------------------------------------------------
(***************************************************************************)
(* The executions agree.                                                   *)
(***************************************************************************)

\* When the pass is done every load of a reachable block has the current
\* value of its variable, or stays, and every phi has the current values at
\* the ends of the predecessors.
LEMMA DoneFacts ==
  ASSUME MInv, SSAInv, CInv, pc = "done"
  PROVE  /\ InputInv /\ UseInv /\ use \in [Loads -> Name]
         /\ phi \in [Block -> SUBSET Promoted]
         /\ \A w \in erased : code[w[1]][w[2]].lval \in Promoted
         /\ \A l \in Loads : l[2] \in ReachableIn(g) =>
              IF <<l[2], l[3]>> \in erased
              THEN Current(Fn, use, use[l], l[2], code[l[2]][l[3]].lval, l[3])
              ELSE /\ use[l] = l
                   /\ code[l[2]][l[3]].lval \in Promoted =>
                        \A d \in Block : ~Giver(Fn, d, l[2], code[l[2]][l[3]].lval, l[3])
         /\ \A b \in Block : \A v \in Promoted :
              /\ \A k \in DOMAIN args[b][v] :
                   /\ args[b][v][k].bb \in Block
                   /\ Current(Fn, use, args[b][v][k].val, args[b][v][k].bb, v,
                              EndOf(Fn, args[b][v][k].bb))
              /\ \A p \in ReachableIn(g) :
                   b \in g[p] /\ v \in phi[b]
                     /\ (\E d \in Block : Giver(Fn, d, p, v, EndOf(Fn, p)))
                   => \E k \in DOMAIN args[b][v] : args[b][v][k].bb = p
         /\ \A v \in Promoted : PhisPlaced(Fn, v)
<1>1. /\ InputInv /\ UseInv /\ phi \in [Block -> SUBSET Promoted]
      /\ UseCurrent /\ GoneInv /\ ArgsCurrent
      /\ frames = <<>> /\ todo = {}
  BY DEF MInv, SSAInv, TypeOK, CInv, Renaming, PhaseInv
<1>2. 1..Len(frames) = {}
  BY <1>1
<1>3. wait = {} /\ Ahead = {}
  BY <1>1, <1>2 DEF GoneInv, Ahead
<1>4. \A b \in ReachableIn(g) : Through(b)
  BY <1>3 DEF Through
<1>5. \A b \in ReachableIn(g) : \A i : Passed(b, i)
  BY <1>4 DEF Passed
<1>6. wait \cup erased = erased /\ ReachableIn(g) \subseteq Block
  BY <1>1, <1>3, InputFacts
<1>7. \A b \in Block : \A v \in Promoted : \A k \in DOMAIN args[b][v] :
        args[b][v][k].bb \in Block
  <2>1. \A b \in Block : \A v \in Promoted : \A k \in DOMAIN args[b][v] :
          args[b][v][k].bb \in PredIn(g, b)
    BY DEF SSAInv, ArgsInv, ArgsOK
  <2> QED
    BY <1>1, <2>1, InputFacts DEF PredIn
<1>8. \A v \in Promoted : PhisPlaced(Fn, v)
  <2> SUFFICES ASSUME NEW v \in Promoted, NEW d \in Block, Gives(Fn, d, v, EndOf(Fn, d)),
                      NEW y \in FrontierIn(g, d)
               PROVE  v \in phi[y]
    BY <1>1, FnFacts DEF PhisPlaced
  <2>1. Defines(d, v)
    <3>1. v \in Fn.phi[d] \/ \E i \in DOMAIN Fn.code[d] : StoreAt(Fn, d, i, v)
      BY DEF Gives
    <3> QED
      BY <1>1, <3>1, FnFacts DEF Defines, StoreBlocks
  <2>2. y \in df[d]
    BY <1>1, InputFacts
  <2> QED
    BY <1>1, <2>1, <2>2 DEF MInv, PhiInv
<1>9. use \in [Loads -> Name] /\ \A w \in erased : code[w[1]][w[2]].lval \in Promoted
  BY <1>1, <1>6 DEF UseCurrent, GoneInv
<1>10. \A l \in Loads : l[2] \in ReachableIn(g) =>
         IF <<l[2], l[3]>> \in erased
         THEN Current(Fn, use, use[l], l[2], code[l[2]][l[3]].lval, l[3])
         ELSE /\ use[l] = l
              /\ code[l[2]][l[3]].lval \in Promoted =>
                   \A d \in Block : ~Giver(Fn, d, l[2], code[l[2]][l[3]].lval, l[3])
  BY <1>1, <1>5, <1>6 DEF UseCurrent
<1>11. \A b \in Block : \A v \in Promoted :
         /\ \A k \in DOMAIN args[b][v] :
              Current(Fn, use, args[b][v][k].val, args[b][v][k].bb, v,
                      EndOf(Fn, args[b][v][k].bb))
         /\ \A p \in ReachableIn(g) :
              b \in g[p] /\ v \in phi[b]
                /\ (\E d \in Block : Giver(Fn, d, p, v, EndOf(Fn, p)))
              => \E k \in DOMAIN args[b][v] : args[b][v][k].bb = p
  BY <1>1, <1>4, <1>6 DEF ArgsCurrent
<1> QED
  BY <1>1, <1>7, <1>8, <1>9, <1>10, <1>11

\* The operands have integer values.
LEMMA EvalFacts ==
  ASSUME InputInv, RunType
  PROVE  /\ \A w \in Name : Eval2(w) \in Int
         /\ \A b \in Block : \A i : IsStore(b, i) => Eval(code[b][i].rval) \in Int
<1>1. \A w \in Name : Eval2(w) \in Int
  <2> SUFFICES ASSUME NEW w \in Name PROVE Eval2(w) \in Int
    OBVIOUS
  <2>1. w \in Value /\ (w[1] # "const" => w \in Loads \cup Phis)
    BY NameFacts
  <2>2. w[2] \in Int
    BY <2>1 DEF Value
  <2> QED
    BY <2>1, <2>2 DEF Eval2, RunType
<1>2. ASSUME NEW b \in Block, NEW i, IsStore(b, i) PROVE Eval(code[b][i].rval) \in Int
  <2> DEFINE r == code[b][i].rval
  <2>1. /\ r \in Value
        /\ r[1] # "load" => r[1] = "const"
        /\ r[1] = "load" => r \in Loads
    BY <1>2, StoredFacts
  <2> HIDE DEF r
  <2>2. r[2] \in Int
    BY <2>1 DEF Value
  <2>3. Eval(r) \in Int
    BY <2>1, <2>2 DEF Eval, RunType
  <2> QED
    BY <2>3 DEF r
<1> QED
  BY <1>1, <1>2

\* Entering a block changes the phis of that block only.
LEMMA EnterFacts ==
  ASSUME MInv, SSAInv, CInv, pc = "done", RunType, NEW b \in Block, NEW p,
         EnterBlock(b, p)
  PROVE  /\ RunType'
         /\ \A w \in Name : w[1] = "const" \/ w[2] # b \/ w[1] # "phi" =>
              Eval2(w)' = Eval2(w)
         /\ \A v \in phi[b] : Eval2(<<"phi", b, v>>)' = PhiValue(b, v, p)
<1>1. /\ UNCHANGED vars /\ mem' = mem /\ val' = val /\ mem2' = mem2
      /\ val2' = [d \in DOMAIN val2 |->
                    IF d[1] = "phi" /\ d[2] = b /\ d[3] \in phi[b]
                    THEN PhiValue(b, d[3], p) ELSE val2[d]]
  BY DEF EnterBlock
<1>2. /\ Loads' = Loads /\ Phis' = Phis
  BY <1>1, SameInput, SameFn DEF vars
<1>3. val2 \in [Loads \cup Phis -> Int] /\ mem \in [Var -> Int] /\ mem2 \in [Var -> Int]
      /\ val \in [Loads -> Int]
  BY DEF RunType
<1>4. /\ InputInv /\ UseInv /\ use \in [Loads -> Name]
      /\ phi \in [Block -> SUBSET Promoted]
      /\ \A x \in Block : \A v \in Promoted : \A k \in DOMAIN args[x][v] :
           /\ args[x][v][k].bb \in Block
           /\ Current(Fn, use, args[x][v][k].val, args[x][v][k].bb, v,
                      EndOf(Fn, args[x][v][k].bb))
  BY DoneFacts
<1>5. \A x \in Block : \A v \in Promoted : \A k \in DOMAIN args[x][v] :
        args[x][v][k].val \in Name
  BY <1>4, CurrentFacts, FnFacts
<1>6. \A v \in phi[b] : PhiValue(b, v, p) \in Int
  <2> SUFFICES ASSUME NEW v \in phi[b] PROVE PhiValue(b, v, p) \in Int
    OBVIOUS
  <2> DEFINE from == {k \in DOMAIN args[b][v] : args[b][v][k].bb = p}
  <2>1. \A k \in from : Eval2(args[b][v][k].val) \in Int
    BY <1>4, <1>5, EvalFacts
  <2>2. Undef \in Int
    BY DEF Undef
  <2>3. PhiValue(b, v, p) = IF from = {} THEN Undef
                            ELSE Eval2(args[b][v][CHOOSE k \in from : TRUE].val)
    BY DEF PhiValue
  <2> HIDE DEF from
  <2>4. from # {} => (CHOOSE k \in from : TRUE) \in from
    OBVIOUS
  <2> QED
    BY <2>1, <2>2, <2>3, <2>4
<1>7. val2' \in [Loads \cup Phis -> Int]
  BY <1>1, <1>3, <1>6
<1>8. RunType'
  BY <1>1, <1>2, <1>3, <1>7 DEF RunType
<1>9. ASSUME NEW w \in Name, w[1] = "const" \/ w[2] # b \/ w[1] # "phi"
      PROVE  Eval2(w)' = Eval2(w)
  <2>1. w[1] # "const" => w \in Loads \cup Phis
    BY <1>4, NameFacts
  <2>2. w[1] # "const" => val2'[w] = val2[w]
    BY <1>1, <1>3, <1>9, <2>1
  <2> QED
    BY <2>2 DEF Eval2
<1>10. ASSUME NEW v \in phi[b] PROVE Eval2(<<"phi", b, v>>)' = PhiValue(b, v, p)
  <2> DEFINE w == <<"phi", b, v>>
  <2>1. w \in Phis
    BY <1>4 DEF Phis
  <2>2. w[1] = "phi" /\ w[2] = b /\ w[3] = v
    OBVIOUS
  <2> HIDE DEF w
  <2>3. val2'[w] = PhiValue(b, v, p)
    BY <1>1, <1>3, <2>1, <2>2
  <2>4. Eval2(w)' = val2'[w]
    BY <2>2 DEF Eval2
  <2> QED
    BY <2>3, <2>4 DEF w
<1> QED
  BY <1>8, <1>9, <1>10

\* The pass runs before the function does.
LEMMA PassRun ==
  ASSUME MInv, RInv, [PassStep]_all_vars
  PROVE  RInv'
<1>1. [Next]_vars /\ UNCHANGED run_vars
  BY DEF PassStep, all_vars
<1>2. /\ at' = at /\ ep' = ep /\ mem' = mem /\ val' = val /\ mem2' = mem2 /\ val2' = val2
  BY <1>1 DEF run_vars
<1>3. UNCHANGED input_vars
  BY <1>1 DEF Next, PickVar, PlacePhis, NextVar, StartRename, KeepLoad, ReplaceLoad,
         BackOfEmpty, KeepStore, PushStore, FillPhis, AssertFails, Recurse, Leave,
         RemoveAlloca, vars
<1>4. Loads' = Loads /\ Phis' = Phis
  BY <1>3, SameInput, SameFn
<1>5. RunType' /\ IdleInv'
  BY <1>2, <1>4 DEF RInv, RunType, IdleInv
<1>6. CASE at = 0
  BY <1>2, <1>5, <1>6 DEF RInv, PlaceInv, MemAgrees, LoadsAgree
<1>7. CASE at # 0
  <2>1. pc = "done"
    BY <1>7 DEF RInv, PlaceInv
  <2>2. UNCHANGED vars
    BY <1>1, <2>1 DEF Next, PickVar, PlacePhis, NextVar, StartRename, KeepLoad,
         ReplaceLoad, BackOfEmpty, KeepStore, PushStore, FillPhis, AssertFails, Recurse,
         Leave, RemoveAlloca, AtLoad, AtStore, AtEnd
  <2>3. /\ pc' = pc /\ phi' = phi /\ use' = use /\ g' = g /\ code' = code
        /\ Block' = Block /\ Name' = Name /\ Fn' = Fn
    BY <1>3, <2>2, SameInput, SameFn DEF vars, place_vars, ssa_vars
  <2>4. PlaceInv'
    BY <1>2, <2>3 DEF RInv, PlaceInv
  <2>5. \A w : Eval2(w)' = Eval2(w)
    BY <1>2 DEF Eval2
  <2>6. MemAgrees'
    BY <1>2, <2>3, <2>5 DEF RInv, MemAgrees
  <2>7. LoadsAgree'
    BY <1>2, <1>4, <2>3, <2>5 DEF RInv, LoadsAgree
  <2> QED
    BY <1>5, <2>4, <2>6, <2>7 DEF RInv
<1> QED
  BY <1>6, <1>7

\* What a step of the execution leaves alone.
LEMMA SamePass ==
  ASSUME UNCHANGED vars
  PROVE  /\ g' = g /\ code' = code /\ phi' = phi /\ use' = use /\ pc' = pc
         /\ erased' = erased /\ args' = args
         /\ Block' = Block /\ Loads' = Loads /\ Phis' = Phis /\ Name' = Name /\ Fn' = Fn
<1>1. /\ UNCHANGED input_vars /\ phi' = phi /\ use' = use /\ pc' = pc /\ erased' = erased
      /\ args' = args
  BY DEF vars, place_vars, ssa_vars
<1> QED
  BY <1>1, SameInput, SameFn

\* At the call no variable is set.
LEMMA CallRun == ASSUME MInv, SSAInv, CInv, RInv, Call PROVE RInv'
<1>1. /\ pc = "done" /\ at = 0 /\ EnterBlock(Entry, 0) /\ at' = Entry /\ ep' = 1
      /\ UNCHANGED vars /\ mem' = mem /\ mem2' = mem2 /\ val' = val
  BY DEF Call, EnterBlock
<1>2. /\ InputInv /\ IsFlowGraph(g) /\ Entry \in Block /\ Entry \in ReachableIn(g)
  BY InputFacts, ReachFacts DEF MInv
<1>3. RunType /\ mem = Start /\ mem2 = Start /\ val = [l \in Loads |-> Undef]
  BY <1>1 DEF RInv, IdleInv
<1>4. RunType'
  BY <1>1, <1>2, <1>3, EnterFacts
<1>5. /\ g' = g /\ code' = code /\ pc' = pc
      /\ Block' = Block /\ Loads' = Loads /\ Name' = Name /\ Fn' = Fn
  BY <1>1, SamePass
<1>6. at' # 0
  BY <1>1 DEF Entry
<1>7. IdleInv'
  BY <1>6 DEF IdleInv
<1>8. PlaceInv'
  <2>1. 1 \in 1..EndOf(Fn, Entry)
    BY <1>2, FnFacts
  <2> QED
    BY <1>1, <1>2, <1>5, <2>1 DEF PlaceInv
<1>9. MemAgrees'
  <2>1. \A v \in Promoted : v \in Var /\ v \notin Outside
    BY Mem2RegAssumption DEF Promoted, Var
  <2>2. \A v \in Promoted : mem'[v] = Undef
    BY <1>1, <1>3, <2>1 DEF Start
  <2> QED
    BY <1>1, <1>3, <1>5, <2>2 DEF MemAgrees
<1>10. LoadsAgree'
  BY <1>1, <1>3, <1>5 DEF LoadsAgree
<1> QED
  BY <1>4, <1>7, <1>8, <1>9, <1>10 DEF RInv

\* Where the value of a load can be used.
Usable(gr, l, b, q) == (l[2] = b /\ l[3] < q) \/ SDomIn(gr, l[2], b)

\* LoadsAgree in these words.
LEMMA AgreeAt ==
  /\ LoadsAgree <=>
       (at # 0 => \A l \in Loads : val[l] # Undef /\ Usable(g, l, at, ep) =>
                                     Eval2(use[l]) = val[l])
  /\ LoadsAgree' <=>
       (at' # 0 => \A l \in Loads' : val'[l] # Undef /\ Usable(g', l, at', ep') =>
                                       Eval2(use[l])' = val'[l])
BY DEF LoadsAgree, Usable

\* A branch gives the phis of the block their values.
LEMMA BranchRun ==
  ASSUME MInv, SSAInv, CInv, RInv, NEW b \in Block, Branch(b) PROVE RInv'
<1>1. /\ at # 0 /\ ep > Len(code[at]) /\ b \in g[at] /\ EnterBlock(b, at)
      /\ at' = b /\ ep' = 1
      /\ UNCHANGED vars /\ mem' = mem /\ mem2' = mem2 /\ val' = val
  BY DEF Branch, EnterBlock
<1>2. pc = "done" /\ at \in ReachableIn(g) /\ ep \in 1..EndOf(Fn, at) /\ RunType
  BY <1>1 DEF RInv, PlaceInv
<1>3. /\ InputInv /\ UseInv /\ use \in [Loads -> Name]
      /\ phi \in [Block -> SUBSET Promoted]
      /\ \A v \in Promoted : PhisPlaced(Fn, v)
      /\ \A v \in Promoted :
           /\ \A k \in DOMAIN args[b][v] :
                /\ args[b][v][k].bb \in Block
                /\ Current(Fn, use, args[b][v][k].val, args[b][v][k].bb, v,
                           EndOf(Fn, args[b][v][k].bb))
           /\ v \in phi[b] /\ (\E d \in Block : Giver(Fn, d, at, v, EndOf(Fn, at)))
                => \E k \in DOMAIN args[b][v] : args[b][v][k].bb = at
  BY <1>1, <1>2, DoneFacts
<1>4. /\ IsFlowGraph(g) /\ at \in Block /\ b \in ReachableIn(g)
      /\ IsFn(Fn) /\ Fn.succ = g /\ DOMAIN Fn.succ = Block /\ Fn.phi = phi
  BY <1>1, <1>2, <1>3, InputFacts, ReachFacts, FnFacts
<1>5. ep = EndOf(Fn, at)
  <2>1. EndOf(Fn, at) = Len(code[at]) + 1 /\ Len(code[at]) \in Nat
    BY <1>3, <1>4, FnFacts
  <2> QED
    BY <1>1, <1>2, <2>1
<1>6. /\ RunType'
      /\ \A w \in Name : w[1] = "const" \/ w[2] # b \/ w[1] # "phi" =>
           Eval2(w)' = Eval2(w)
      /\ \A v \in phi[b] : Eval2(<<"phi", b, v>>)' = PhiValue(b, v, at)
  BY <1>1, <1>2, EnterFacts
<1>7. /\ g' = g /\ code' = code /\ pc' = pc /\ use' = use
      /\ Block' = Block /\ Loads' = Loads /\ Name' = Name /\ Fn' = Fn
  BY <1>1, SamePass
<1>8. ASSUME NEW v \in Promoted, mem[v] # Undef
      PROVE  /\ \E d \in Block : Giver(Fn, d, b, v, 1)
             /\ \A w \in Name : Current(Fn, use, w, b, v, 1) => Eval2(w)' = mem[v]
  <2>1. /\ \E d \in Block : Giver(Fn, d, at, v, EndOf(Fn, at))
        /\ \A w \in Name : Current(Fn, use, w, at, v, EndOf(Fn, at)) => Eval2(w) = mem[v]
    BY <1>1, <1>5, <1>8 DEF RInv, MemAgrees
  <2>2. \E d \in Block : Giver(Fn, d, b, v, 1)
    BY <1>1, <1>2, <1>3, <1>4, <2>1, BranchCurrent
  <2>3. ASSUME NEW w \in Name, Current(Fn, use, w, b, v, 1), v \in phi[b]
        PROVE  Eval2(w)' = mem[v]
    <3>1. w = <<"phi", b, v>>
      BY <1>4, <2>3, PhiCurrent
    <3> DEFINE from == {k \in DOMAIN args[b][v] : args[b][v][k].bb = at}
               k0 == CHOOSE k \in from : TRUE
    <3>2. from # {}
      BY <1>3, <2>1, <2>3
    <3>3. k0 \in from
      BY <3>2
    <3>4. PhiValue(b, v, at) = Eval2(args[b][v][k0].val)
      BY <3>2 DEF PhiValue
    <3> HIDE DEF k0
    <3>5. Current(Fn, use, args[b][v][k0].val, at, v, EndOf(Fn, at))
      BY <1>3, <3>3
    <3>6. args[b][v][k0].val \in Name
      BY <1>3, <1>4, <3>5, CurrentFacts, FnFacts
    <3> QED
      BY <1>6, <2>1, <2>3, <3>1, <3>4, <3>5, <3>6
  <2>4. ASSUME NEW w \in Name, Current(Fn, use, w, b, v, 1), v \notin phi[b]
        PROVE  Eval2(w)' = mem[v]
    <3>1. Current(Fn, use, w, at, v, EndOf(Fn, at))
      BY <1>1, <1>2, <1>3, <1>4, <2>4, BranchCurrent
    <3>2. ~Gives(Fn, b, v, 1)
      <4>1. \A j \in DOMAIN Fn.code[b] : ~(j < 1)
        BY <1>3, FnFacts
      <4> QED
        BY <1>4, <2>4, <4>1 DEF Gives
    <3>3. w[1] = "const" \/ w[2] # b
      BY <1>3, <2>4, <3>2, CurrentFacts
    <3> QED
      BY <1>6, <2>1, <3>1, <3>3
  <2> QED
    BY <2>2, <2>3, <2>4
<1>9. MemAgrees'
  <2>1. \A a \in Var \ Promoted : mem[a] # Undef => mem2[a] = mem[a]
    BY <1>1 DEF RInv, MemAgrees
  <2> QED
    BY <1>1, <1>7, <1>8, <2>1 DEF MemAgrees
<1>10. ASSUME NEW l \in Loads, val[l] # Undef, Usable(g, l, b, 1)
       PROVE  Eval2(use[l])' = val[l]
  <2>1. /\ l[2] \in Block /\ l[3] \in DOMAIN code[l[2]]
        /\ DOMAIN code[l[2]] = 1..Len(code[l[2]])
    BY <1>3, LoadsFacts, InputFacts DEF IsLoad
  <2>2. SDomIn(g, l[2], b)
    BY <1>10, <2>1 DEF Usable
  <2>3. DomIn(g, l[2], at)
    BY <1>1, <1>2, <1>4, <2>2, DomOfPred
  <2>4. Usable(g, l, at, ep)
    <3>1. CASE l[2] = at
      <4>1. l[3] < ep
        <5>1. ep = Len(code[at]) + 1 /\ Len(code[at]) \in Nat
          BY <1>3, <1>4, <1>5, FnFacts
        <5> QED
          BY <2>1, <3>1, <5>1
      <4> QED
        BY <3>1, <4>1 DEF Usable
    <3>2. CASE l[2] # at
      BY <2>3, <3>2 DEF Usable, SDomIn
    <3> QED
      BY <3>1, <3>2
  <2>5. Eval2(use[l]) = val[l]
    BY <1>1, <1>10, <2>4, AgreeAt DEF RInv
  <2>6. use[l] \in Name /\ (use[l] = l \/ Reaches(g, use[l], l[2]))
    BY <1>3 DEF UseInv
  <2>7. use[l][1] = "const" \/ use[l][2] # b
    <3>1. CASE use[l] = l
      BY <2>2, <3>1 DEF SDomIn
    <3>2. ASSUME DomIn(g, use[l][2], l[2]), use[l][2] = b PROVE FALSE
      BY <1>4, <2>2, <3>2, DomAntisymmetric DEF SDomIn
    <3> QED
      BY <2>6, <3>1, <3>2 DEF Reaches
  <2> QED
    BY <1>6, <1>7, <2>5, <2>6, <2>7
<1>11. LoadsAgree'
  <2>1. \A l : Usable(g', l, at', ep') <=> Usable(g, l, b, 1)
    BY <1>1, <1>7 DEF Usable
  <2> QED
    BY <1>1, <1>7, <1>10, <2>1, AgreeAt
<1>12. IdleInv'
  <2>1. b # 0
    BY <1>3 DEF InputInv, IsFlowGraph, Block
  <2> QED
    BY <1>1, <2>1 DEF IdleInv
<1>13. PlaceInv'
  <2>1. 1 \in 1..EndOf(Fn, b)
    BY <1>3, FnFacts
  <2> QED
    BY <1>1, <1>2, <1>4, <1>7, <2>1 DEF PlaceInv
<1> QED
  BY <1>6, <1>9, <1>11, <1>12, <1>13 DEF RInv

\* Where control is, when it is at an instruction.
LEMMA AtInstr ==
  ASSUME MInv, SSAInv, CInv, RInv, at # 0, IsLoad(at, ep) \/ IsStore(at, ep)
  PROVE  /\ pc = "done" /\ RunType /\ at \in ReachableIn(g) /\ at \in Block
         /\ ep \in DOMAIN code[at] /\ ep \in Nat /\ ep + 1 \in 1..EndOf(Fn, at)
         /\ code[at][ep].lval \in Var
         /\ IsFlowGraph(g) /\ IsFn(Fn) /\ Fn.succ = g /\ Fn.code = code
         /\ DOMAIN Fn.succ = Block
         /\ InputInv /\ UseInv /\ use \in [Loads -> Name]
         /\ phi \in [Block -> SUBSET Promoted]
<1>1. pc = "done" /\ RunType /\ at \in ReachableIn(g)
  BY DEF RInv, PlaceInv
<1>2. /\ InputInv /\ UseInv /\ use \in [Loads -> Name]
      /\ phi \in [Block -> SUBSET Promoted]
  BY <1>1, DoneFacts
<1>3. /\ IsFlowGraph(g) /\ at \in Block /\ IsFn(Fn) /\ Fn.succ = g /\ Fn.code = code
      /\ DOMAIN Fn.succ = Block
  BY <1>1, <1>2, InputFacts, FnFacts
<1>4. ep \in DOMAIN code[at] /\ code[at] \in Seq(Instr)
  BY <1>2, <1>3, InputFacts DEF IsLoad, IsStore
<1>5. /\ EndOf(Fn, at) = Len(code[at]) + 1 /\ Len(code[at]) \in Nat
      /\ DOMAIN code[at] = 1..Len(code[at])
  BY <1>2, <1>3, FnFacts
<1>6. ep \in Nat /\ ep + 1 \in 1..EndOf(Fn, at)
  BY <1>4, <1>5
<1>7. code[at][ep] \in Instr
  BY <1>4, Elements
<1>8. code[at][ep].lval \in Var
  BY <1>7 DEF Instr
<1> QED
  BY <1>1, <1>2, <1>3, <1>4, <1>6, <1>8

\* An instruction that is no store to v leaves its current value.
LEMMA NoStoreHere ==
  ASSUME InputInv, NEW b \in Block, NEW q \in Nat, NEW v,
         ~(IsStore(b, q) /\ code[b][q].lval = v)
  PROVE  /\ \A d : Giver(Fn, d, b, v, q) <=> Giver(Fn, d, b, v, q + 1)
         /\ \A u, w : Current(Fn, u, w, b, v, q + 1) => Current(Fn, u, w, b, v, q)
<1>1. ASSUME NEW i \in DOMAIN Fn.code[b], StoreAt(Fn, b, i, v) PROVE i < q + 1 <=> i < q
  <2>1. IsStore(b, i) /\ code[b][i].lval = v
    BY <1>1, FnFacts
  <2>2. i \in Nat /\ i # q
    BY <2>1, FnFacts DEF IsStore
  <2> QED
    BY <2>2
<1> QED
  BY <1>1, SameBetween

\* A load that is gone read what its operand holds, one that stays reads it.
LEMMA LoadRun == ASSUME MInv, SSAInv, CInv, RInv, ExecLoad PROVE RInv'
<1> DEFINE l0 == <<"load", at, ep>>
           a == code[at][ep].lval
<1>1. /\ at # 0 /\ IsLoad(at, ep) /\ at' = at /\ ep' = ep + 1
      /\ val' = [val EXCEPT ![l0] = mem[a]]
      /\ val2' = IF Gone THEN val2 ELSE [val2 EXCEPT ![l0] = mem2[a]]
      /\ UNCHANGED vars /\ mem' = mem /\ mem2' = mem2
  BY DEF ExecLoad
<1>2. /\ pc = "done" /\ RunType /\ at \in ReachableIn(g) /\ at \in Block
      /\ ep \in Nat /\ ep + 1 \in 1..EndOf(Fn, at) /\ a \in Var
      /\ IsFlowGraph(g)
      /\ InputInv /\ UseInv /\ use \in [Loads -> Name]
      /\ phi \in [Block -> SUBSET Promoted]
  BY <1>1, AtInstr
<1>3. /\ mem \in [Var -> Int] /\ mem2 \in [Var -> Int]
      /\ val \in [Loads -> Int] /\ val2 \in [Loads \cup Phis -> Int]
  BY <1>2 DEF RunType
<1>4. /\ g' = g /\ code' = code /\ pc' = pc /\ use' = use
      /\ Block' = Block /\ Loads' = Loads /\ Phis' = Phis /\ Name' = Name /\ Fn' = Fn
  BY <1>1, SamePass
<1>5. l0 \in Loads /\ l0[1] = "load" /\ l0[2] = at /\ l0[3] = ep
  BY <1>1, <1>2, LoadsFacts
<1>6. /\ \A v \in Promoted : mem[v] # Undef =>
           /\ \E d \in Block : Giver(Fn, d, at, v, ep)
           /\ \A w \in Name : Current(Fn, use, w, at, v, ep) => Eval2(w) = mem[v]
      /\ \A x \in Var \ Promoted : mem[x] # Undef => mem2[x] = mem[x]
  BY <1>1 DEF RInv, MemAgrees
<1>7. IF Gone
      THEN a \in Promoted /\ Current(Fn, use, use[l0], at, a, ep)
      ELSE use[l0] = l0 /\ (a \in Promoted => \A d \in Block : ~Giver(Fn, d, at, a, ep))
  <2>1. IF <<at, ep>> \in erased
        THEN Current(Fn, use, use[l0], at, a, ep)
        ELSE use[l0] = l0 /\ (a \in Promoted => \A d \in Block : ~Giver(Fn, d, at, a, ep))
    <3>1. \A l \in Loads : l[2] \in ReachableIn(g) =>
            IF <<l[2], l[3]>> \in erased
            THEN Current(Fn, use, use[l], l[2], code[l[2]][l[3]].lval, l[3])
            ELSE /\ use[l] = l
                 /\ code[l[2]][l[3]].lval \in Promoted =>
                      \A d \in Block : ~Giver(Fn, d, l[2], code[l[2]][l[3]].lval, l[3])
      BY <1>2, DoneFacts
    <3> HIDE DEF l0
    <3> QED
      BY <1>2, <1>5, <3>1
  <2>2. <<at, ep>> \in erased => a \in Promoted
    <3>1. \A w \in erased : code[w[1]][w[2]].lval \in Promoted
      BY <1>2, DoneFacts
    <3> QED
      BY <3>1
  <2> QED
    BY <2>1, <2>2 DEF Gone
<1> HIDE DEF l0, a
<1>8. RunType'
  <2>1. val' \in [Loads -> Int] /\ val2' \in [Loads \cup Phis -> Int]
    BY <1>1, <1>2, <1>3, <1>5
  <2> QED
    BY <1>1, <1>3, <1>4, <2>1 DEF RunType
<1>9. ASSUME NEW w \in Name, Gone \/ w # l0 PROVE Eval2(w)' = Eval2(w)
  <2>1. w[1] # "const" => w \in Loads \cup Phis
    BY <1>2, NameFacts
  <2>2. w[1] # "const" => val2'[w] = val2[w]
    BY <1>1, <1>3, <1>9, <2>1
  <2> QED
    BY <2>2 DEF Eval2
<1>10. ASSUME NEW v \in Promoted, mem[v] # Undef
       PROVE  /\ \E d \in Block : Giver(Fn, d, at, v, ep + 1)
              /\ \A w \in Name : Current(Fn, use, w, at, v, ep + 1) => Eval2(w)' = mem[v]
  <2>1. /\ \A d : Giver(Fn, d, at, v, ep) <=> Giver(Fn, d, at, v, ep + 1)
        /\ \A w : Current(Fn, use, w, at, v, ep + 1) => Current(Fn, use, w, at, v, ep)
    BY <1>1, <1>2, NoStoreHere DEF IsLoad, IsStore
  <2>2. ASSUME NEW w \in Name, Current(Fn, use, w, at, v, ep + 1) PROVE Eval2(w)' = mem[v]
    <3>1. Current(Fn, use, w, at, v, ep)
      BY <2>1, <2>2
    <3>2. ComesBefore(w, at, ep)
      BY <1>2, <3>1, CurrentFacts
    <3>3. w # l0
      BY <1>2, <1>5, <3>2 DEF ComesBefore
    <3> QED
      BY <1>6, <1>9, <1>10, <3>1, <3>3
  <2> QED
    BY <1>6, <1>10, <2>1, <2>2
<1>11. MemAgrees'
  BY <1>1, <1>4, <1>6, <1>10 DEF MemAgrees
<1>12. ASSUME NEW l \in Loads, val'[l] # Undef, Usable(g, l, at, ep + 1)
       PROVE  Eval2(use[l])' = val'[l]
  <2>1. l = <<"load", l[2], l[3]>> /\ l[3] \in Nat
    <3>1. l \in Value
      BY <1>2, InputFacts
    <3> QED
      BY <3>1, LoadsFacts DEF Value
  <2>2. CASE l = l0
    <3>1. val'[l] = mem[a]
      BY <1>1, <1>3, <1>5, <2>2
    <3>2. CASE Gone
      <4>1. a \in Promoted /\ Current(Fn, use, use[l0], at, a, ep) /\ use[l0] \in Name
        BY <1>2, <1>5, <1>7, <3>2
      <4>2. Eval2(use[l0]) = mem[a]
        BY <1>6, <1>12, <3>1, <4>1
      <4> QED
        BY <1>4, <1>9, <2>2, <3>1, <3>2, <4>1, <4>2
    <3>3. CASE ~Gone
      <4>1. use[l0] = l0 /\ mem2[a] = mem[a]
        BY <1>2, <1>6, <1>7, <1>12, <3>1, <3>3
      <4>2. val2'[l0] = mem2[a]
        BY <1>1, <1>3, <1>5, <3>3
      <4>3. Eval2(use[l])' = val2'[l0]
        BY <1>4, <1>5, <2>2, <4>1 DEF Eval2
      <4> QED
        BY <3>1, <4>1, <4>2, <4>3
    <3> QED
      BY <3>2, <3>3
  <2>3. CASE l # l0
    <3>1. val'[l] = val[l]
      BY <1>1, <1>3, <1>5, <2>3
    <3>2. Usable(g, l, at, ep)
      <4>1. ~(l[2] = at /\ l[3] = ep)
        BY <2>1, <2>3 DEF l0
      <4> QED
        BY <1>2, <1>12, <2>1, <4>1 DEF Usable
    <3>3. Eval2(use[l]) = val[l]
      BY <1>1, <1>12, <3>1, <3>2, AgreeAt DEF RInv
    <3>4. use[l] # l0
      <4> SUFFICES ASSUME use[l] = l0 PROVE FALSE
        OBVIOUS
      <4>1. DomIn(g, at, l[2]) /\ ComesBefore(l0, l[2], l[3] + 1)
        BY <1>2, <1>5, <2>3 DEF UseInv, Reaches
      <4>2. l[2] = at /\ l[3] < ep
        BY <1>2, <3>2, <4>1, DomAntisymmetric DEF Usable, SDomIn
      <4>3. ep < l[3] + 1
        BY <1>5, <4>1, <4>2 DEF ComesBefore
      <4> QED
        BY <1>2, <2>1, <4>2, <4>3
    <3>5. use[l] \in Name
      BY <1>2
    <3> QED
      BY <1>4, <1>9, <3>1, <3>3, <3>4, <3>5
  <2> QED
    BY <2>2, <2>3
<1>13. LoadsAgree'
  BY <1>1, <1>4, <1>12, AgreeAt
<1>14. IdleInv' /\ PlaceInv'
  BY <1>1, <1>2, <1>4 DEF IdleInv, PlaceInv
<1> QED
  BY <1>8, <1>11, <1>13, <1>14 DEF RInv

\* A stored operand holds what is stored.
LEMMA OperandAgrees ==
  ASSUME MInv, SSAInv, CInv, RInv, at # 0, IsStore(at, ep),
         NEW r, r = code[at][ep].rval, Eval(r) # Undef
  PROVE  Eval2(OperandIn(use, r)) = Eval(r)
<1>1. InputInv /\ at \in Block /\ at \in ReachableIn(g)
  BY AtInstr
<1>2. /\ r[1] # "load" => r[1] = "const"
      /\ r[1] = "load" =>
           /\ r \in Loads
           /\ \/ r[2] = at /\ r[3] < ep
              \/ SDomIn(g, r[2], at)
  BY <1>1, StoredFacts
<1>3. CASE r[1] # "load"
  BY <1>2, <1>3 DEF OperandIn, Eval, Eval2
<1>4. CASE r[1] = "load"
  <2>1. val[r] = Eval(r) /\ OperandIn(use, r) = use[r]
    BY <1>4 DEF Eval, OperandIn
  <2>2. r \in Loads /\ Usable(g, r, at, ep)
    BY <1>2, <1>4 DEF Usable
  <2> QED
    BY <2>1, <2>2, AgreeAt DEF RInv
<1> QED
  BY <1>3, <1>4

\* A store gives its variable the value its operand holds.
LEMMA StoreRun == ASSUME MInv, SSAInv, CInv, RInv, ExecStore PROVE RInv'
<1> DEFINE a == code[at][ep].lval
           r == code[at][ep].rval
<1>1. /\ at # 0 /\ IsStore(at, ep) /\ at' = at /\ ep' = ep + 1
      /\ mem' = [mem EXCEPT ![a] = Eval(r)]
      /\ mem2' = IF Gone THEN mem2 ELSE [mem2 EXCEPT ![a] = Eval2(Operand(r))]
      /\ UNCHANGED vars /\ val' = val /\ val2' = val2
  BY DEF ExecStore
<1>2. /\ pc = "done" /\ RunType /\ at \in ReachableIn(g) /\ at \in Block
      /\ ep \in Nat /\ ep + 1 \in 1..EndOf(Fn, at) /\ a \in Var
      /\ IsFn(Fn) /\ Fn.succ = g /\ Fn.code = code /\ IsFlowGraph(g)
      /\ InputInv /\ UseInv /\ use \in [Loads -> Name]
  BY <1>1, AtInstr
<1>3. /\ mem \in [Var -> Int] /\ mem2 \in [Var -> Int]
      /\ val \in [Loads -> Int] /\ val2 \in [Loads \cup Phis -> Int]
  BY <1>2 DEF RunType
<1>4. /\ g' = g /\ code' = code /\ pc' = pc /\ use' = use
      /\ Block' = Block /\ Loads' = Loads /\ Phis' = Phis /\ Name' = Name /\ Fn' = Fn
  BY <1>1, SamePass
<1>5. /\ \A v \in Promoted : mem[v] # Undef =>
           /\ \E d \in Block : Giver(Fn, d, at, v, ep)
           /\ \A w \in Name : Current(Fn, use, w, at, v, ep) => Eval2(w) = mem[v]
      /\ \A x \in Var \ Promoted : mem[x] # Undef => mem2[x] = mem[x]
  BY <1>1 DEF RInv, MemAgrees
<1>6. Gone => a \in Promoted
  <2>1. \A w \in erased : code[w[1]][w[2]].lval \in Promoted
    BY <1>2, DoneFacts
  <2> QED
    BY <2>1 DEF Gone
<1>7. /\ Operand(r) = OperandIn(use, r) /\ Operand(r) \in Name
      /\ Eval(r) # Undef => Eval2(Operand(r)) = Eval(r)
  <2>1. Operand(r) = OperandIn(use, r)
    BY DEF Operand, OperandIn
  <2>2. OperandIn(use, r) \in Name
    BY <1>1, <1>2, StoredOperand
  <2> QED
    BY <1>1, <2>1, <2>2, OperandAgrees
<1>8. Eval(r) \in Int /\ Eval2(Operand(r)) \in Int
  BY <1>1, <1>2, <1>7, EvalFacts
<1>9. StoreAt(Fn, at, ep, a)
  BY <1>1, <1>2, FnFacts
<1>10. /\ Giver(Fn, at, at, a, ep + 1)
       /\ \A w : Current(Fn, use, w, at, a, ep + 1) => w = OperandIn(use, r)
  BY <1>2, <1>9, StoreCurrent
<1> HIDE DEF a, r
<1>11. RunType'
  <2>1. mem' \in [Var -> Int] /\ mem2' \in [Var -> Int]
    BY <1>1, <1>3, <1>8
  <2> QED
    BY <1>1, <1>3, <1>4, <2>1 DEF RunType
<1>12. \A w : Eval2(w)' = Eval2(w)
  BY <1>1 DEF Eval2
<1>13. ASSUME NEW v \in Promoted, mem'[v] # Undef
       PROVE  /\ \E d \in Block : Giver(Fn, d, at, v, ep + 1)
              /\ \A w \in Name : Current(Fn, use, w, at, v, ep + 1) => Eval2(w) = mem'[v]
  <2>1. CASE v = a
    <3>1. mem'[v] = Eval(r)
      BY <1>1, <1>2, <1>3, <2>1
    <3> QED
      BY <1>2, <1>7, <1>10, <1>13, <2>1, <3>1
  <2>2. CASE v # a
    <3>1. mem'[v] = mem[v]
      <4>1. v \in Var
        BY DEF Promoted, Var
      <4> QED
        BY <1>1, <1>3, <2>2, <4>1
    <3>2. /\ \A d : Giver(Fn, d, at, v, ep) <=> Giver(Fn, d, at, v, ep + 1)
          /\ \A w : Current(Fn, use, w, at, v, ep + 1) => Current(Fn, use, w, at, v, ep)
      BY <1>2, <2>2, NoStoreHere DEF a
    <3> QED
      BY <1>5, <1>13, <3>1, <3>2
  <2> QED
    BY <2>1, <2>2
<1>14. ASSUME NEW x \in Var \ Promoted, mem'[x] # Undef PROVE mem2'[x] = mem'[x]
  <2>1. CASE x = a
    <3>1. mem'[x] = Eval(r)
      BY <1>1, <1>2, <1>3, <2>1
    <3>2. mem2'[x] = Eval2(Operand(r))
      BY <1>1, <1>2, <1>3, <1>6, <2>1
    <3> QED
      BY <1>7, <1>14, <3>1, <3>2
  <2>2. CASE x # a
    <3>1. mem'[x] = mem[x] /\ mem2'[x] = mem2[x]
      BY <1>1, <1>3, <2>2
    <3> QED
      BY <1>5, <1>14, <3>1
  <2> QED
    BY <2>1, <2>2
<1>15. MemAgrees'
  BY <1>1, <1>4, <1>12, <1>13, <1>14 DEF MemAgrees
<1>16. ASSUME NEW l \in Loads, val[l] # Undef, Usable(g, l, at, ep + 1)
       PROVE  Eval2(use[l]) = val[l]
  <2>1. l[3] \in Nat /\ IsLoad(l[2], l[3])
    <3>1. l \in Value
      BY <1>2, InputFacts
    <3> QED
      BY <3>1, LoadsFacts DEF Value
  <2>2. ~(l[2] = at /\ l[3] = ep)
    BY <1>1, <2>1 DEF IsLoad, IsStore
  <2>3. Usable(g, l, at, ep)
    BY <1>2, <1>16, <2>1, <2>2 DEF Usable
  <2> QED
    BY <1>1, <1>16, <2>3, AgreeAt DEF RInv
<1>17. LoadsAgree'
  BY <1>1, <1>4, <1>12, <1>16, AgreeAt
<1>18. IdleInv' /\ PlaceInv'
  BY <1>1, <1>2, <1>4 DEF IdleInv, PlaceInv
<1> QED
  BY <1>11, <1>15, <1>17, <1>18 DEF RInv

\* The executions agree at every step.
LEMMA StepRun ==
  ASSUME MInv, SSAInv, CInv, RInv, [RunNext]_all_vars PROVE RInv'
BY PassRun, CallRun, BranchRun, LoadRun, StoreRun DEF RunNext

\* Nothing is set before the function is called.
LEMMA InitRun == RunInit => RInv
<1> SUFFICES ASSUME RunInit PROVE RInv
  OBVIOUS
<1>1. /\ at = 0 /\ mem = Start /\ mem2 = Start /\ val = [l \in Loads |-> Undef]
      /\ val2 = [l \in Loads \cup Phis |-> Undef]
  BY DEF RunInit, Phis
<1>2. Undef \in Int /\ Start \in [Var -> Int]
  BY DEF Start, Undef
<1>3. RunType
  BY <1>1, <1>2 DEF RunType
<1> QED
  BY <1>1, <1>3 DEF RInv, IdleInv, PlaceInv, MemAgrees, LoadsAgree

\* The steps of the execution are none of the pass.
LEMMA RunIsPass == ASSUME [RunNext]_all_vars PROVE [Next]_vars
BY DEF RunNext, PassStep, Call, Branch, EnterBlock, ExecLoad, ExecStore, all_vars

\* The promotion changes no result: on every path through every function,
\* wherever the value of a load can be used, the operand that re_name gave its
\* users (a phi, a stored value or the load itself) holds the value the load
\* read from memory, if that was ever set.
THEOREM PromotionKeepsLoads == RunSpec => []LoadsAgree
<1> DEFINE I == MInv /\ SSAInv /\ CInv /\ RInv
<1>1. RunInit => I
  BY InitM, InitSSA, InitCurrent, InitRun DEF RunInit
<1>2. I /\ [RunNext]_all_vars => I'
  BY StepM, StepSSA, StepCurrent, StepRun, RunIsPass
<1>3. I => LoadsAgree
  BY DEF RInv
<1> QED
  BY <1>1, <1>2, <1>3, PTL DEF RunSpec
=============================================================================
