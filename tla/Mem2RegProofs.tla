--------------------------- MODULE Mem2RegProofs ---------------------------
(***************************************************************************)
(* Proofs about Mem2Reg for every function: every graph, every sequence of *)
(* loads and stores in each block, and every order of the work list.       *)
(***************************************************************************)
EXTENDS Mem2Reg, FlowGraphProofs

-----------------------------------------------------------------------------
(***************************************************************************)
(* The invariants.                                                         *)
(***************************************************************************)

Frame == [bb : Block, kids : SUBSET Block, saved : [Promoted -> Seq(Value)]]

\* The function and its dominators, which no step of the pass changes.
InputInv ==
  /\ IsFlowGraph(g)
  /\ Block \subseteq Nat
  /\ code \in [Block -> Seq(Instr)]
  /\ df = [b \in Block |-> FrontierIn(g, b)]
  /\ kids = [b \in Block |-> ChildrenIn(g, b)]
  /\ \A b \in Block : \A i \in DOMAIN code[b] :
       IsStore(b, i) => OperandComesBefore([succ |-> g, code |-> code], b, i)

\* re_name has an activation exactly while it runs.
PhaseInv ==
  /\ frames \in Seq(Frame)
  /\ pc \in {"vars", "work"} => frames = <<>> /\ \A v \in Promoted : stk[v] = <<>>
  /\ pc = "work" => var \in Promoted
  /\ pc \in {"instr", "kids"} => Len(frames) >= 1
  /\ pc \in {"alloca", "done"} => frames = <<>>
  /\ pc \notin {"vars", "work"} => todo = {}
  /\ alloca = IF pc = "done" THEN Promoted \ Local ELSE Promoted

\* Block b gives v a value: with a store or with a phi.
Defines(b, v) == v \in phi[b] \/ b \in StoreBlocks(v)

\* The phis placed so far.  A variable generate_phi has not come to has none;
\* the one it is at has every block that defines it on the work list, and
\* phis in the frontiers of those gone by; the others have a phi in the
\* frontier of every block that defines them.
PhiInv ==
  /\ \A v \in todo : StoreBlocks(v) # {}
  /\ \A b \in Block : \A v \in phi[b] : v \notin todo /\ StoreBlocks(v) # {}
  /\ pc = "work" =>
       /\ var \notin todo
       /\ StoreBlocks(var) # {}
       /\ \A b \in Block : Defines(b, var) => \E i \in 1..Len(work) : work[i] = b
       /\ \A i \in 1..Len(work) : i < wi => \A y \in df[work[i]] : var \in phi[y]
  /\ \A v \in Promoted :
       v \notin todo /\ ~(pc = "work" /\ v = var) =>
         \A b \in Block : Defines(b, v) => \A y \in df[b] : v \in phi[y]

\* The activations are the way from the entry to a block in the dominator
\* tree, and what they have still to visit lies beside that way.
PathInv ==
  /\ \A k \in 1..Len(frames) :
       /\ frames[k].bb \in ReachableIn(g)
       /\ frames[k].kids \subseteq kids[frames[k].bb]
       /\ k = 1 => frames[k].bb = Entry
       /\ \A j \in 1..Len(frames) : j < k => SDomIn(g, frames[j].bb, frames[k].bb)
       /\ \A c \in Block :
            DomIn(g, c, frames[k].bb) => \E j \in 1..k : frames[j].bb = c
  /\ \A j, k \in 1..Len(frames) : \A c \in frames[j].kids :
       ~DomIn(g, c, frames[k].bb)

\* The values block b has given v before position q.
Pushed(b, v, q) ==
  Cardinality({i \in DOMAIN code[b] : i < q /\ IsStore(b, i) /\ code[b][i].lval = v})
    + (IF v \in phi[b] THEN 1 ELSE 0)

\* t is s with n elements appended.
Extends(s, t, n) == Len(t) = Len(s) + n /\ \A i \in 1..Len(s) : t[i] = s[i]

\* Each stack is the one the activation was called with and the values its
\* block has given the variable; the callers' blocks have given theirs.
StackInv ==
  /\ \A k \in 1..(Len(frames) - 1) : \A v \in Promoted :
       Extends(frames[k].saved[v], frames[k + 1].saved[v], Pushes(frames[k].bb, v))
  /\ pc = "instr" => \A v \in Promoted :
       Extends(Top.saved[v], stk[v], Pushed(Top.bb, v, pos))
  /\ pc = "kids" => \A v \in Promoted :
       Extends(Top.saved[v], stk[v], Pushes(Top.bb, v))

\* A value is pushed for each variable that a caller's block defines, and
\* var_val_stack has an entry for it.
ValueInv ==
  /\ \A j, k \in 1..Len(frames) : \A v \in Promoted :
       j < k /\ Defines(frames[j].bb, v) => Len(frames[k].saved[v]) > 0
  /\ \A k \in 1..Len(frames) : \A v \in Promoted :
       Len(frames[k].saved[v]) > 0 => v \in known
  /\ \A v \in Promoted : Len(stk[v]) > 0 => v \in known
  /\ \A v \in known : StoreBlocks(v) # {}

\* What no error path leaves.
MInv == /\ InputInv /\ TypeOK /\ PhaseInv /\ PhiInv /\ PathInv /\ StackInv
        /\ ValueInv /\ NoEmptyStackRead

-----------------------------------------------------------------------------
\* Every load and store of a promoted variable in block b is erased.
AllErased(b) ==
  \A i \in DOMAIN code[b] : code[b][i].lval \in Promoted => <<b, i>> \in erased

\* In a function that sets its variables before it reads them, every block is
\* still to be visited, being visited or without its loads and stores, and of
\* a block being visited those gone by are erased or will be.
WalkInv ==
  Strict =>
    /\ pc \notin {"vars", "work"} => \A b \in Block :
         \/ AllErased(b)
         \/ \E k \in 1..Len(frames) :
              frames[k].bb = b \/ \E c \in frames[k].kids : DomIn(g, c, b)
    /\ pc \in {"instr", "kids"} =>
         \A k \in 1..Len(frames) : \A i \in DOMAIN code[frames[k].bb] :
           /\ code[frames[k].bb][i].lval \in Promoted
           /\ k < Len(frames) \/ pc = "kids" \/ i < pos
           => <<frames[k].bb, i>> \in wait \cup erased

-----------------------------------------------------------------------------
\* Value w is a constant, a phi, or one of the loads Ls that is not in W.
Live(w, Ls, W) == w[1] = "load" => w \in Ls /\ <<w[2], w[3]>> \notin W

\* A value is a constant or defined in a block that dominates b.
Reaches(gr, w, b) == w[1] = "const" \/ DomIn(gr, w[2], b)

\* A load at position q of block b, if that is what w is, comes before it.
ComesBefore(w, b, q) == w[1] = "load" /\ w[2] = b => w[3] < q

\* The operand the users of a load have is defined on the way to the load.
UseInv ==
  \A l \in Loads :
    /\ Live(use[l], Loads, wait \cup erased)
    /\ use[l] = l \/ Reaches(g, use[l], l[2])
    /\ ComesBefore(use[l], l[2], l[3] + 1)

\* The values on the stacks are defined on the way to where re_name is.
CurrentInv ==
  pc \in {"instr", "kids"} =>
    \A v \in Promoted : \A i \in 1..Len(stk[v]) :
      /\ Live(stk[v][i], Loads, wait \cup erased)
      /\ Reaches(g, stk[v][i], Top.bb)
      /\ pc = "instr" => ComesBefore(stk[v][i], Top.bb, pos)

\* The values an activation was called with are defined on the way to the
\* block of its caller.
SavedInv ==
  \A k \in 1..Len(frames) : \A v \in Promoted :
    \A i \in 1..Len(frames[k].saved[v]) :
      /\ Live(frames[k].saved[v][i], Loads, wait \cup erased)
      /\ k > 1 /\ Reaches(g, frames[k].saved[v][i], frames[k - 1].bb)

\* The operands s of a phi in block b are one for each of some predecessors,
\* live and defined on the way to it, and no block of K is on that way.
ArgsOK(gr, Ls, W, K, b, s) ==
  /\ \A k \in DOMAIN s :
       /\ s[k].bb \in PredIn(gr, b)
       /\ Live(s[k].val, Ls, W)
       /\ Reaches(gr, s[k].val, s[k].bb)
       /\ \A c \in K : ~DomIn(gr, c, s[k].bb)
  /\ \A j, k \in DOMAIN s : s[j].bb = s[k].bb => j = k

\* The children the activations have still to visit.
Ahead == {c \in Block : \E j \in 1..Len(frames) : c \in frames[j].kids}

\* The operands of the phis come from blocks re_name has been through.
ArgsInv ==
  \A b \in Block : \A v \in Promoted :
    /\ ArgsOK(g, Loads, wait \cup erased, Ahead, b, args[b][v])
    /\ pc \in {"vars", "work"} => args[b][v] = <<>>
    /\ pc = "instr" => \A k \in DOMAIN args[b][v] : args[b][v][k].bb # Top.bb

SSAInv == UseInv /\ CurrentInv /\ SavedInv /\ ArgsInv

-----------------------------------------------------------------------------
(***************************************************************************)
(* The shape of the state.                                                 *)
(***************************************************************************)

\* What is defined on the function alone keeps its value.
LEMMA SameInput ==
  ASSUME UNCHANGED input_vars
  PROVE  /\ g' = g /\ code' = code /\ df' = df /\ kids' = kids
         /\ Block' = Block /\ Loads' = Loads /\ Frame' = Frame
         /\ \A v : StoreBlocks(v)' = StoreBlocks(v)
         /\ \A b, i : IsStore(b, i)' = IsStore(b, i)
         /\ \A b, i : IsLoad(b, i)' = IsLoad(b, i)
         /\ Strict' = Strict /\ SetAtEntry' = SetAtEntry
         /\ InputInv' = InputInv
<1>1. g' = g /\ code' = code /\ df' = df /\ kids' = kids
  BY DEF input_vars
<1>2. Block' = Block /\ Frame' = Frame
  BY <1>1 DEF Block, Frame
<1>3. /\ \A b, i : IsStore(b, i)' = IsStore(b, i)
      /\ \A b, i : IsLoad(b, i)' = IsLoad(b, i)
  BY <1>1 DEF IsStore, IsLoad
<1>4. Loads' = Loads
  BY <1>1 DEF Loads, Block, IsLoad
<1>5. \A v : StoreBlocks(v)' = StoreBlocks(v)
  BY <1>1 DEF StoreBlocks, Block, IsStore
<1>6. Strict' = Strict
  BY <1>1 DEF Strict, Unset, StoreBlocks, Block, IsStore, Loads, IsLoad
<1>7. SetAtEntry' = SetAtEntry
  BY <1>5 DEF SetAtEntry
<1>8. InputInv' = InputInv
  BY <1>1 DEF InputInv, Block, IsStore
<1> QED
  BY <1>1, <1>2, <1>3, <1>4, <1>5, <1>6, <1>7, <1>8

\* The function of the initial state is one of Program.
LEMMA InitInput == Init => InputInv
<1> SUFFICES ASSUME NEW p \in Program, g = p.succ, code = p.code,
                    df = [b \in Block |-> FrontierIn(g, b)],
                    kids = [b \in Block |-> ChildrenIn(g, b)]
             PROVE  InputInv
  BY DEF Init
<1>1. /\ IsFiniteSet(DOMAIN g) /\ DOMAIN g \subseteq Nat \ {0}
      /\ Entry \in DOMAIN g /\ g \in [DOMAIN g -> SUBSET DOMAIN g]
      /\ code \in [DOMAIN g -> Seq(Instr)]
  BY Mem2RegAssumption
<1>2. \A b \in DOMAIN g : \A i \in DOMAIN code[b] :
        code[b][i].op = "store" => OperandComesBefore(p, b, i)
  BY Mem2RegAssumption
<1>3. \A b, i : OperandComesBefore(p, b, i)
                  = OperandComesBefore([succ |-> g, code |-> code], b, i)
  BY DEF OperandComesBefore
<1> QED
  BY <1>1, <1>2, <1>3 DEF InputInv, IsFlowGraph, Block, IsStore

\* The blocks, their numbers and their instructions.
LEMMA InputFacts ==
  ASSUME InputInv
  PROVE  /\ IsFlowGraph(g) /\ DOMAIN g = Block /\ IsFiniteSet(Block)
         /\ Block \subseteq Nat /\ Entry \in Block
         /\ \A b \in Block : g[b] \subseteq Block
         /\ ReachableIn(g) \subseteq Block
         /\ \A b \in Block : /\ code[b] \in Seq(Instr) /\ Len(code[b]) \in Nat
                             /\ DOMAIN code[b] = 1..Len(code[b])
         /\ \A b \in Block : df[b] = FrontierIn(g, b) /\ df[b] \subseteq Block
         /\ \A b \in Block : kids[b] = ChildrenIn(g, b) /\ kids[b] \subseteq Block
         /\ Loads \subseteq Value
         /\ \A v : StoreBlocks(v) \subseteq Block
         /\ Promoted \subseteq Nat /\ Promoted \subseteq Var
<1>1. IsFlowGraph(g) /\ DOMAIN g = Block /\ IsFiniteSet(Block) /\ Entry \in Block
  BY DEF InputInv, IsFlowGraph, Block
<1>2. Block \subseteq Nat /\ \A b \in Block : g[b] \subseteq Block
  BY DEF InputInv, IsFlowGraph, Block
<1>3. ReachableIn(g) \subseteq Block
  BY <1>1, ReachFacts
<1>4. \A b \in Block : /\ code[b] \in Seq(Instr) /\ Len(code[b]) \in Nat
                       /\ DOMAIN code[b] = 1..Len(code[b])
  BY DEF InputInv
<1>5. \A b \in Block : df[b] = FrontierIn(g, b) /\ df[b] \subseteq Block
  BY <1>3 DEF InputInv, FrontierIn
<1>6. \A b \in Block : kids[b] = ChildrenIn(g, b) /\ kids[b] \subseteq Block
  BY DEF InputInv, ChildrenIn, Block
<1>7. Loads \subseteq Value
  <2> SUFFICES ASSUME NEW b \in Block, NEW i \in DOMAIN code[b]
               PROVE  <<"load", b, i>> \in Value
    BY DEF Loads
  <2>1. b \in Nat /\ i \in Nat
    BY <1>2, <1>4
  <2> QED
    BY <2>1 DEF Value
<1>8. \A v : StoreBlocks(v) \subseteq Block
  BY DEF StoreBlocks
<1>9. Promoted \subseteq Nat /\ Promoted \subseteq Var
  BY Mem2RegAssumption DEF Promoted, Var
<1> QED
  BY <1>1, <1>2, <1>3, <1>4, <1>5, <1>6, <1>7, <1>8, <1>9

\* An order of a finite set of blocks is a sequence of all of them.
LEMMA OrdersFacts ==
  ASSUME NEW B, IsFiniteSet(B), NEW S \in SUBSET B, NEW s \in Orders(S)
  PROVE  /\ s \in Seq(B) /\ \A b \in S : \E i \in 1..Len(s) : s[i] = b
         /\ \A i \in 1..Len(s) : s[i] \in S
<1>1. IsFiniteSet(S) /\ Cardinality(S) \in Nat
  BY FS_Subset, FS_CardinalityType
<1>2. /\ s \in [1..Cardinality(S) -> S]
      /\ \A i, j \in 1..Cardinality(S) : s[i] = s[j] => i = j
  <2>1. /\ s \in [1..Cardinality(S) -> S]
        /\ \A i, j \in DOMAIN s : s[i] = s[j] => i = j
    BY Zenon DEF Orders
  <2>2. DOMAIN s = 1..Cardinality(S)
    BY <2>1, Zenon
  <2> QED
    BY <2>1, <2>2, Zenon
<1>3. s \in Seq(B) /\ Len(s) = Cardinality(S)
  BY <1>1, <1>2
<1>4. \A b \in S : \E i \in 1..Cardinality(S) : s[i] = b
  <2> DEFINE n == Cardinality(S)
             D == 1..n
             R == {s[i] : i \in D}
  <2>1. IsFiniteSet(D) /\ Cardinality(D) = n
    BY <1>1, FS_Interval
  <2>2. R \subseteq S
    BY <1>2
  <2>3. IsFiniteSet(R) /\ Cardinality(R) = n
    <3>1. s \in Bijection(D, R)
      BY <1>2 DEF Bijection, Injection, Surjection, IsInjective
    <3> HIDE DEF D, R
    <3> QED
      BY <2>1, <3>1, FS_Bijection DEF ExistsBijection
  <2>4. R = S
    <3> HIDE DEF R
    <3> QED
      BY <1>1, <2>2, <2>3, FS_Subset
  <2> QED
    BY <2>4
<1> QED
  BY <1>2, <1>3, <1>4

ShapeInv == InputInv /\ TypeOK /\ PhaseInv

\* TypeOK in three parts.
PlaceType ==
  /\ pc \in Phase
  /\ todo \subseteq Promoted
  /\ var \in Promoted \cup {0}
  /\ work \in Seq(Block)
  /\ wi \in Nat \ {0}
  /\ phi \in [Block -> SUBSET Promoted]

WalkType ==
  /\ \A k \in DOMAIN frames :
       /\ frames[k].bb \in Block
       /\ frames[k].kids \subseteq Block
       /\ frames[k].saved \in [Promoted -> Seq(Value)]
  /\ pos \in Nat \ {0}
  /\ stk \in [Promoted -> Seq(Value)]
  /\ known \subseteq Promoted

SSAType ==
  /\ use \in [Loads -> Value]
  /\ args \in [Block -> [Promoted -> Seq([val : Value, bb : Block])]]
  /\ wait \subseteq Block \X Nat
  /\ erased \subseteq Block \X Nat
  /\ alloca \subseteq Promoted

\* The three parts are all of TypeOK.
LEMMA TypeParts == TypeOK <=> PlaceType /\ WalkType /\ SSAType
BY Zenon DEF TypeOK, PlaceType, WalkType, SSAType

\* The parts a step leaves alone.
LEMMA SameParts ==
  ASSUME TypeOK, UNCHANGED input_vars
  PROVE  /\ UNCHANGED place_vars /\ pc' \in Phase => PlaceType'
         /\ UNCHANGED <<frames, pos, stk, known>> => WalkType'
         /\ UNCHANGED ssa_vars => SSAType'
<1>1. PlaceType /\ WalkType /\ SSAType
  BY TypeParts
<1>2. Block' = Block /\ Loads' = Loads
  BY SameInput
<1>3. UNCHANGED place_vars /\ pc' \in Phase => PlaceType'
  BY <1>1, <1>2 DEF PlaceType, place_vars
<1>4. UNCHANGED <<frames, pos, stk, known>> => WalkType'
  BY <1>1, <1>2 DEF WalkType
<1>5. UNCHANGED ssa_vars => SSAType'
  BY <1>1, <1>2 DEF SSAType, ssa_vars
<1> QED
  BY <1>3, <1>4, <1>5

\* run enters generate_phi with everything empty.
LEMMA ShapeInit == Init => ShapeInv
<1> SUFFICES ASSUME Init PROVE ShapeInv
  OBVIOUS
<1>1. InputInv
  BY InitInput
<1>2. /\ pc = "vars" /\ todo = {v \in Promoted : StoreBlocks(v) # {}} /\ var = 0
      /\ work = <<>> /\ wi = 1 /\ phi = [b \in Block |-> {}] /\ frames = <<>>
      /\ pos = 1 /\ stk = [v \in Promoted |-> <<>>] /\ known = {}
      /\ use = [l \in Loads |-> l]
      /\ args = [b \in Block |-> [v \in Promoted |-> <<>>]]
      /\ wait = {} /\ erased = {} /\ alloca = Promoted
  BY DEF Init
<1>3. use \in [Loads -> Value]
  BY <1>1, <1>2, InputFacts
<1>4. TypeOK
  BY <1>2, <1>3 DEF TypeOK, Phase
<1> QED
  BY <1>1, <1>2, <1>4 DEF ShapeInv, PhaseInv

\* The sequence without its last element.
LEMMA FrontFacts ==
  ASSUME NEW S, NEW s \in Seq(S), Len(s) >= 1
  PROVE  LET f == SubSeq(s, 1, Len(s) - 1) IN
           /\ f \in Seq(S) /\ Len(f) = Len(s) - 1
           /\ \A k \in 1..(Len(s) - 1) : f[k] = s[k]
<1> DEFINE m == Len(s) - 1
<1>1. m \in Nat /\ m <= Len(s) /\ Len(s) \in Nat
  OBVIOUS
<1> HIDE DEF m
<1>2. /\ SubSeq(s, 1, m) \in Seq(S) /\ Len(SubSeq(s, 1, m)) = m
      /\ \A k \in 1..m : SubSeq(s, 1, m)[k] = s[k]
  BY <1>1
<1> QED
  BY <1>2 DEF m

\* The innermost activation.
LEMMA TopFacts ==
  ASSUME ShapeInv, pc \in {"instr", "kids"}
  PROVE  /\ Len(frames) \in Nat \ {0} /\ frames \in Seq(Frame)
         /\ Top = frames[Len(frames)] /\ Top \in Frame /\ Top.bb \in Block
         /\ Top.kids \in SUBSET Block /\ Top.saved \in [Promoted -> Seq(Value)]
         /\ Below \in Seq(Frame) /\ Len(Below) = Len(frames) - 1
         /\ \A k \in 1..(Len(frames) - 1) : Below[k] = frames[k]
<1>1. frames \in Seq(Frame) /\ Len(frames) >= 1
  BY DEF ShapeInv, PhaseInv
<1>2. Len(frames) \in Nat \ {0} /\ Top = frames[Len(frames)] /\ Top \in Frame
  BY <1>1 DEF Top
<1>3. /\ Below \in Seq(Frame) /\ Len(Below) = Len(frames) - 1
      /\ \A k \in 1..(Len(frames) - 1) : Below[k] = frames[k]
  <2> HIDE DEF Frame
  <2> QED
    BY <1>1, FrontFacts DEF Below
<1> QED
  BY <1>1, <1>2, <1>3 DEF Frame

\* generate_phi.
LEMMA PlaceShape ==
  ASSUME ShapeInv, (\E v \in Promoted : PickVar(v)) \/ PlacePhis \/ NextVar
  PROVE  ShapeInv'
<1>1. UNCHANGED input_vars /\ UNCHANGED <<frames, pos, stk, known, ssa_vars>>
  BY DEF PickVar, PlacePhis, NextVar
<1>2. InputInv /\ InputInv' /\ TypeOK /\ PhaseInv
  BY <1>1, SameInput DEF ShapeInv
<1>0. /\ todo \subseteq Promoted /\ work \in Seq(Block) /\ wi \in Nat \ {0}
      /\ phi \in [Block -> SUBSET Promoted]
  BY <1>2 DEF TypeOK
<1> DEFINE P == /\ pc \in {"vars", "work"} /\ pc' \in {"vars", "work"}
                /\ todo' \subseteq Promoted /\ var' \in Promoted \cup {0}
                /\ work' \in Seq(Block) /\ wi' \in Nat \ {0}
                /\ phi' \in [Block -> SUBSET Promoted]
                /\ pc' = "work" => var' \in Promoted
<1>3. ASSUME NEW v \in Promoted, PickVar(v) PROVE P
  <2>1. PICK s \in Orders(StoreBlocks(v)) : work' = s
    BY <1>3 DEF PickVar
  <2>2. StoreBlocks(v) \in SUBSET Block /\ IsFiniteSet(Block)
    BY <1>2, InputFacts
  <2>3. work' \in Seq(Block)
    BY <2>1, <2>2, OrdersFacts
  <2> QED
    BY <1>0, <1>3, <2>3 DEF PickVar
<1>4. ASSUME PlacePhis PROVE P
  <2> DEFINE new == {y \in df[work[wi]] : var \notin phi[y]}
  <2>1. /\ pc = "work" /\ pc' = pc /\ todo' = todo /\ var' = var /\ wi' = wi + 1
        /\ wi <= Len(work)
        /\ phi' = [b \in Block |-> phi[b] \cup (IF b \in new THEN {var} ELSE {})]
        /\ work' \in Extended(new)
    BY <1>4 DEF PlacePhis
  <2>2. wi \in 1..Len(work) /\ work[wi] \in Block /\ var \in Promoted
    BY <1>0, <1>2, <2>1 DEF PhaseInv
  <2>3. new \in SUBSET Block /\ IsFiniteSet(Block)
    BY <1>2, <2>2, InputFacts
  <2> HIDE DEF new
  <2>4. PICK s \in Orders(new) : work' = work \o s
    BY <2>1 DEF Extended
  <2>5. s \in Seq(Block)
    BY <2>3, OrdersFacts
  <2>6. work' \in Seq(Block)
    BY <1>0, <2>4, <2>5
  <2> QED
    BY <1>0, <2>1, <2>2, <2>6
<1>5. ASSUME NextVar PROVE P
  BY <1>0, <1>5 DEF NextVar
<1>6. P
  BY <1>3, <1>4, <1>5
<1>7. /\ frames' = frames /\ pos' = pos /\ stk' = stk /\ known' = known
      /\ use' = use /\ args' = args /\ wait' = wait /\ erased' = erased
      /\ alloca' = alloca
  BY <1>1 DEF ssa_vars
<1>8. Block' = Block /\ Loads' = Loads /\ Frame' = Frame
  BY <1>1, SameInput
<1>9. TypeOK'
  BY <1>2, <1>6, <1>7, <1>8 DEF TypeOK, Phase
<1>10. PhaseInv'
  BY <1>2, <1>6, <1>7, <1>8 DEF PhaseInv
<1> QED
  BY <1>2, <1>9, <1>10 DEF ShapeInv

\* The loads are the positions of load instructions.
LEMMA LoadsFacts ==
  /\ \A b, i : b \in Block /\ IsLoad(b, i) => <<"load", b, i>> \in Loads
  /\ \A l \in Loads : /\ l = <<"load", l[2], l[3]>> /\ l[1] = "load"
                      /\ l[2] \in Block /\ IsLoad(l[2], l[3])
<1>1. ASSUME NEW b, NEW i, b \in Block, IsLoad(b, i)
      PROVE  <<"load", b, i>> \in Loads
  <2>1. i \in DOMAIN code[b]
    BY <1>1 DEF IsLoad
  <2> QED
    BY <1>1, <2>1 DEF Loads
<1>2. ASSUME NEW l \in Loads
      PROVE  /\ l = <<"load", l[2], l[3]>> /\ l[1] = "load"
             /\ l[2] \in Block /\ IsLoad(l[2], l[3])
  <2>1. PICK b \in Block : l \in {<<"load", b, i>> :
                                     i \in {j \in DOMAIN code[b] : IsLoad(b, j)}}
    BY DEF Loads
  <2>2. PICK i : IsLoad(b, i) /\ l = <<"load", b, i>>
    BY <2>1
  <2> QED
    BY <2>2
<1> QED
  BY <1>1, <1>2

\* The operand of a store, as the builder made it.
LEMMA StoredFacts ==
  ASSUME InputInv, NEW b \in Block, NEW i, IsStore(b, i), NEW r, r = code[b][i].rval
  PROVE  /\ r \in Value /\ code[b][i].lval \in Var
         /\ r[1] # "load" => r[1] = "const"
         /\ r[1] = "load" =>
              /\ r \in Loads
              /\ \/ r[2] = b /\ r[3] < i
                 \/ SDomIn(g, r[2], b)
                 \/ b \notin ReachableIn(g)
<1>1. i \in DOMAIN code[b] /\ code[b] \in Seq(Instr)
  BY InputFacts DEF IsStore
<1>2. code[b][i] \in Instr
  BY <1>1
<1>3. r \in Value /\ code[b][i].lval \in Var
  BY <1>2 DEF Instr
<1>4. OperandComesBefore([succ |-> g, code |-> code], b, i)
  BY <1>1 DEF InputInv
<1>5. \/ r[1] = "const"
      \/ /\ r[1] = "load" /\ r[2] \in Block /\ r[3] \in DOMAIN code[r[2]]
         /\ code[r[2]][r[3]].op = "load"
         /\ \/ r[2] = b /\ r[3] < i
            \/ SDomIn(g, r[2], b)
            \/ b \notin ReachableIn(g)
  BY <1>4 DEF OperandComesBefore, Block
<1>6. r[1] = "load" => r \in Loads
  <2> SUFFICES ASSUME r[1] = "load" PROVE r \in Loads
    OBVIOUS
  <2>1. r = <<"load", r[2], r[3]>>
    BY <1>3 DEF Value
  <2>2. r[2] \in Block /\ IsLoad(r[2], r[3])
    BY <1>5 DEF IsLoad
  <2> QED
    BY <2>1, <2>2, LoadsFacts
<1> QED
  BY <1>3, <1>5, <1>6

\* The instruction re_name is at.
LEMMA HereFacts ==
  ASSUME ShapeInv, AtLoad \/ AtStore
  PROVE  /\ pc = "instr" /\ Top.bb \in Block /\ pos \in Nat
         /\ pos \in DOMAIN code[Top.bb] /\ Here \in Instr /\ Here.lval \in Var
         /\ AtLoad => <<"load", Top.bb, pos>> \in Loads
         /\ AtStore => StoredValue(Here) \in Value
<1>1. pc = "instr" /\ pos \in DOMAIN code[Top.bb]
  BY DEF AtLoad, AtStore, IsLoad, IsStore
<1>2. InputInv /\ TypeOK /\ Top.bb \in Block
  BY <1>1, TopFacts DEF ShapeInv
<1>3. Here \in Instr
  BY <1>1, <1>2, InputFacts DEF Here
<1>4. Here.lval \in Var /\ pos \in Nat
  BY <1>2, <1>3 DEF Instr, TypeOK
<1>5. AtLoad => <<"load", Top.bb, pos>> \in Loads
  BY <1>2, LoadsFacts DEF AtLoad
<1>6. AtStore => StoredValue(Here) \in Value
  <2> SUFFICES ASSUME AtStore PROVE StoredValue(Here) \in Value
    OBVIOUS
  <2> DEFINE r == Here.rval
  <2>1. r \in Value /\ (r[1] = "load" => r \in Loads)
    BY <1>2, StoredFacts DEF AtStore, Here
  <2>2. use \in [Loads -> Value]
    BY <1>2 DEF TypeOK
  <2> QED
    BY <2>1, <2>2 DEF StoredValue, Operand
<1> QED
  BY <1>1, <1>2, <1>3, <1>4, <1>5, <1>6

\* A call of re_name.
LEMMA EnterShape ==
  ASSUME ShapeInv, NEW b \in Block, NEW callers \in Seq(Frame), Enter(b, callers),
         UNCHANGED <<input_vars, place_vars, ssa_vars>>, todo = {},
         pc \in {"vars", "kids"}
  PROVE  ShapeInv'
<1>1. /\ todo' = todo /\ var' = var /\ work' = work /\ wi' = wi /\ phi' = phi
      /\ use' = use /\ args' = args /\ wait' = wait /\ erased' = erased
      /\ alloca' = alloca
  BY DEF place_vars, ssa_vars
<1>2. /\ Block' = Block /\ Loads' = Loads /\ Frame' = Frame
      /\ InputInv /\ InputInv' /\ TypeOK /\ PhaseInv
  BY SameInput DEF ShapeInv
<1>3. /\ frames' = Append(callers, [bb |-> b, kids |-> kids[b], saved |-> stk])
      /\ stk' = [v \in Promoted |-> IF v \in phi[b]
                                    THEN Append(stk[v], <<"phi", b, v>>)
                                    ELSE stk[v]]
      /\ known' = known \cup phi[b] /\ pos' = 1 /\ pc' = "instr"
  BY DEF Enter
<1>4. stk \in [Promoted -> Seq(Value)] /\ phi[b] \subseteq Promoted
  BY <1>2 DEF TypeOK
<1>5. [bb |-> b, kids |-> kids[b], saved |-> stk] \in Frame
  BY <1>2, <1>4, InputFacts DEF Frame
<1>6. frames' \in Seq(Frame) /\ Len(frames') >= 1
  <2> HIDE DEF Frame
  <2> DEFINE f == [bb |-> b, kids |-> kids[b], saved |-> stk]
  <2>1. f \in Frame /\ frames' = Append(callers, f)
    BY <1>3, <1>5
  <2> HIDE DEF f
  <2> QED
    BY <2>1
<1>7. stk' \in [Promoted -> Seq(Value)]
  <2>1. ASSUME NEW v \in Promoted PROVE stk'[v] \in Seq(Value)
    <3>1. <<"phi", b, v>> \in Value
      BY <1>2, InputFacts DEF Value
    <3>2. stk[v] \in Seq(Value)
      BY <1>4
    <3> HIDE DEF Value
    <3>3. Append(stk[v], <<"phi", b, v>>) \in Seq(Value)
      BY <3>1, <3>2
    <3> QED
      BY <1>3, <3>2, <3>3
  <2> QED
    BY <1>3, <2>1
<1>8. \A k \in DOMAIN frames' :
        /\ frames'[k].bb \in Block /\ frames'[k].kids \subseteq Block
        /\ frames'[k].saved \in [Promoted -> Seq(Value)]
  <2>1. \A k \in DOMAIN frames' : frames'[k] \in Frame
    BY <1>6
  <2> QED
    BY <2>1 DEF Frame
<1>9. TypeOK'
  <2>1. WalkType'
    <3>1. known' \subseteq Promoted
      BY <1>2, <1>3, <1>4 DEF TypeOK
    <3> QED
      BY <1>2, <1>3, <1>7, <1>8, <3>1 DEF WalkType
  <2>2. PlaceType' /\ SSAType'
    BY <1>2, <1>3, SameParts DEF Phase
  <2> QED
    BY <2>1, <2>2, Zenon DEF TypeOK, PlaceType, WalkType, SSAType
<1>10. PhaseInv'
  BY <1>1, <1>2, <1>3, <1>6 DEF PhaseInv
<1> QED
  BY <1>2, <1>9, <1>10 DEF ShapeInv

\* The steps that at most advance the position or change the phase.
QuietStep ==
  /\ UNCHANGED <<input_vars, place_vars, frames, stk, known, use, args, wait, erased>>
  /\ \/ KeepLoad \/ KeepStore \/ BackOfEmpty \/ AssertFails \/ RemoveAlloca
     \/ UNCHANGED vars

\* These actions are such steps.
LEMMA QuietSteps ==
  ASSUME KeepLoad \/ KeepStore \/ BackOfEmpty \/ AssertFails \/ RemoveAlloca
           \/ UNCHANGED vars
  PROVE  QuietStep
BY DEF QuietStep, KeepLoad, KeepStore, BackOfEmpty, AssertFails, RemoveAlloca, vars,
       ssa_vars

\* A step that changes no more than the position or the phase.
LEMMA QuietShape == ASSUME ShapeInv, QuietStep PROVE ShapeInv'
<1>1. /\ todo' = todo /\ var' = var /\ work' = work /\ wi' = wi /\ phi' = phi
      /\ frames' = frames /\ stk' = stk /\ known' = known
      /\ use' = use /\ args' = args /\ wait' = wait /\ erased' = erased
  BY DEF QuietStep, place_vars
<1>2. /\ Block' = Block /\ Loads' = Loads /\ Frame' = Frame
      /\ InputInv /\ InputInv' /\ TypeOK /\ PhaseInv
  BY SameInput DEF ShapeInv, QuietStep
<1>3. /\ pos' \in {pos, pos + 1}
      /\ \/ alloca' = alloca /\ pc = "instr" /\ pc' \in {"instr", "crash", "abort"}
         \/ pc = "alloca" /\ pc' = "done" /\ alloca' = alloca \ Local
         \/ alloca' = alloca /\ pc' = pc
  BY DEF QuietStep, KeepLoad, KeepStore, BackOfEmpty, AssertFails, RemoveAlloca,
         AtLoad, AtStore, AtEnd, vars, ssa_vars
<1>4. pos \in Nat \ {0} /\ alloca \subseteq Promoted /\ pc \in Phase
  BY <1>2 DEF TypeOK
<1>5. pos' \in Nat \ {0} /\ alloca' \subseteq Promoted /\ pc' \in Phase
  BY <1>3, <1>4 DEF Phase
<1>6. TypeOK'
  BY <1>1, <1>2, <1>5 DEF TypeOK
<1>7. PhaseInv'
  BY <1>1, <1>2, <1>3 DEF PhaseInv
<1> QED
  BY <1>2, <1>6, <1>7 DEF ShapeInv

\* A substitution yields a value.
LEMMA ReplaceShape == ASSUME ShapeInv, ReplaceLoad PROVE ShapeInv'
<1> DEFINE old == <<"load", Top.bb, pos>>
           new == stk[Here.lval][Len(stk[Here.lval])]
<1>1. /\ todo' = todo /\ var' = var /\ work' = work /\ wi' = wi /\ phi' = phi
      /\ frames' = frames /\ stk' = stk /\ known' = known /\ pc' = pc
      /\ erased' = erased /\ alloca' = alloca /\ pos' = pos + 1
      /\ wait' = wait \cup {<<Top.bb, pos>>}
      /\ use' = [l \in Loads |-> Subst(use[l], old, new)]
      /\ args' = [b \in Block |-> [v \in Promoted |->
           [k \in DOMAIN args[b][v] |->
              [args[b][v][k] EXCEPT !.val = Subst(@, old, new)]]]]
      /\ AtLoad /\ Here.lval \in Promoted /\ stk[Here.lval] # <<>>
  BY DEF ReplaceLoad, place_vars, HasStack
<1>2. /\ Block' = Block /\ Loads' = Loads /\ Frame' = Frame
      /\ InputInv /\ InputInv' /\ TypeOK /\ PhaseInv
  BY SameInput DEF ShapeInv, ReplaceLoad
<1>3. /\ pos \in Nat \ {0} /\ stk \in [Promoted -> Seq(Value)]
      /\ use \in [Loads -> Value]
      /\ args \in [Block -> [Promoted -> Seq([val : Value, bb : Block])]]
      /\ wait \subseteq Block \X Nat
  BY <1>2 DEF TypeOK
<1>4. new \in Value
  BY <1>1, <1>3
<1> HIDE DEF old, new
<1>5. use' \in [Loads -> Value]
  BY <1>1, <1>3, <1>4 DEF Subst
<1>6. args' \in [Block -> [Promoted -> Seq([val : Value, bb : Block])]]
  <2> DEFINE Arg == [val : Value, bb : Block]
  <2> SUFFICES ASSUME NEW b \in Block, NEW v \in Promoted
               PROVE  [k \in DOMAIN args[b][v] |->
                        [args[b][v][k] EXCEPT !.val = Subst(@, old, new)]] \in Seq(Arg)
    BY <1>1
  <2> DEFINE s == args[b][v]
             f == [k \in DOMAIN s |-> [s[k] EXCEPT !.val = Subst(@, old, new)]]
  <2>1. s \in Seq(Arg) /\ Len(s) \in Nat /\ DOMAIN s = 1..Len(s)
    <3>1. args \in [Block -> [Promoted -> Seq(Arg)]]
      BY <1>3
    <3> HIDE DEF Arg
    <3> QED
      BY <3>1
  <2>2. ASSUME NEW k \in DOMAIN s PROVE [s[k] EXCEPT !.val = Subst(@, old, new)] \in Arg
    <3>1. s[k] \in Arg
      <4> HIDE DEF Arg, s
      <4> QED
        BY <2>1
    <3>2. Subst(s[k].val, old, new) \in Value
      BY <1>4, <3>1 DEF Subst
    <3> QED
      BY <3>1, <3>2
  <2>3. f \in [1..Len(s) -> Arg]
    BY <2>1, <2>2
  <2> HIDE DEF Arg, s, f
  <2>4. f \in Seq(Arg)
    BY <2>1, <2>3
  <2> QED
    BY <2>4 DEF f, s
<1>7. wait' \subseteq Block \X Nat
  BY <1>1, <1>3, HereFacts
<1>8. TypeOK'
  <2>1. SSAType'
    BY <1>1, <1>2, <1>5, <1>6, <1>7 DEF SSAType, TypeOK
  <2>2. WalkType'
    BY <1>1, <1>2, <1>3, TypeParts DEF WalkType
  <2>3. PlaceType'
    BY <1>1, <1>2, TypeParts DEF PlaceType
  <2> QED
    BY <2>1, <2>2, <2>3, Zenon DEF TypeOK, PlaceType, WalkType, SSAType
<1>9. PhaseInv'
  BY <1>1, <1>2 DEF PhaseInv, AtLoad
<1> QED
  BY <1>2, <1>8, <1>9 DEF ShapeInv

\* A store pushes a value.
LEMMA PushShape == ASSUME ShapeInv, PushStore PROVE ShapeInv'
<1>1. /\ todo' = todo /\ var' = var /\ work' = work /\ wi' = wi /\ phi' = phi
      /\ frames' = frames /\ pc' = pc /\ use' = use /\ args' = args
      /\ erased' = erased /\ alloca' = alloca /\ pos' = pos + 1
      /\ wait' = wait \cup {<<Top.bb, pos>>}
      /\ known' = known \cup {Here.lval}
      /\ stk' = [stk EXCEPT ![Here.lval] = Append(@, StoredValue(Here))]
      /\ AtStore /\ Here.lval \in Promoted
  BY DEF PushStore, place_vars
<1>2. /\ Block' = Block /\ Loads' = Loads /\ Frame' = Frame
      /\ InputInv /\ InputInv' /\ TypeOK /\ PhaseInv
  BY SameInput DEF ShapeInv, PushStore
<1>3. PlaceType /\ WalkType /\ SSAType
  BY <1>2, TypeParts
<1>4. StoredValue(Here) \in Value /\ <<Top.bb, pos>> \in Block \X Nat
  BY <1>1, HereFacts
<1>5. stk' \in [Promoted -> Seq(Value)]
  <2> DEFINE w == StoredValue(Here)
             s == stk[Here.lval]
  <2>1. stk \in [Promoted -> Seq(Value)] /\ w \in Value
    BY <1>3, <1>4 DEF WalkType
  <2> HIDE DEF w
  <2>2. Append(s, w) \in Seq(Value)
    BY <1>1, <2>1
  <2> QED
    BY <1>1, <2>1, <2>2 DEF w
<1>6. TypeOK'
  <2>1. WalkType'
    <3>1. pos' \in Nat \ {0} /\ known' \subseteq Promoted
      BY <1>1, <1>3 DEF WalkType
    <3> QED
      BY <1>1, <1>2, <1>3, <1>5, <3>1 DEF WalkType
  <2>2. PlaceType'
    BY <1>1, <1>2, <1>3 DEF PlaceType
  <2>3. SSAType'
    <3>1. wait' \subseteq Block \X Nat
      BY <1>1, <1>3, <1>4 DEF SSAType
    <3> QED
      BY <1>1, <1>2, <1>3, <3>1 DEF SSAType
  <2> QED
    BY <2>1, <2>2, <2>3, Zenon DEF TypeOK, PlaceType, WalkType, SSAType
<1>7. PhaseInv'
  BY <1>1, <1>2 DEF PhaseInv, AtStore
<1> QED
  BY <1>2, <1>6, <1>7 DEF ShapeInv

\* The phis of the successors get the current values.
LEMMA FillShape == ASSUME ShapeInv, FillPhis PROVE ShapeInv'
<1>1. /\ todo' = todo /\ var' = var /\ work' = work /\ wi' = wi /\ phi' = phi
      /\ frames' = frames /\ pc = "instr" /\ pc' = "kids" /\ use' = use
      /\ stk' = stk /\ known' = known /\ wait' = wait
      /\ erased' = erased /\ alloca' = alloca /\ pos' = pos
      /\ args' = [b \in Block |-> [v \in Promoted |->
           IF <<b, v>> \in PhisToFill
           THEN Append(args[b][v], [val |-> stk[v][Len(stk[v])], bb |-> Top.bb])
           ELSE args[b][v]]]
      /\ \A f \in PhisToFill : stk[f[2]] # <<>>
  BY DEF FillPhis, place_vars, AtEnd
<1>2. /\ Block' = Block /\ Loads' = Loads /\ Frame' = Frame
      /\ InputInv /\ InputInv' /\ TypeOK /\ PhaseInv
  BY SameInput DEF ShapeInv, FillPhis
<1>3. PlaceType /\ WalkType /\ SSAType
  BY <1>2, TypeParts
<1> DEFINE Arg == [val : Value, bb : Block]
<1>4. args \in [Block -> [Promoted -> Seq(Arg)]]
  BY <1>3 DEF SSAType
<1>5. ASSUME NEW b \in Block, NEW v \in Promoted
      PROVE  (IF <<b, v>> \in PhisToFill
              THEN Append(args[b][v], [val |-> stk[v][Len(stk[v])], bb |-> Top.bb])
              ELSE args[b][v]) \in Seq(Arg)
  <2>1. args[b][v] \in Seq(Arg)
    <3> HIDE DEF Arg
    <3> QED
      BY <1>4
  <2>2. CASE <<b, v>> \in PhisToFill
    <3>1. stk[v] # <<>>
      BY <1>1, <2>2
    <3>2. stk[v][Len(stk[v])] \in Value
      BY <1>3, <3>1 DEF WalkType
    <3>3. [val |-> stk[v][Len(stk[v])], bb |-> Top.bb] \in Arg
      BY <1>1, <3>2, TopFacts
    <3> HIDE DEF Arg
    <3> QED
      BY <2>1, <2>2, <3>3
  <2> QED
    BY <2>1, <2>2
<1>6. args' \in [Block -> [Promoted -> Seq(Arg)]]
  <2> HIDE DEF Arg
  <2> QED
    BY <1>1, <1>5
<1>7. TypeOK'
  <2>1. WalkType' /\ PlaceType'
    BY <1>1, <1>2, <1>3 DEF WalkType, PlaceType, Phase
  <2>2. SSAType'
    BY <1>1, <1>2, <1>3, <1>6 DEF SSAType
  <2> QED
    BY <2>1, <2>2, Zenon DEF TypeOK, PlaceType, WalkType, SSAType
<1>8. PhaseInv'
  BY <1>1, <1>2 DEF PhaseInv
<1> QED
  BY <1>2, <1>7, <1>8 DEF ShapeInv

\* The activation above the one that returns or calls has its type.
LEMMA CallShape == ASSUME ShapeInv, NEW c \in Block, Recurse(c) PROVE ShapeInv'
<1>1. /\ pc = "kids" /\ Enter(c, Append(Below, [Top EXCEPT !.kids = @ \ {c}]))
      /\ UNCHANGED <<input_vars, place_vars, ssa_vars>>
  BY DEF Recurse
<1>2. todo = {}
  BY <1>1 DEF ShapeInv, PhaseInv
<1>3. [Top EXCEPT !.kids = @ \ {c}] \in Frame
  BY <1>1, TopFacts DEF Frame
<1>4. Append(Below, [Top EXCEPT !.kids = @ \ {c}]) \in Seq(Frame)
  <2> DEFINE f == [Top EXCEPT !.kids = @ \ {c}]
  <2> HIDE DEF f, Frame
  <2>1. f \in Frame
    BY <1>3 DEF f
  <2>2. Append(Below, f) \in Seq(Frame)
    BY <1>1, <2>1, TopFacts
  <2> QED
    BY <2>2 DEF f
<1> QED
  BY <1>1, <1>2, <1>4, EnterShape

\* The first call.
LEMMA StartShape == ASSUME ShapeInv, StartRename PROVE ShapeInv'
<1>1. /\ pc = "vars" /\ todo = {} /\ Enter(Entry, <<>>)
      /\ UNCHANGED <<input_vars, place_vars, ssa_vars>>
  BY DEF StartRename
<1>2. Entry \in Block /\ <<>> \in Seq(Frame)
  BY InputFacts DEF ShapeInv
<1> QED
  BY <1>1, <1>2, EnterShape

\* An activation returns.
LEMMA LeaveShape == ASSUME ShapeInv, Leave, \A v \in Promoted : stk'[v] \in Seq(Value)
                    PROVE  ShapeInv'
<1>1. /\ todo' = todo /\ var' = var /\ work' = work /\ wi' = wi /\ phi' = phi
      /\ frames' = Below /\ pc = "kids" /\ use' = use /\ args' = args
      /\ pc' = IF Below = <<>> THEN "alloca" ELSE "kids"
      /\ known' = known /\ alloca' = alloca /\ pos' = pos
      /\ wait' = {w \in wait : w[1] # Top.bb}
      /\ erased' = erased \cup {w \in wait : w[1] = Top.bb}
      /\ stk' = [v \in Promoted |->
                   SubSeq(stk[v], 1, Len(stk[v]) - Pushes(Top.bb, v))]
  BY DEF Leave, place_vars
<1>2. /\ Block' = Block /\ Loads' = Loads /\ Frame' = Frame
      /\ InputInv /\ InputInv' /\ TypeOK /\ PhaseInv
  BY SameInput DEF ShapeInv, Leave
<1>3. PlaceType /\ WalkType /\ SSAType
  BY <1>2, TypeParts
<1>4. frames' \in Seq(Frame) /\ (Below # <<>> => Len(frames') >= 1)
  <2> HIDE DEF Frame
  <2> QED
    BY <1>1, TopFacts
<1>5. \A k \in DOMAIN frames' :
        /\ frames'[k].bb \in Block /\ frames'[k].kids \subseteq Block
        /\ frames'[k].saved \in [Promoted -> Seq(Value)]
  <2>1. \A k \in DOMAIN frames' : frames'[k] \in Frame
    BY <1>4
  <2> QED
    BY <2>1 DEF Frame
<1>6. TypeOK'
  <2>1. stk' \in [Promoted -> Seq(Value)]
    BY <1>1
  <2>2. WalkType'
    BY <1>1, <1>2, <1>3, <1>5, <2>1 DEF WalkType
  <2>3. PlaceType'
    BY <1>1, <1>2, <1>3 DEF PlaceType, Phase
  <2>4. SSAType'
    <3>1. wait' \subseteq Block \X Nat /\ erased' \subseteq Block \X Nat
      BY <1>1, <1>3 DEF SSAType
    <3> QED
      BY <1>1, <1>2, <1>3, <3>1 DEF SSAType
  <2> QED
    BY <2>2, <2>3, <2>4, Zenon DEF TypeOK, PlaceType, WalkType, SSAType
<1>7. PhaseInv'
  BY <1>1, <1>2, <1>4 DEF PhaseInv
<1> QED
  BY <1>2, <1>6, <1>7 DEF ShapeInv

-----------------------------------------------------------------------------
(***************************************************************************)
(* The phis.                                                               *)
(***************************************************************************)

\* No variable has a phi at the start.
LEMMA PhiInit == Init => PhiInv
<1> SUFFICES ASSUME Init PROVE PhiInv
  OBVIOUS
<1>1. /\ pc = "vars" /\ phi = [b \in Block |-> {}]
      /\ todo = {v \in Promoted : StoreBlocks(v) # {}}
  BY DEF Init
<1>2. \A v \in Promoted, b \in Block : v \notin todo => ~Defines(b, v)
  BY <1>1 DEF Defines
<1> QED
  BY <1>1, <1>2 DEF PhiInv

\* The work list of a variable starts with the blocks that store to it.
LEMMA PickVarPhi == ASSUME ShapeInv, PhiInv, NEW v \in Promoted, PickVar(v) PROVE PhiInv'
<1>1. /\ pc = "vars" /\ pc' = "work" /\ v \in todo /\ todo' = todo \ {v} /\ var' = v
      /\ wi' = 1 /\ phi' = phi
  BY DEF PickVar
<1>2. PICK s \in Orders(StoreBlocks(v)) : work' = s
  BY DEF PickVar
<1>3. /\ Block' = Block /\ df' = df /\ \A u : StoreBlocks(u)' = StoreBlocks(u)
  BY SameInput DEF PickVar
<1>4. \A b, u : Defines(b, u)' = Defines(b, u)
  BY <1>1, <1>3 DEF Defines
<1>5. StoreBlocks(v) \in SUBSET Block /\ IsFiniteSet(Block)
  BY InputFacts DEF ShapeInv
<1>6. \A b \in StoreBlocks(v) : \E i \in 1..Len(s) : s[i] = b
  BY <1>5, OrdersFacts
<1>7. \A b \in Block : v \notin phi[b]
  BY <1>1 DEF PhiInv
<1>8. StoreBlocks(v) # {} /\ \A u \in todo' : StoreBlocks(u) # {}
  BY <1>1 DEF PhiInv
<1>9. \A b \in Block : \A u \in phi[b] : u \notin todo' /\ StoreBlocks(u) # {}
  BY <1>1 DEF PhiInv
<1>10. \A b \in Block : Defines(b, v) => \E i \in 1..Len(work') : work'[i] = b
  BY <1>2, <1>6, <1>7 DEF Defines
<1>11. \A i \in 1..Len(work') : ~(i < wi')
  BY <1>1
<1>12. \A u \in Promoted : u \notin todo' /\ u # v =>
         \A b \in Block : Defines(b, u) => \A y \in df[b] : u \in phi[y]
  BY <1>1 DEF PhiInv
<1> QED
  BY <1>1, <1>3, <1>4, <1>8, <1>9, <1>10, <1>11, <1>12 DEF PhiInv

\* A block of the work list: its frontier gets its phis, and the blocks that
\* get one are put on the list.
LEMMA PlacePhi == ASSUME ShapeInv, PhiInv, PlacePhis PROVE PhiInv'
<1> DEFINE new == {y \in df[work[wi]] : var \notin phi[y]}
<1>1. /\ pc = "work" /\ pc' = pc /\ todo' = todo /\ var' = var /\ wi' = wi + 1
      /\ wi <= Len(work)
      /\ phi' = [b \in Block |-> phi[b] \cup (IF b \in new THEN {var} ELSE {})]
      /\ work' \in Extended(new)
  BY DEF PlacePhis
<1>2. /\ wi \in 1..Len(work) /\ work[wi] \in Block /\ var \in Promoted
      /\ work \in Seq(Block) /\ wi \in Nat
  BY <1>1 DEF ShapeInv, TypeOK, PhaseInv
<1>3. /\ Block' = Block /\ df' = df /\ \A u : StoreBlocks(u)' = StoreBlocks(u)
  BY SameInput DEF PlacePhis
<1>4. /\ new \in SUBSET Block /\ IsFiniteSet(Block)
      /\ \A b \in Block : df[b] \subseteq Block
  BY <1>2, InputFacts DEF ShapeInv
<1>5. \A y \in df[work[wi]] : y \in new \/ var \in phi[y]
  OBVIOUS
<1> HIDE DEF new
<1>6. PICK s \in Orders(new) : work' = work \o s
  BY <1>1 DEF Extended
<1>7. s \in Seq(Block) /\ \A b \in new : \E i \in 1..Len(s) : s[i] = b
  BY <1>4, OrdersFacts
<1>8. /\ Len(work) \in Nat /\ Len(s) \in Nat /\ Len(work') = Len(work) + Len(s)
      /\ \A i \in 1..Len(work) : work'[i] = work[i]
      /\ \A i \in 1..Len(s) : work'[Len(work) + i] = s[i]
  BY <1>2, <1>6, <1>7
<1>9. /\ \A b \in Block : \A u : u # var => (u \in phi'[b] <=> u \in phi[b])
      /\ \A b \in Block : var \in phi'[b] <=> var \in phi[b] \/ b \in new
  BY <1>1
<1>10. /\ \A b \in Block : \A u : u # var => (Defines(b, u)' <=> Defines(b, u))
       /\ \A b \in Block : Defines(b, var)' <=> Defines(b, var) \/ b \in new
  BY <1>1, <1>3, <1>9 DEF Defines
<1>11. /\ \A u \in todo : StoreBlocks(u) # {}
       /\ \A b \in Block : \A u \in phi'[b] : u \notin todo' /\ StoreBlocks(u) # {}
  BY <1>1, <1>9 DEF PhiInv
<1>12. ASSUME NEW b \in Block, Defines(b, var)'
       PROVE  \E i \in 1..Len(work') : work'[i] = b
  <2>1. CASE Defines(b, var)
    <3>1. PICK i \in 1..Len(work) : work[i] = b
      BY <1>1, <2>1 DEF PhiInv
    <3> QED
      BY <1>8, <3>1
  <2>2. CASE b \in new
    <3>1. PICK i \in 1..Len(s) : s[i] = b
      BY <1>7, <2>2
    <3>2. Len(work) + i \in 1..Len(work')
      BY <1>8, <3>1
    <3> QED
      BY <1>8, <3>1, <3>2
  <2> QED
    BY <1>10, <1>12, <2>1, <2>2
<1>13. ASSUME NEW i \in 1..Len(work'), i < wi', NEW y \in df[work'[i]]
       PROVE  var \in phi'[y]
  <2>1. i \in 1..Len(work) /\ work'[i] = work[i] /\ work[i] \in Block
    BY <1>1, <1>2, <1>8, <1>13
  <2>2. y \in Block
    BY <1>4, <1>13, <2>1
  <2>3. CASE i = wi
    BY <1>5, <1>9, <1>13, <2>1, <2>2, <2>3
  <2>4. CASE i < wi
    <3>1. var \in phi[y]
      BY <1>1, <1>13, <2>1, <2>4 DEF PhiInv
    <3> QED
      BY <1>9, <2>2, <3>1
  <2> QED
    BY <1>1, <1>2, <1>13, <2>3, <2>4
<1>14. ASSUME NEW u \in Promoted, u \notin todo, u # var, NEW b \in Block,
              Defines(b, u)', NEW y \in df[b]
       PROVE  u \in phi'[y]
  <2>1. Defines(b, u) /\ y \in Block
    BY <1>4, <1>10, <1>14
  <2>2. u \in phi[y]
    BY <1>14, <2>1 DEF PhiInv
  <2> QED
    BY <1>9, <1>14, <2>1, <2>2
<1>15. var' \notin todo' /\ StoreBlocks(var') # {}
  BY <1>1 DEF PhiInv
<1> QED
  BY <1>1, <1>3, <1>11, <1>12, <1>13, <1>14, <1>15 DEF PhiInv

\* At the end of the work list, all frontiers of the variable have their phis.
LEMMA NextVarPhi == ASSUME ShapeInv, PhiInv, NextVar PROVE PhiInv'
<1>1. /\ pc = "work" /\ pc' = "vars" /\ todo' = todo /\ wi > Len(work) /\ phi' = phi
  BY DEF NextVar
<1>2. wi \in Nat /\ Len(work) \in Nat
  BY DEF ShapeInv, TypeOK
<1>3. /\ Block' = Block /\ df' = df /\ \A u : StoreBlocks(u)' = StoreBlocks(u)
  BY SameInput DEF NextVar
<1>4. \A b, u : Defines(b, u)' = Defines(b, u)
  BY <1>1, <1>3 DEF Defines
<1>5. ASSUME NEW u \in Promoted, u \notin todo, NEW b \in Block, Defines(b, u),
             NEW y \in df[b]
      PROVE  u \in phi[y]
  <2>1. CASE u = var
    <3>1. PICK i \in 1..Len(work) : work[i] = b
      BY <1>1, <1>5, <2>1 DEF PhiInv
    <3>2. i < wi
      BY <1>1, <1>2, <3>1
    <3> QED
      BY <1>1, <1>5, <2>1, <3>1, <3>2 DEF PhiInv
  <2>2. CASE u # var
    BY <1>1, <1>5, <2>2 DEF PhiInv
  <2> QED
    BY <2>1, <2>2
<1> QED
  BY <1>1, <1>3, <1>4, <1>5 DEF PhiInv

\* The rest of the pass places no phi.
LEMMA SamePhi ==
  ASSUME PhiInv, UNCHANGED <<input_vars, place_vars>>,
         pc' = pc \/ (pc # "work" /\ pc' # "work")
  PROVE  PhiInv' /\ \A b, u : Defines(b, u)' = Defines(b, u)
<1>1. todo' = todo /\ var' = var /\ work' = work /\ wi' = wi /\ phi' = phi
  BY DEF place_vars
<1>2. /\ Block' = Block /\ df' = df /\ \A u : StoreBlocks(u)' = StoreBlocks(u)
  BY SameInput
<1>3. \A b, u : Defines(b, u)' = Defines(b, u)
  BY <1>1, <1>2 DEF Defines
<1> QED
  BY <1>1, <1>2, <1>3 DEF PhiInv

-----------------------------------------------------------------------------
(***************************************************************************)
(* The walk over the dominator tree.                                       *)
(***************************************************************************)

\* What the recursive call does to the activations.
LEMMA CallFrames ==
  ASSUME ShapeInv, NEW c \in Block, Recurse(c)
  PROVE  LET L == Len(frames) IN
         /\ L \in Nat \ {0} /\ Len(frames') = L + 1
         /\ \A k \in 1..L : /\ frames'[k].bb = frames[k].bb
                            /\ frames'[k].saved = frames[k].saved
                            /\ frames'[k].kids \subseteq frames[k].kids
                            /\ k < L => frames'[k].kids = frames[k].kids
         /\ frames'[L].kids = frames[L].kids \ {c}
         /\ frames'[L + 1].bb = c
         /\ frames'[L + 1].kids = kids[c]
         /\ frames'[L + 1].saved = stk
         /\ c \in frames[L].kids
<1> DEFINE f == [Top EXCEPT !.kids = @ \ {c}]
           h == [bb |-> c, kids |-> kids[c], saved |-> stk]
           L == Len(frames)
<1>1. pc = "kids" /\ c \in Top.kids /\ frames' = Append(Append(Below, f), h)
  BY DEF Recurse, Enter
<1>2. /\ L \in Nat \ {0} /\ Top = frames[L] /\ Top \in Frame
      /\ Below \in Seq(Frame) /\ Len(Below) = L - 1
      /\ \A k \in 1..(L - 1) : Below[k] = frames[k]
  BY <1>1, TopFacts
<1>3. /\ f.bb = frames[L].bb /\ f.saved = frames[L].saved
      /\ f.kids = frames[L].kids \ {c} /\ f \in Frame
  BY <1>2 DEF Frame
<1>4. h.bb = c /\ h.kids = kids[c] /\ h.saved = stk
  OBVIOUS
<1> HIDE DEF f, h, L
<1>5. /\ Append(Below, f) \in Seq(Frame) /\ Len(Append(Below, f)) = L
      /\ Append(Below, f)[L] = f
      /\ \A k \in 1..(L - 1) : Append(Below, f)[k] = frames[k]
  BY <1>2, <1>3
<1>6. /\ Len(frames') = L + 1 /\ frames'[L + 1] = h /\ frames'[L] = f
      /\ \A k \in 1..(L - 1) : frames'[k] = frames[k]
  BY <1>1, <1>2, <1>5
<1>7. ASSUME NEW k \in 1..L
      PROVE  /\ frames'[k].bb = frames[k].bb
             /\ frames'[k].saved = frames[k].saved
             /\ frames'[k].kids \subseteq frames[k].kids
             /\ k < L => frames'[k].kids = frames[k].kids
  <2>1. CASE k = L
    BY <1>2, <1>3, <1>6, <2>1
  <2>2. CASE k \in 1..(L - 1)
    BY <1>6, <2>2
  <2> QED
    BY <1>2, <2>1, <2>2
<1> QED
  BY <1>1, <1>2, <1>3, <1>4, <1>6, <1>7 DEF L

\* The parent of a block in the tree is its closest strict dominator.
LEMMA ChildFacts ==
  ASSUME InputInv, NEW b \in Block, NEW c \in kids[b]
  PROVE  /\ c \in Block /\ c \in ReachableIn(g) /\ SDomIn(g, b, c)
         /\ \A x \in Block : DomIn(g, x, c) => x = c \/ DomIn(g, x, b)
<1>1. IsIdomIn(g, b, c) /\ c \in Block
  BY InputFacts DEF ChildrenIn
<1>2. SDomIn(g, b, c) /\ \A x \in Block : SDomIn(g, x, c) => DomIn(g, x, b)
  BY <1>1, InputFacts DEF IsIdomIn
<1>3. c \in ReachableIn(g)
  BY <1>2 DEF SDomIn, DomIn
<1> QED
  BY <1>1, <1>2, <1>3 DEF SDomIn

\* The recursive call goes down to a child.
LEMMA CallPath == ASSUME ShapeInv, PathInv, NEW c \in Block, Recurse(c) PROVE PathInv'
<1> DEFINE L == Len(frames)
           T == frames[L].bb
<1>1. /\ L \in Nat \ {0} /\ Len(frames') = L + 1
      /\ \A k \in 1..L : /\ frames'[k].bb = frames[k].bb
                         /\ frames'[k].kids \subseteq frames[k].kids
      /\ frames'[L].kids = frames[L].kids \ {c}
      /\ frames'[L + 1].bb = c /\ frames'[L + 1].kids = kids[c]
      /\ c \in frames[L].kids
  BY CallFrames
<1>2. g' = g /\ kids' = kids /\ Block' = Block
  BY SameInput DEF Recurse
<1>3. InputInv /\ IsFlowGraph(g) /\ \A k \in 1..L : frames[k].bb \in Block
  BY InputFacts DEF ShapeInv, PathInv
<1> HIDE DEF L
<1>4. /\ \A k \in 1..L :
           /\ frames[k].bb \in ReachableIn(g)
           /\ frames[k].kids \subseteq kids[frames[k].bb]
           /\ k = 1 => frames[k].bb = Entry
           /\ \A j \in 1..L : j < k => SDomIn(g, frames[j].bb, frames[k].bb)
           /\ \A x \in Block :
                DomIn(g, x, frames[k].bb) => \E j \in 1..k : frames[j].bb = x
      /\ \A j, k \in 1..L : \A x \in frames[j].kids : ~DomIn(g, x, frames[k].bb)
  BY DEF PathInv, L
<1>5. T \in Block /\ c \in kids[T] /\ L \in 1..L /\ T \in ReachableIn(g)
  BY <1>1, <1>3, <1>4
<1>6. /\ c \in ReachableIn(g) /\ SDomIn(g, T, c)
      /\ \A x \in Block : DomIn(g, x, c) => x = c \/ DomIn(g, x, T)
  BY <1>3, <1>5, ChildFacts
<1>7. \A j \in 1..L : SDomIn(g, frames[j].bb, c)
  <2> SUFFICES ASSUME NEW j \in 1..L PROVE SDomIn(g, frames[j].bb, c)
    OBVIOUS
  <2>1. CASE j = L
    BY <1>6, <2>1
  <2>2. CASE j < L
    <3>1. SDomIn(g, frames[j].bb, T)
      BY <1>4, <1>5, <2>2
    <3>2. DomIn(g, frames[j].bb, c)
      BY <1>3, <1>6, <3>1, DomTransitive DEF SDomIn
    <3>3. frames[j].bb # c
      BY <1>3, <1>6, <3>1, DomAntisymmetric DEF SDomIn
    <3> QED
      BY <3>2, <3>3 DEF SDomIn
  <2> QED
    BY <1>1, <2>1, <2>2
<1>8. \A x \in Block : DomIn(g, x, c) => \E j \in 1..(L + 1) : frames'[j].bb = x
  <2> SUFFICES ASSUME NEW x \in Block, DomIn(g, x, c)
               PROVE  \E j \in 1..(L + 1) : frames'[j].bb = x
    OBVIOUS
  <2>1. CASE x = c
    BY <1>1, <2>1
  <2>2. CASE DomIn(g, x, T)
    <3>1. PICK j \in 1..L : frames[j].bb = x
      BY <1>4, <1>5, <2>2
    <3> QED
      BY <1>1, <3>1
  <2> QED
    BY <1>6, <2>1, <2>2
<1>9. ASSUME NEW k \in 1..Len(frames')
      PROVE  /\ frames'[k].bb \in ReachableIn(g)
             /\ frames'[k].kids \subseteq kids[frames'[k].bb]
             /\ k = 1 => frames'[k].bb = Entry
             /\ \A j \in 1..Len(frames') :
                  j < k => SDomIn(g, frames'[j].bb, frames'[k].bb)
             /\ \A x \in Block :
                  DomIn(g, x, frames'[k].bb) => \E j \in 1..k : frames'[j].bb = x
  <2>1. CASE k = L + 1
    BY <1>1, <1>6, <1>7, <1>8, <2>1
  <2>2. CASE k \in 1..L
    <3>1. \A j \in 1..Len(frames') : j < k => j \in 1..L
      BY <1>1, <2>2
    <3>2. \A j \in 1..k : j \in 1..L
      BY <1>1, <2>2
    <3> QED
      BY <1>1, <1>4, <2>2, <3>1, <3>2
  <2> QED
    BY <1>1, <2>1, <2>2
<1>10. ASSUME NEW j \in 1..Len(frames'), NEW k \in 1..Len(frames'),
              NEW x \in frames'[j].kids, DomIn(g, x, frames'[k].bb)
       PROVE  FALSE
  <2>1. CASE j = L + 1
    <3>1. x \in kids[c]
      BY <1>1, <2>1
    <3>2. SDomIn(g, c, x) /\ x \in Block
      BY <1>3, <3>1, ChildFacts
    <3>3. DomIn(g, frames'[k].bb, c)
      BY <1>1, <1>3, <1>6, <1>7, DomBasic DEF SDomIn
    <3>4. DomIn(g, x, c)
      BY <1>3, <1>10, <3>3, DomTransitive
    <3> QED
      BY <1>3, <3>2, <3>4, DomAntisymmetric DEF SDomIn
  <2>2. CASE j \in 1..L
    <3>1. x \in frames[j].kids /\ x \in kids[frames[j].bb]
      BY <1>1, <1>4, <2>2
    <3>2. x \in Block /\ SDomIn(g, frames[j].bb, x)
      BY <1>3, <2>2, <3>1, ChildFacts
    <3>3. CASE k \in 1..L
      BY <1>1, <1>4, <1>10, <2>2, <3>1, <3>3
    <3>4. CASE k = L + 1
      <4>1. x = c
        BY <1>1, <1>4, <1>5, <1>6, <1>10, <2>2, <3>1, <3>2, <3>4
      <4>2. j # L
        BY <1>1, <1>10, <4>1
      <4>3. SDomIn(g, frames[j].bb, T)
        BY <1>1, <1>4, <1>5, <2>2, <4>2
      <4>4. DomIn(g, T, frames[j].bb)
        <5>1. T # c /\ DomIn(g, T, c)
          BY <1>6 DEF SDomIn
        <5>2. \A y \in Block : DomIn(g, y, c) => y = c \/ DomIn(g, y, frames[j].bb)
          BY <1>3, <2>2, <3>1, <4>1, ChildFacts
        <5> QED
          BY <1>5, <5>1, <5>2
      <4> QED
        BY <1>3, <4>3, <4>4, DomAntisymmetric DEF SDomIn
    <3> QED
      BY <1>1, <3>3, <3>4
  <2> QED
    BY <1>1, <2>1, <2>2
<1> QED
  BY <1>2, <1>9, <1>10 DEF PathInv

\* The first call is on the entry block.
LEMMA StartPath == ASSUME ShapeInv, StartRename PROVE PathInv'
<1>1. frames' = <<[bb |-> Entry, kids |-> kids[Entry], saved |-> stk]>>
  BY DEF StartRename, Enter
<1>2. g' = g /\ kids' = kids /\ Block' = Block
  BY SameInput DEF StartRename
<1>3. InputInv /\ IsFlowGraph(g) /\ Entry \in Block /\ Entry \in ReachableIn(g)
  BY InputFacts, ReachFacts DEF ShapeInv
<1>4. \A x : DomIn(g, x, Entry) => x = Entry
  BY <1>3, DomBasic
<1>5. \A x \in kids[Entry] : SDomIn(g, Entry, x)
  BY <1>3, ChildFacts
<1>6. \A x \in kids[Entry] : ~DomIn(g, x, Entry)
  BY <1>4, <1>5 DEF SDomIn
<1>7. /\ Len(frames') = 1 /\ frames'[1].bb = Entry /\ frames'[1].kids = kids[Entry]
      /\ 1..1 = {1}
  BY <1>1
<1> HIDE DEF Entry
<1> QED
  BY <1>2, <1>3, <1>4, <1>6, <1>7 DEF PathInv

\* The other steps keep the activations, or take the innermost away.
LEMMA SamePath ==
  ASSUME PathInv, UNCHANGED input_vars, Len(frames) \in Nat, Len(frames') \in Nat,
         Len(frames') <= Len(frames),
         \A k \in 1..Len(frames') : frames'[k] = frames[k]
  PROVE  PathInv'
<1>1. g' = g /\ kids' = kids /\ Block' = Block
  BY SameInput
<1>2. \A k \in 1..Len(frames') : k \in 1..Len(frames)
  OBVIOUS
<1>3. \A k \in 1..Len(frames') : \A j \in 1..k : j \in 1..Len(frames')
  OBVIOUS
<1> QED
  BY <1>1, <1>2, <1>3 DEF PathInv

-----------------------------------------------------------------------------
(***************************************************************************)
(* The stacks.                                                             *)
(***************************************************************************)

\* How the number of values a block has given a variable grows.
LEMMA PushedFacts ==
  ASSUME InputInv, NEW b \in Block, NEW v
  PROVE  /\ Pushes(b, v) \in Nat
         /\ Pushed(b, v, 1) = IF v \in phi[b] THEN 1 ELSE 0
         /\ \A q \in Nat \ {0} :
              /\ Pushed(b, v, q) \in Nat
              /\ Pushed(b, v, q + 1) =
                   IF IsStore(b, q) /\ code[b][q].lval = v
                   THEN Pushed(b, v, q) + 1 ELSE Pushed(b, v, q)
              /\ q > Len(code[b]) => Pushed(b, v, q) = Pushes(b, v)
              /\ v \in phi[b] => Pushed(b, v, q) > 0
              /\ \A i : i < q /\ IsStore(b, i) /\ code[b][i].lval = v =>
                   Pushed(b, v, q) > 0
         /\ Defines(b, v) => Pushes(b, v) > 0
<1> DEFINE D == DOMAIN code[b]
           St(i) == IsStore(b, i) /\ code[b][i].lval = v
           A(q) == {i \in D : i < q /\ St(i)}
           All == {i \in D : St(i)}
           e == IF v \in phi[b] THEN 1 ELSE 0
<1>1. D = 1..Len(code[b]) /\ Len(code[b]) \in Nat
  BY InputFacts
<1>2. IsFiniteSet(D)
  <2> DEFINE n == Len(code[b])
  <2>1. n \in Nat /\ 0 \in Int
    BY <1>1
  <2> HIDE DEF n
  <2>2. IsFiniteSet(1..n)
    BY <2>1, FS_Interval
  <2> QED
    BY <1>1, <2>2 DEF n
<1>3. \A q : Pushed(b, v, q) = Cardinality(A(q)) + e
  BY DEF Pushed
<1>4. Pushes(b, v) = Cardinality(All) + e
  BY DEF Pushes
<1>5. \A i : St(i) => i \in D
  BY DEF IsStore
<1> HIDE DEF St, D
<1>6. /\ IsFiniteSet(All) /\ Cardinality(All) \in Nat
      /\ \A q : IsFiniteSet(A(q)) /\ Cardinality(A(q)) \in Nat
  <2>1. All \in SUBSET D /\ \A q : A(q) \in SUBSET D
    OBVIOUS
  <2> HIDE DEF All, A
  <2> QED
    BY <1>2, <2>1, FS_Subset, FS_CardinalityType
<1>7. \A i \in All : Cardinality(All) > 0
  <2> HIDE DEF All
  <2>1. ASSUME NEW i \in All PROVE Cardinality(All) # 0
    BY <1>6, <2>1, FS_EmptySet
  <2> QED
    BY <1>6, <2>1
<1>8. ASSUME NEW q, NEW i \in A(q) PROVE Cardinality(A(q)) > 0
  <2> DEFINE B == A(q)
  <2> HIDE DEF A
  <2>1. Cardinality(B) # 0
    BY <1>6, <1>8, FS_EmptySet
  <2> QED
    BY <1>6, <2>1
<1>9. e \in {0, 1} /\ (v \in phi[b] => e = 1)
  OBVIOUS
<1>10. Cardinality(A(1)) = 0
  <2>1. A(1) = {}
    BY <1>1 DEF D
  <2> HIDE DEF A
  <2> QED
    BY <2>1, FS_EmptySet
<1>11. ASSUME NEW q \in Nat \ {0}
       PROVE  Cardinality(A(q + 1)) = IF St(q) THEN Cardinality(A(q)) + 1
                                      ELSE Cardinality(A(q))
  <2>1. \A i \in D : i < q + 1 <=> i < q \/ i = q
    BY <1>1 DEF D
  <2>2. CASE St(q)
    <3>1. A(q + 1) = A(q) \cup {q} /\ q \notin A(q)
      BY <1>5, <2>1, <2>2
    <3> HIDE DEF A
    <3>2. Cardinality(A(q) \cup {q}) = Cardinality(A(q)) + 1
      BY <1>6, <3>1, FS_AddElement
    <3> QED
      BY <2>2, <3>1, <3>2
  <2>3. CASE ~St(q)
    <3>1. A(q + 1) = A(q)
      BY <2>1, <2>3
    <3> QED
      BY <2>3, <3>1
  <2> QED
    BY <2>2, <2>3
<1>12. ASSUME NEW q \in Nat \ {0}, q > Len(code[b]) PROVE A(q) = All
  BY <1>1, <1>12 DEF D
<1>13. Defines(b, v) => Pushes(b, v) > 0
  <2>1. CASE v \in phi[b]
    <3> HIDE DEF All
    <3> QED
      BY <1>4, <1>6, <1>9, <2>1
  <2>2. CASE b \in StoreBlocks(v)
    <3>1. PICK i : i \in All
      BY <1>5, <2>2 DEF StoreBlocks, St
    <3>2. Cardinality(All) > 0
      BY <1>7, <3>1
    <3> HIDE DEF All, e
    <3> QED
      BY <1>4, <1>6, <1>9, <3>2
  <2> QED
    BY <2>1, <2>2 DEF Defines
<1>14. ASSUME NEW q \in Nat \ {0}
       PROVE  /\ Pushed(b, v, q) \in Nat
              /\ Pushed(b, v, q + 1) =
                   IF St(q) THEN Pushed(b, v, q) + 1 ELSE Pushed(b, v, q)
              /\ q > Len(code[b]) => Pushed(b, v, q) = Pushes(b, v)
              /\ v \in phi[b] => Pushed(b, v, q) > 0
              /\ \A i : i < q /\ St(i) => Pushed(b, v, q) > 0
  <2>1. \A i : i < q /\ St(i) => Cardinality(A(q)) > 0
    BY <1>5, <1>8
  <2>2. q > Len(code[b]) => A(q) = All
    BY <1>12
  <2>3. /\ Pushed(b, v, q) = Cardinality(A(q)) + e
        /\ Pushed(b, v, q + 1) = Cardinality(A(q + 1)) + e
    BY <1>3
  <2> DEFINE n == Cardinality(A(q))
             n1 == Cardinality(A(q + 1))
  <2>4. n \in Nat /\ n1 = IF St(q) THEN n + 1 ELSE n
    BY <1>6, <1>11
  <2>5. q > Len(code[b]) => n = Cardinality(All)
    BY <2>2
  <2> HIDE DEF A, All, e, n, n1
  <2>6. Pushed(b, v, q) = n + e /\ Pushed(b, v, q + 1) = n1 + e
    BY <2>3 DEF n, n1
  <2>7. \A i : i < q /\ St(i) => n > 0
    BY <2>1 DEF n
  <2> QED
    BY <1>4, <1>9, <2>4, <2>5, <2>6, <2>7
<1>15. Pushes(b, v) \in Nat /\ Pushed(b, v, 1) = e
  <2>1. Pushed(b, v, 1) = Cardinality(A(1)) + e
    BY <1>3
  <2> HIDE DEF A, All, e
  <2> QED
    BY <1>4, <1>6, <1>9, <1>10, <2>1
<1> QED
  BY <1>13, <1>14, <1>15 DEF St

\* The pushes of a block do not change once the phis are placed.
LEMMA SamePushes ==
  ASSUME UNCHANGED input_vars, phi' = phi
  PROVE  /\ \A b, v : Pushes(b, v)' = Pushes(b, v)
         /\ \A b, v, q : Pushed(b, v, q)' = Pushed(b, v, q)
         /\ \A b, v : Defines(b, v)' = Defines(b, v)
<1>1. code' = code /\ g' = g
  BY SameInput
<1>2. \A b, v : Pushes(b, v)' = Pushes(b, v)
  BY <1>1 DEF Pushes, IsStore
<1>3. \A b, v, q : Pushed(b, v, q)' = Pushed(b, v, q)
  BY <1>1 DEF Pushed, IsStore
<1>4. \A b, v : Defines(b, v)' = Defines(b, v)
  BY <1>1 DEF Defines, StoreBlocks, IsStore, Block
<1> QED
  BY <1>2, <1>3, <1>4

\* Pushing a value, and popping as many as were pushed.
LEMMA ExtendsFacts ==
  ASSUME NEW S, NEW s \in Seq(S), NEW u \in Seq(S), NEW n \in Nat
  PROVE  /\ Extends(s, s, 0)
         /\ \A w : Extends(s, u, n) => Extends(s, Append(u, w), n + 1)
         /\ Extends(s, u, n) => SubSeq(u, 1, Len(u) - n) = s
<1>1. Len(s) \in Nat /\ Len(u) \in Nat
  OBVIOUS
<1>2. Extends(s, s, 0)
  BY <1>1 DEF Extends
<1>3. ASSUME NEW w, Extends(s, u, n) PROVE Extends(s, Append(u, w), n + 1)
  <2>1. /\ Len(Append(u, w)) = Len(u) + 1
        /\ \A i \in 1..Len(u) : Append(u, w)[i] = u[i]
    OBVIOUS
  <2>2. Len(u) = Len(s) + n /\ \A i \in 1..Len(s) : u[i] = s[i] /\ i \in 1..Len(u)
    BY <1>1, <1>3 DEF Extends
  <2> QED
    BY <1>1, <2>1, <2>2 DEF Extends
<1>4. ASSUME Extends(s, u, n) PROVE SubSeq(u, 1, Len(u) - n) = s
  <2> DEFINE m == Len(s)
  <2>1. m \in Nat /\ m <= Len(u) /\ Len(u) - n = m /\ \A i \in 1..m : u[i] = s[i]
    BY <1>1, <1>4 DEF Extends
  <2> HIDE DEF m
  <2>2. /\ SubSeq(u, 1, m) \in Seq(S) /\ Len(SubSeq(u, 1, m)) = m
        /\ \A i \in 1..m : SubSeq(u, 1, m)[i] = u[i]
    BY <1>1, <2>1
  <2>3. Len(s) = m
    BY DEF m
  <2>4. SubSeq(u, 1, m) = s
    BY <2>1, <2>2, <2>3
  <2> QED
    BY <2>1, <2>4
<1> QED
  BY <1>2, <1>3, <1>4

\* The lengths of a stack and of the one it extends.
LEMMA ExtendsLen ==
  ASSUME NEW s \in Seq(Value), NEW u \in Seq(Value), NEW n \in Nat, Extends(s, u, n)
  PROVE  /\ Len(s) \in Nat /\ Len(u) \in Nat
         /\ Len(s) > 0 => Len(u) > 0
         /\ n > 0 => Len(u) > 0
BY DEF Extends

\* A call pushes the phis of its block.
LEMMA EnterStack ==
  ASSUME ShapeInv, ValueInv, PhiInv, NEW b \in Block, NEW callers, Enter(b, callers),
         UNCHANGED input_vars, phi' = phi
  PROVE  /\ \A v \in Promoted : Extends(stk[v], stk'[v], Pushed(b, v, 1))
         /\ \A v \in Promoted : Len(stk'[v]) > 0 => v \in known'
         /\ \A v \in known' : StoreBlocks(v)' # {}
         /\ known \subseteq known'
<1>1. /\ stk' = [v \in Promoted |-> IF v \in phi[b]
                                    THEN Append(stk[v], <<"phi", b, v>>)
                                    ELSE stk[v]]
      /\ known' = known \cup phi[b]
  BY DEF Enter
<1>2. InputInv /\ stk \in [Promoted -> Seq(Value)] /\ phi[b] \subseteq Promoted
  BY DEF ShapeInv, TypeOK
<1>3. ASSUME NEW v \in Promoted
      PROVE  Extends(stk[v], stk'[v], Pushed(b, v, 1))
  <2>1. Pushed(b, v, 1) = IF v \in phi[b] THEN 1 ELSE 0
    BY <1>2, PushedFacts
  <2>2. stk[v] \in Seq(Value)
    BY <1>2
  <2>3. Extends(stk[v], stk[v], 0) /\ Extends(stk[v], Append(stk[v], <<"phi", b, v>>), 0 + 1)
    BY <2>2, ExtendsFacts
  <2> QED
    BY <1>1, <2>1, <2>3
<1>4. \A v \in Promoted : Len(stk'[v]) > 0 => v \in known'
  BY <1>1 DEF ValueInv
<1>5. \A v \in known' : StoreBlocks(v)' # {}
  BY <1>1, SameInput DEF ValueInv, PhiInv
<1> QED
  BY <1>1, <1>3, <1>4, <1>5

\* The recursive call.
LEMMA CallStack ==
  ASSUME ShapeInv, PathInv, StackInv, ValueInv, PhiInv, NEW c \in Block, Recurse(c)
  PROVE  StackInv' /\ ValueInv'
<1> DEFINE L == Len(frames)
<1>1. /\ L \in Nat \ {0} /\ Len(frames') = L + 1
      /\ \A k \in 1..L : /\ frames'[k].bb = frames[k].bb
                         /\ frames'[k].saved = frames[k].saved
      /\ frames'[L + 1].bb = c /\ frames'[L + 1].saved = stk
  BY CallFrames
<1>2. /\ pc = "kids" /\ pc' = "instr" /\ pos' = 1 /\ UNCHANGED input_vars /\ phi' = phi
  BY DEF Recurse, Enter, place_vars
<1>3. /\ \A b, v : Pushes(b, v)' = Pushes(b, v)
      /\ \A b, v, q : Pushed(b, v, q)' = Pushed(b, v, q)
      /\ \A b, v : Defines(b, v)' = Defines(b, v)
  BY <1>2, SamePushes
<1>4. /\ \A v \in Promoted : Extends(stk[v], stk'[v], Pushed(c, v, 1))
      /\ \A v \in Promoted : Len(stk'[v]) > 0 => v \in known'
      /\ \A v \in known' : StoreBlocks(v)' # {}
      /\ known \subseteq known'
  BY <1>2, EnterStack DEF Recurse
<1>5. /\ InputInv /\ Top = frames[L] /\ stk \in [Promoted -> Seq(Value)]
      /\ \A k \in 1..L : frames[k].bb \in Block
      /\ \A k \in 1..L : frames[k].saved \in [Promoted -> Seq(Value)]
  BY DEF ShapeInv, TypeOK, PhaseInv, Top
<1>6. Top' = frames'[L + 1]
  BY <1>1 DEF Top
<1> HIDE DEF L
<1>7. \A v \in Promoted : Extends(frames[L].saved[v], stk[v], Pushes(frames[L].bb, v))
  BY <1>2, <1>5 DEF StackInv
<1>8. StackInv'
  <2>1. ASSUME NEW k \in 1..L, NEW v \in Promoted
        PROVE  Extends(frames'[k].saved[v], frames'[k + 1].saved[v],
                       Pushes(frames'[k].bb, v))
    <3>1. CASE k = L
      BY <1>1, <1>7, <3>1
    <3>2. CASE k \in 1..(L - 1)
      <4>1. k + 1 \in 1..L
        BY <1>1, <3>2
      <4>2. Extends(frames[k].saved[v], frames[k + 1].saved[v], Pushes(frames[k].bb, v))
        BY <3>2 DEF StackInv, L
      <4> QED
        BY <1>1, <4>1, <4>2
    <3> QED
      BY <1>1, <3>1, <3>2
  <2>2. 1..(Len(frames') - 1) = 1..L
    BY <1>1
  <2>3. \A v \in Promoted : Extends(Top'.saved[v], stk'[v], Pushed(Top'.bb, v, pos'))
    BY <1>1, <1>2, <1>4, <1>6
  <2> QED
    BY <1>2, <1>3, <2>1, <2>2, <2>3 DEF StackInv
<1>9. ValueInv'
  <2>1. ASSUME NEW j \in 1..(L + 1), NEW k \in 1..(L + 1), NEW v \in Promoted,
               j < k, Defines(frames'[j].bb, v)
        PROVE  Len(frames'[k].saved[v]) > 0
    <3>1. j \in 1..L /\ frames'[j].bb = frames[j].bb
      BY <1>1, <2>1
    <3>2. CASE k \in 1..L
      BY <1>1, <2>1, <3>1, <3>2 DEF ValueInv, L
    <3>3. CASE k = L + 1
      <4>1. /\ frames[L].saved[v] \in Seq(Value) /\ stk[v] \in Seq(Value)
            /\ L \in 1..L
            /\ Pushes(frames[L].bb, v) \in Nat
            /\ Extends(frames[L].saved[v], stk[v], Pushes(frames[L].bb, v))
        <5>1. L \in 1..L /\ frames[L].bb \in Block
          BY <1>1, <1>5
        <5>2. Pushes(frames[L].bb, v) \in Nat
          BY <1>5, <5>1, PushedFacts
        <5>3. frames[L].saved[v] \in Seq(Value) /\ stk[v] \in Seq(Value)
          BY <1>5, <5>1
        <5> QED
          BY <1>7, <5>1, <5>2, <5>3
      <4>2. CASE j = L
        <5>1. Pushes(frames[L].bb, v) > 0
          BY <1>1, <1>5, <2>1, <3>1, <4>2, PushedFacts
        <5>2. Len(stk[v]) > 0
          BY <4>1, <5>1, ExtendsLen
        <5> QED
          BY <1>1, <3>3, <5>2
      <4>3. CASE j < L
        <5>1. Len(frames[L].saved[v]) > 0
          BY <1>1, <2>1, <3>1, <4>1, <4>3 DEF ValueInv, L
        <5>2. Len(stk[v]) > 0
          BY <4>1, <5>1, ExtendsLen
        <5> QED
          BY <1>1, <3>3, <5>2
      <4> QED
        BY <1>1, <3>1, <4>2, <4>3
    <3> QED
      BY <1>1, <3>2, <3>3
  <2>2. ASSUME NEW k \in 1..(L + 1), NEW v \in Promoted, Len(frames'[k].saved[v]) > 0
        PROVE  v \in known'
    <3>1. CASE k \in 1..L
      BY <1>1, <1>4, <2>2, <3>1 DEF ValueInv, L
    <3>2. CASE k = L + 1
      BY <1>1, <1>4, <2>2, <3>2 DEF ValueInv
    <3> QED
      BY <1>1, <3>1, <3>2
  <2> QED
    BY <1>1, <1>3, <1>4, <2>1, <2>2 DEF ValueInv
<1> QED
  BY <1>8, <1>9

\* The first call.
LEMMA StartStack ==
  ASSUME ShapeInv, ValueInv, PhiInv, StartRename PROVE StackInv' /\ ValueInv'
<1>1. /\ frames' = <<[bb |-> Entry, kids |-> kids[Entry], saved |-> stk]>>
      /\ pc = "vars" /\ pc' = "instr" /\ pos' = 1 /\ UNCHANGED input_vars /\ phi' = phi
  BY DEF StartRename, Enter, place_vars
<1>2. Entry \in Block /\ \A v \in Promoted : stk[v] = <<>>
  BY <1>1, InputFacts DEF ShapeInv, PhaseInv
<1>3. /\ \A v \in Promoted : Extends(stk[v], stk'[v], Pushed(Entry, v, 1))
      /\ \A v \in Promoted : Len(stk'[v]) > 0 => v \in known'
      /\ \A v \in known' : StoreBlocks(v)' # {}
  BY <1>1, <1>2, EnterStack DEF StartRename
<1>4. /\ Len(frames') = 1 /\ frames'[1].bb = Entry /\ frames'[1].saved = stk
      /\ 1..1 = {1} /\ 1..0 = {} /\ Top' = frames'[1]
  BY <1>1 DEF Top
<1>5. StackInv'
  <2>1. \A v \in Promoted : Extends(Top'.saved[v], stk'[v], Pushed(Top'.bb, v, pos'))
    BY <1>1, <1>3, <1>4
  <2>2. 1..(Len(frames') - 1) = {}
    BY <1>4
  <2>3. \A b, v, q : Pushed(b, v, q)' = Pushed(b, v, q)
    BY <1>1, SamePushes
  <2> QED
    BY <1>1, <2>1, <2>2, <2>3 DEF StackInv
<1>6. ValueInv'
  <2>1. \A v \in Promoted : ~(Len(stk[v]) > 0)
    BY <1>2
  <2>2. \A j, k \in 1..Len(frames') : ~(j < k)
    BY <1>4
  <2> QED
    BY <1>3, <1>4, <2>1, <2>2 DEF ValueInv
<1> QED
  BY <1>5, <1>6

\* generate_phi touches no stack.
LEMMA PlaceStack ==
  ASSUME ShapeInv, ValueInv, (\E v \in Promoted : PickVar(v)) \/ PlacePhis \/ NextVar
  PROVE  StackInv' /\ ValueInv'
<1>1. /\ pc \in {"vars", "work"} /\ pc' \in {"vars", "work"} /\ UNCHANGED input_vars
      /\ frames' = frames /\ stk' = stk /\ known' = known
  BY DEF PickVar, PlacePhis, NextVar
<1>2. frames = <<>> /\ Len(frames) = 0 /\ 1..0 = {} /\ 1..(0 - 1) = {}
  BY <1>1 DEF ShapeInv, PhaseInv
<1>3. \A v : StoreBlocks(v)' = StoreBlocks(v)
  BY <1>1, SameInput
<1> QED
  BY <1>1, <1>2, <1>3 DEF StackInv, ValueInv

\* The steps that push nothing and keep the activations: past a load or a
\* store of another address, at the end of the block, or out of the walk.
LEMMA SameStack ==
  ASSUME ShapeInv, StackInv, ValueInv, QuietStep \/ ReplaceLoad \/ FillPhis
  PROVE  StackInv' /\ ValueInv'
<1>1. /\ UNCHANGED input_vars /\ phi' = phi
      /\ frames' = frames /\ stk' = stk /\ known' = known
  BY DEF QuietStep, ReplaceLoad, FillPhis, place_vars
<1>2. /\ \A b, v : Pushes(b, v)' = Pushes(b, v)
      /\ \A b, v, q : Pushed(b, v, q)' = Pushed(b, v, q)
      /\ \A b, v : Defines(b, v)' = Defines(b, v)
      /\ \A v : StoreBlocks(v)' = StoreBlocks(v)
      /\ Top' = Top
  BY <1>1, SamePushes, SameInput DEF Top
<1>3. InputInv /\ pos \in Nat \ {0}
  BY DEF ShapeInv, TypeOK
<1>4. ASSUME pc' = "instr", NEW v \in Promoted
      PROVE  Extends(Top.saved[v], stk[v], Pushed(Top.bb, v, pos'))
  <2>1. pc = "instr"
    BY <1>4 DEF QuietStep, KeepLoad, KeepStore, BackOfEmpty, AssertFails,
       RemoveAlloca, ReplaceLoad, FillPhis, AtLoad, AtStore, AtEnd, vars
  <2>2. \/ pos' = pos
        \/ pos' = pos + 1 /\ ~(IsStore(Top.bb, pos) /\ code[Top.bb][pos].lval = v)
    BY <1>4 DEF QuietStep, KeepLoad, KeepStore, BackOfEmpty, AssertFails,
       RemoveAlloca, ReplaceLoad, FillPhis, AtLoad, AtStore, IsLoad, IsStore, Here, vars
  <2>3. Top.bb \in Block
    BY <2>1, TopFacts
  <2>4. Pushed(Top.bb, v, pos') = Pushed(Top.bb, v, pos)
    <3>1. Pushed(Top.bb, v, pos + 1) =
            IF IsStore(Top.bb, pos) /\ code[Top.bb][pos].lval = v
            THEN Pushed(Top.bb, v, pos) + 1 ELSE Pushed(Top.bb, v, pos)
      BY <1>3, <2>3, PushedFacts
    <3> QED
      BY <2>2, <3>1
  <2> QED
    BY <2>1, <2>4 DEF StackInv
<1>5. ASSUME pc' = "kids", NEW v \in Promoted
      PROVE  Extends(Top.saved[v], stk[v], Pushes(Top.bb, v))
  <2>1. CASE pc = "kids"
    BY <2>1 DEF StackInv
  <2>2. CASE pc # "kids"
    <3>1. FillPhis
      BY <1>5, <2>2 DEF QuietStep, KeepLoad, KeepStore, BackOfEmpty, AssertFails,
         RemoveAlloca, ReplaceLoad, AtLoad, AtStore, AtEnd, vars
    <3>2. pc = "instr" /\ pos > Len(code[Top.bb])
      BY <3>1 DEF FillPhis, AtEnd
    <3>3. Top.bb \in Block
      BY <3>2, TopFacts
    <3>4. Pushed(Top.bb, v, pos) = Pushes(Top.bb, v)
      BY <1>3, <3>2, <3>3, PushedFacts
    <3> QED
      BY <3>2, <3>4 DEF StackInv
  <2> QED
    BY <2>1, <2>2
<1>6. StackInv'
  BY <1>1, <1>2, <1>4, <1>5 DEF StackInv
<1>7. ValueInv'
  BY <1>1, <1>2 DEF ValueInv
<1> QED
  BY <1>6, <1>7

\* A store pushes one value.
LEMMA PushStack ==
  ASSUME ShapeInv, StackInv, ValueInv, PushStore
  PROVE  StackInv' /\ ValueInv'
<1>1. /\ UNCHANGED input_vars /\ phi' = phi /\ frames' = frames
      /\ pc = "instr" /\ pc' = "instr" /\ pos' = pos + 1
      /\ known' = known \cup {Here.lval} /\ Here.lval \in Promoted
      /\ stk' = [stk EXCEPT ![Here.lval] = Append(@, StoredValue(Here))]
      /\ IsStore(Top.bb, pos) /\ Here = code[Top.bb][pos]
  BY DEF PushStore, AtStore, Here, place_vars
<1>2. /\ \A b, v : Pushes(b, v)' = Pushes(b, v)
      /\ \A b, v, q : Pushed(b, v, q)' = Pushed(b, v, q)
      /\ \A b, v : Defines(b, v)' = Defines(b, v)
      /\ \A v : StoreBlocks(v)' = StoreBlocks(v)
      /\ Top' = Top
  BY <1>1, SamePushes, SameInput DEF Top
<1>3. /\ InputInv /\ pos \in Nat \ {0} /\ stk \in [Promoted -> Seq(Value)]
      /\ Top.bb \in Block /\ Top.saved \in [Promoted -> Seq(Value)]
  BY <1>1, TopFacts DEF ShapeInv, TypeOK
<1>4. ASSUME NEW v \in Promoted
      PROVE  Extends(Top.saved[v], stk'[v], Pushed(Top.bb, v, pos + 1))
  <2>1. Extends(Top.saved[v], stk[v], Pushed(Top.bb, v, pos))
    BY <1>1 DEF StackInv
  <2>2. CASE v = Here.lval
    <3>1. /\ Pushed(Top.bb, v, pos + 1) = Pushed(Top.bb, v, pos) + 1
          /\ Pushed(Top.bb, v, pos) \in Nat
      BY <1>1, <1>3, <2>2, PushedFacts
    <3>2. stk'[v] = Append(stk[v], StoredValue(Here))
      BY <1>1, <1>3, <2>2
    <3>3. Top.saved[v] \in Seq(Value) /\ stk[v] \in Seq(Value)
      BY <1>3
    <3> QED
      BY <2>1, <3>1, <3>2, <3>3, ExtendsFacts
  <2>3. CASE v # Here.lval
    <3>1. Pushed(Top.bb, v, pos + 1) = Pushed(Top.bb, v, pos)
      <4>1. Pushed(Top.bb, v, pos + 1) =
              IF IsStore(Top.bb, pos) /\ code[Top.bb][pos].lval = v
              THEN Pushed(Top.bb, v, pos) + 1 ELSE Pushed(Top.bb, v, pos)
        BY <1>3, PushedFacts
      <4> QED
        BY <1>1, <2>3, <4>1
    <3>2. stk'[v] = stk[v]
      BY <1>1, <1>3, <2>3
    <3> QED
      BY <2>1, <3>1, <3>2
  <2> QED
    BY <2>2, <2>3
<1>5. StackInv'
  BY <1>1, <1>2, <1>4 DEF StackInv
<1>6. \A v \in Promoted : Len(stk'[v]) > 0 => v \in known'
  BY <1>1, <1>3 DEF ValueInv
<1>7. StoreBlocks(Here.lval) # {}
  BY <1>1, <1>3 DEF StoreBlocks, IsStore
<1>8. ValueInv'
  BY <1>1, <1>2, <1>6, <1>7 DEF ValueInv
<1> QED
  BY <1>5, <1>8

\* The pops of step 8 leave the stacks the activation was called with.
LEMMA LeavePops ==
  ASSUME ShapeInv, StackInv, Leave
  PROVE  stk' = Top.saved
<1>1. /\ pc = "kids"
      /\ stk' = [v \in Promoted |->
                   SubSeq(stk[v], 1, Len(stk[v]) - Pushes(Top.bb, v))]
  BY DEF Leave
<1>2. /\ InputInv /\ Top.bb \in Block /\ Top.saved \in [Promoted -> Seq(Value)]
      /\ stk \in [Promoted -> Seq(Value)]
  BY <1>1, TopFacts DEF ShapeInv, TypeOK
<1>3. ASSUME NEW v \in Promoted
      PROVE  SubSeq(stk[v], 1, Len(stk[v]) - Pushes(Top.bb, v)) = Top.saved[v]
  <2>1. /\ Extends(Top.saved[v], stk[v], Pushes(Top.bb, v))
        /\ Top.saved[v] \in Seq(Value) /\ stk[v] \in Seq(Value)
    BY <1>1, <1>2 DEF StackInv
  <2>2. Pushes(Top.bb, v) \in Nat
    BY <1>2, PushedFacts
  <2> QED
    BY <2>1, <2>2, ExtendsFacts
<1> QED
  BY <1>1, <1>2, <1>3

\* A return.
LEMMA LeaveStack ==
  ASSUME ShapeInv, StackInv, ValueInv, Leave
  PROVE  StackInv' /\ ValueInv'
<1> DEFINE L == Len(frames)
<1>1. /\ UNCHANGED input_vars /\ phi' = phi /\ frames' = Below /\ known' = known
      /\ pc = "kids" /\ pc' = IF Below = <<>> THEN "alloca" ELSE "kids"
  BY DEF Leave, place_vars
<1>2. /\ \A b, v : Pushes(b, v)' = Pushes(b, v)
      /\ \A b, v : Defines(b, v)' = Defines(b, v)
      /\ \A v : StoreBlocks(v)' = StoreBlocks(v)
  BY <1>1, SamePushes, SameInput
<1>3. /\ L \in Nat \ {0} /\ Top = frames[L] /\ Len(frames') = L - 1
      /\ \A k \in 1..(L - 1) : frames'[k] = frames[k]
      /\ Below # <<>> => L - 1 >= 1
  BY <1>1, TopFacts
<1>4. stk' = frames[L].saved
  BY <1>3, LeavePops
<1> HIDE DEF L
<1>5. ASSUME pc' = "kids", NEW v \in Promoted
      PROVE  Extends(Top'.saved[v], stk'[v], Pushes(Top'.bb, v))
  <2>1. L - 1 \in 1..(L - 1) /\ Top' = frames[L - 1] /\ (L - 1) + 1 = L
    BY <1>1, <1>3, <1>5 DEF Top
  <2>2. Extends(frames[L - 1].saved[v], frames[L].saved[v], Pushes(frames[L - 1].bb, v))
    BY <2>1 DEF StackInv, L
  <2> QED
    BY <1>4, <2>1, <2>2
<1>6. StackInv'
  <2>1. ASSUME NEW k \in 1..(Len(frames') - 1), NEW v \in Promoted
        PROVE  Extends(frames'[k].saved[v], frames'[k + 1].saved[v],
                       Pushes(frames'[k].bb, v))
    <3>1. k \in 1..(L - 1) /\ k + 1 \in 1..(L - 1)
      BY <1>3
    <3>2. Extends(frames[k].saved[v], frames[k + 1].saved[v], Pushes(frames[k].bb, v))
      BY <3>1 DEF StackInv, L
    <3> QED
      BY <1>3, <3>1, <3>2
  <2> QED
    BY <1>1, <1>2, <1>5, <2>1 DEF StackInv
<1>7. ValueInv'
  <2>1. \A k \in 1..(L - 1) : k \in 1..L
    BY <1>3
  <2>2. \A v \in Promoted : Len(stk'[v]) > 0 => v \in known
    <3>1. L \in 1..L
      BY <1>3
    <3> QED
      BY <1>4, <3>1 DEF ValueInv, L
  <2> QED
    BY <1>1, <1>2, <1>3, <2>1, <2>2 DEF ValueInv, L
<1> QED
  BY <1>6, <1>7

-----------------------------------------------------------------------------
(***************************************************************************)
(* No read of an empty stack.                                              *)
(***************************************************************************)

\* The reason the phis are enough: a block where v is set on every path has a
\* dominator with a phi for v, or a strict dominator with a store to it.  For
\* where a definition stops dominating, the frontier has a phi.
LEMMA SetHasDominator ==
  ASSUME InputInv, NEW v,
         \A b \in Block : Defines(b, v) => \A y \in df[b] : v \in phi[y],
         NEW x \in ReachableIn(g), x \notin Unset(v)
  PROVE  \E d \in Block : /\ DomIn(g, d, x)
                          /\ v \in phi[d] \/ (d # x /\ d \in StoreBlocks(v))
<1> DEFINE Good(z) == \E d \in Block :
                        /\ DomIn(g, d, z)
                        /\ v \in phi[d] \/ (d # z /\ d \in StoreBlocks(v))
           T == {z \in ReachableIn(g) : z \in Unset(v) \/ Good(z)}
           h == [b \in Block |-> IF b \in StoreBlocks(v) THEN {} ELSE g[b]]
<1>1. /\ IsFlowGraph(g) /\ DOMAIN g = Block /\ ReachableIn(g) \subseteq Block
      /\ \A b \in Block : df[b] = FrontierIn(g, b)
  BY InputFacts
<1>2. IsFlowGraph(h) /\ DOMAIN h = Block
  BY <1>1 DEF IsFlowGraph
<1>3. Entry \in Unset(v) /\ \A b \in Unset(v) : b \in Block /\ h[b] \subseteq Unset(v)
  <2>1. Unset(v) = ReachableIn(h)
    BY DEF Unset
  <2> HIDE DEF h
  <2> QED
    BY <1>2, <2>1, ReachFacts
<1>4. \A b \in Unset(v) : b \notin StoreBlocks(v) => g[b] \subseteq Unset(v)
  BY <1>3
<1> HIDE DEF h
<1>5. Entry \in T
  BY <1>1, <1>3, ReachFacts
<1>6. ASSUME NEW b \in T, NEW y \in g[b] PROVE y \in T
  <2>1. b \in ReachableIn(g) /\ b \in Block /\ y \in ReachableIn(g) /\ y \in Block
    BY <1>1, ReachFacts
  <2>2. ASSUME NEW d \in Block, DomIn(g, d, b), Defines(d, v) PROVE Good(y)
    <3>1. CASE SDomIn(g, d, y)
      BY <2>2, <3>1 DEF SDomIn, Defines
    <3>2. CASE ~SDomIn(g, d, y)
      <4>1. y \in FrontierIn(g, d)
        BY <1>1, <2>1, <2>2, <3>2 DEF FrontierIn, PredIn
      <4>2. v \in phi[y]
        BY <1>1, <2>2, <4>1
      <4>3. DomIn(g, y, y)
        BY <1>1, <2>1, DomBasic
      <4> QED
        BY <2>1, <4>2, <4>3
    <3> QED
      BY <3>1, <3>2
  <2>3. CASE b \in StoreBlocks(v)
    <3>1. DomIn(g, b, b)
      BY <1>1, <2>1, DomBasic
    <3> QED
      BY <2>1, <2>2, <2>3, <3>1 DEF Defines
  <2>4. CASE Good(b)
    <3>1. PICK d \in Block : DomIn(g, d, b) /\ Defines(d, v)
      BY <2>4 DEF Defines
    <3> QED
      BY <2>1, <2>2, <3>1
  <2>5. CASE b \in Unset(v) /\ b \notin StoreBlocks(v)
    BY <1>4, <2>1, <2>5
  <2> QED
    BY <2>3, <2>4, <2>5
<1>7. ReachableIn(g) \subseteq T
  <2> HIDE DEF T
  <2>1. ReachAvoidingIn(g, 0) \subseteq T
    BY <1>1, <1>5, <1>6, ReachLeast
  <2> QED
    BY <2>1 DEF ReachableIn
<1> QED
  BY <1>7

\* In a function that sets its variables before it reads them, a load of a
\* promoted variable finds a value.
LEMMA LoadFindsValue ==
  ASSUME ShapeInv, PhiInv, PathInv, StackInv, ValueInv, Strict, AtLoad,
         Here.lval \in Promoted
  PROVE  Len(stk[Here.lval]) > 0 /\ Here.lval \in known
<1> DEFINE v == Here.lval
           L == Len(frames)
           B == Top.bb
<1>1. /\ pc = "instr" /\ B \in Block /\ pos \in Nat \ {0}
      /\ <<"load", B, pos>> \in Loads /\ Here = code[B][pos]
  BY HereFacts DEF ShapeInv, TypeOK, Here
<1>2. /\ L \in Nat \ {0} /\ Top = frames[L] /\ Top.saved \in [Promoted -> Seq(Value)]
      /\ InputInv /\ stk \in [Promoted -> Seq(Value)]
  BY <1>1, TopFacts DEF ShapeInv, TypeOK
<1>3. /\ Extends(Top.saved[v], stk[v], Pushed(B, v, pos))
      /\ Top.saved[v] \in Seq(Value) /\ stk[v] \in Seq(Value)
  BY <1>1, <1>2 DEF StackInv
<1>4. Pushed(B, v, pos) \in Nat
  BY <1>1, <1>2, PushedFacts
<1>5. \/ Pushed(B, v, pos) > 0
      \/ Len(Top.saved[v]) > 0
  <2>1. CASE \E i \in 1..(pos - 1) : IsStore(B, i) /\ code[B][i].lval = v
    <3>1. PICK i \in 1..(pos - 1) : IsStore(B, i) /\ code[B][i].lval = v
      BY <2>1
    <3>2. i < pos
      BY <1>1, <3>1
    <3> QED
      BY <1>1, <1>2, <3>1, <3>2, PushedFacts
  <2>2. CASE B \notin Unset(v)
    <3>1. todo = {} /\ B \in ReachableIn(g)
      BY <1>1, <1>2 DEF ShapeInv, PhaseInv, PathInv
    <3>2. \A b \in Block : Defines(b, v) => \A y \in df[b] : v \in phi[y]
      BY <1>1, <3>1 DEF PhiInv
    <3>3. PICK d \in Block : /\ DomIn(g, d, B)
                             /\ v \in phi[d] \/ (d # B /\ d \in StoreBlocks(v))
      <4> HIDE DEF v, B
      <4> QED
        BY <1>2, <2>2, <3>1, <3>2, SetHasDominator
    <3>4. CASE d = B
      BY <1>1, <1>2, <3>3, <3>4, PushedFacts
    <3>5. CASE d # B
      <4>1. PICK j \in 1..L : frames[j].bb = d
        BY <1>2, <3>3 DEF PathInv
      <4>2. j < L /\ L \in 1..L
        BY <1>2, <3>5, <4>1
      <4>3. Defines(frames[j].bb, v)
        BY <3>3, <4>1 DEF Defines
      <4> QED
        BY <1>2, <4>1, <4>2, <4>3 DEF ValueInv
    <3> QED
      BY <3>4, <3>5
  <2>3. B \notin Unset(v) \/ \E i \in 1..(pos - 1) : IsStore(B, i) /\ code[B][i].lval = v
    <3> DEFINE l == <<"load", B, pos>>
    <3>1. l[2] = B /\ l[3] = pos /\ l \in Loads
      BY <1>1
    <3> HIDE DEF l
    <3> QED
      BY <1>1, <3>1 DEF Strict
  <2> QED
    BY <2>1, <2>2, <2>3
<1>6. Len(stk[v]) > 0
  BY <1>3, <1>4, <1>5, ExtendsLen
<1> QED
  BY <1>6 DEF ValueInv

\* A variable stored to in the entry block has a value at the end of every
\* block.
LEMMA EntryGivesValue ==
  ASSUME ShapeInv, PathInv, StackInv, ValueInv, AtEnd, NEW v \in Promoted,
         Entry \in StoreBlocks(v)
  PROVE  Len(stk[v]) > 0
<1> DEFINE L == Len(frames)
<1>1. pc = "instr" /\ pos > Len(code[Top.bb])
  BY DEF AtEnd
<1>2. /\ L \in Nat \ {0} /\ Top = frames[L] /\ Top.saved \in [Promoted -> Seq(Value)]
      /\ InputInv /\ stk \in [Promoted -> Seq(Value)] /\ Top.bb \in Block
      /\ pos \in Nat \ {0}
  BY <1>1, TopFacts DEF ShapeInv, TypeOK
<1>3. Pushes(Top.bb, v) \in Nat /\ Pushed(Top.bb, v, pos) = Pushes(Top.bb, v)
  BY <1>1, <1>2, PushedFacts
<1>4. /\ Extends(Top.saved[v], stk[v], Pushes(Top.bb, v))
      /\ Top.saved[v] \in Seq(Value) /\ stk[v] \in Seq(Value)
  BY <1>1, <1>2, <1>3 DEF StackInv
<1>5. 1 \in 1..L /\ L \in 1..L /\ frames[1].bb = Entry
  BY <1>2 DEF PathInv
<1>6. Defines(frames[1].bb, v)
  BY <1>5 DEF Defines
<1>7. CASE L = 1
  <2>1. Pushes(Top.bb, v) > 0
    BY <1>2, <1>6, <1>7, PushedFacts
  <2> QED
    BY <1>3, <1>4, <2>1, ExtendsLen
<1>8. CASE 1 < L
  <2>1. Len(Top.saved[v]) > 0
    BY <1>2, <1>5, <1>6, <1>8 DEF ValueInv
  <2> QED
    BY <1>3, <1>4, <2>1, ExtendsLen
<1>9. L = 1 \/ 1 < L
  <2>1. L \in Nat \ {0}
    BY <1>2
  <2> HIDE DEF L
  <2> QED
    BY <2>1
<1> QED
  BY <1>7, <1>8, <1>9

\* The pass stops with an error only on functions outside the two classes.
LEMMA StopsOnlyOutside ==
  ASSUME ShapeInv, PhiInv, PathInv, StackInv, ValueInv, NoEmptyStackRead, [Next]_vars
  PROVE  NoEmptyStackRead'
<1>1. CASE BackOfEmpty
  <2>1. /\ pc' = "crash" /\ AtLoad /\ Here.lval \in Promoted /\ stk[Here.lval] = <<>>
        /\ UNCHANGED input_vars
    BY <1>1 DEF BackOfEmpty, HasStack
  <2>2. ~Strict
    BY <2>1, LoadFindsValue
  <2> QED
    BY <2>1, <2>2, SameInput DEF NoEmptyStackRead
<1>2. CASE AssertFails
  <2>1. pc' = "abort" /\ AtEnd /\ UNCHANGED input_vars
    BY <1>2 DEF AssertFails
  <2>2. PICK f \in PhisToFill : stk[f[2]] = <<>>
    BY <1>2 DEF AssertFails
  <2>3. f[2] \in known /\ f[2] \in Promoted
    BY <2>2 DEF PhisToFill, ShapeInv, TypeOK
  <2>4. ~SetAtEntry
    <3> SUFFICES ASSUME SetAtEntry PROVE FALSE
      OBVIOUS
    <3>1. Entry \in StoreBlocks(f[2])
      BY <2>3 DEF SetAtEntry, ValueInv
    <3>2. Len(stk[f[2]]) > 0
      BY <2>1, <2>3, <3>1, EntryGivesValue
    <3> QED
      BY <2>2, <3>2
  <2> QED
    BY <2>1, <2>4, SameInput DEF NoEmptyStackRead
<1>3. CASE UNCHANGED vars
  <2>1. pc' = pc /\ UNCHANGED input_vars
    BY <1>3 DEF vars
  <2> QED
    BY <2>1, SameInput DEF NoEmptyStackRead
<1>4. CASE Next /\ ~BackOfEmpty /\ ~AssertFails
  <2>1. pc' \notin {"crash", "abort"}
    BY <1>4 DEF Next, PickVar, PlacePhis, NextVar, StartRename, Enter, KeepLoad,
       ReplaceLoad, KeepStore, PushStore, AtLoad, AtStore, FillPhis, Recurse, Leave,
       RemoveAlloca
  <2> QED
    BY <2>1 DEF NoEmptyStackRead
<1> QED
  BY <1>1, <1>2, <1>3, <1>4

\* Every step of the pass keeps the invariant.
LEMMA StepM == ASSUME MInv, [Next]_vars PROVE MInv'
<1>1. ShapeInv /\ PhiInv /\ PathInv /\ StackInv /\ ValueInv /\ NoEmptyStackRead
  BY DEF MInv, ShapeInv
<1>2. NoEmptyStackRead'
  BY <1>1, StopsOnlyOutside
<1> DEFINE P == ShapeInv' /\ PhiInv' /\ PathInv' /\ StackInv' /\ ValueInv'
<1>3. ASSUME (\E v \in Promoted : PickVar(v)) \/ PlacePhis \/ NextVar PROVE P
  <2>1. ShapeInv' /\ StackInv' /\ ValueInv'
    BY <1>1, <1>3, PlaceShape, PlaceStack
  <2>2. PhiInv'
    BY <1>1, <1>3, PickVarPhi, PlacePhi, NextVarPhi
  <2>3. frames = <<>> /\ frames' = frames /\ UNCHANGED input_vars /\ Len(frames) \in Nat
    BY <1>1, <1>3 DEF PickVar, PlacePhis, NextVar, ShapeInv, PhaseInv
  <2>4. PathInv'
    BY <1>1, <2>3, SamePath
  <2> QED
    BY <2>1, <2>2, <2>4
<1>4. ASSUME StartRename PROVE P
  <2>1. UNCHANGED <<input_vars, place_vars>> /\ pc = "vars" /\ pc' = "instr"
    BY <1>4 DEF StartRename, Enter
  <2> QED
    BY <1>1, <1>4, <2>1, StartShape, SamePhi, StartPath, StartStack
<1>5. ASSUME NEW c \in Block, Recurse(c) PROVE P
  <2>1. UNCHANGED <<input_vars, place_vars>> /\ pc = "kids" /\ pc' = "instr"
    BY <1>5 DEF Recurse, Enter
  <2> QED
    BY <1>1, <1>5, <2>1, CallShape, SamePhi, CallPath, CallStack
<1>6. ASSUME QuietStep \/ ReplaceLoad \/ PushStore \/ FillPhis PROVE P
  <2>1. ShapeInv'
    BY <1>1, <1>6, QuietShape, ReplaceShape, PushShape, FillShape
  <2>2. UNCHANGED <<input_vars, place_vars>> /\ frames' = frames
    BY <1>6 DEF QuietStep, ReplaceLoad, PushStore, FillPhis
  <2>3. pc' = pc \/ (pc # "work" /\ pc' # "work")
    <3>1. CASE KeepLoad \/ KeepStore \/ ReplaceLoad \/ PushStore
      BY <3>1 DEF KeepLoad, KeepStore, ReplaceLoad, PushStore
    <3>2. CASE UNCHANGED vars
      BY <3>2 DEF vars
    <3>3. CASE BackOfEmpty
      BY <3>3 DEF BackOfEmpty, AtLoad
    <3>4. CASE AssertFails
      BY <3>4 DEF AssertFails, AtEnd
    <3>5. CASE RemoveAlloca
      BY <3>5 DEF RemoveAlloca
    <3>6. CASE FillPhis
      BY <3>6 DEF FillPhis, AtEnd
    <3> QED
      BY <1>6, <3>1, <3>2, <3>3, <3>4, <3>5, <3>6, QuietSteps DEF QuietStep
  <2>4. PhiInv'
    BY <1>1, <2>2, <2>3, SamePhi
  <2>5. Len(frames) \in Nat
    BY <1>1 DEF ShapeInv, PhaseInv
  <2>6. PathInv'
    BY <1>1, <2>2, <2>5, SamePath
  <2>7. StackInv' /\ ValueInv'
    BY <1>1, <1>6, SameStack, PushStack
  <2> QED
    BY <2>1, <2>4, <2>6, <2>7
<1>7. ASSUME Leave PROVE P
  <2>1. /\ UNCHANGED <<input_vars, place_vars>> /\ pc = "kids" /\ pc' # "work"
        /\ frames' = Below
    BY <1>7 DEF Leave
  <2>2. PhiInv'
    BY <1>1, <2>1, SamePhi
  <2>3. /\ Len(frames) \in Nat \ {0} /\ Len(frames') = Len(frames) - 1
        /\ \A k \in 1..(Len(frames) - 1) : frames'[k] = frames[k]
    BY <1>1, <2>1, TopFacts
  <2>4. PathInv'
    BY <1>1, <2>1, <2>3, SamePath
  <2>5. \A v \in Promoted : stk'[v] \in Seq(Value)
    BY <1>1, <1>7, <2>1, LeavePops, TopFacts
  <2>6. ShapeInv'
    BY <1>1, <1>7, <2>5, LeaveShape
  <2> QED
    BY <1>1, <1>7, <2>2, <2>4, <2>6, LeaveStack
<1>8. P
  BY <1>3, <1>4, <1>5, <1>6, <1>7, QuietSteps DEF Next
<1> QED
  BY <1>2, <1>8 DEF MInv, ShapeInv

\* The initial states have it.
LEMMA InitM == Init => MInv
<1> SUFFICES ASSUME Init PROVE MInv
  OBVIOUS
<1>1. ShapeInv /\ PhiInv
  BY ShapeInit, PhiInit
<1>2. frames = <<>> /\ Len(frames) = 0 /\ pc = "vars" /\ known = {} /\ stk = [v \in Promoted |-> <<>>]
  BY DEF Init
<1>3. PathInv /\ StackInv /\ NoEmptyStackRead
  BY <1>2 DEF PathInv, StackInv, NoEmptyStackRead
<1>4. ValueInv
  BY <1>2 DEF ValueInv
<1> QED
  BY <1>1, <1>3, <1>4 DEF MInv, ShapeInv

\* The invariant of the pass: the phis placed, the way down the dominator
\* tree and the stacks along it, in every state the pass can be in.
THEOREM Invariance == Spec => []MInv
BY InitM, StepM, PTL DEF Spec

\* The types of the pass's state are what TypeOK says.
THEOREM TypeCorrect == Spec => []TypeOK
<1>1. MInv => TypeOK
  BY DEF MInv
<1> QED
  BY Invariance, <1>1, PTL

\* back() is never called on an empty vector in a function that sets its
\* variables before it reads them, and the assertion of step 6 holds in one
\* that stores to each of its variables in the entry block.
THEOREM ReadsFindValues == Spec => []NoEmptyStackRead
<1>1. MInv => NoEmptyStackRead
  BY DEF MInv
<1> QED
  BY Invariance, <1>1, PTL

\* An activation of re_name returns with the stacks it was called with.
THEOREM ReturnsRestore == Spec => PopsUndoPushes
<1>1. MInv /\ [Next]_vars =>
        [Len(frames') < Len(frames) => stk' = Top.saved]_<<frames, stk>>
  <2> SUFFICES ASSUME MInv, [Next]_vars, Len(frames') < Len(frames)
               PROVE  stk' = Top.saved
    OBVIOUS
  <2>1. ShapeInv /\ StackInv /\ Len(frames) \in Nat
    BY DEF MInv, ShapeInv, PhaseInv
  <2>2. CASE Leave
    BY <2>1, <2>2, LeavePops
  <2>3. CASE \E c \in Block : Recurse(c)
    <3>1. Len(frames') = Len(frames) + 1
      BY <2>1, <2>3, CallFrames
    <3> QED
      BY <2>1, <3>1
  <2>4. CASE StartRename
    <3>1. frames = <<>>
      BY <2>1, <2>4 DEF StartRename, ShapeInv, PhaseInv
    <3>2. frames' = <<[bb |-> Entry, kids |-> kids[Entry], saved |-> stk]>>
      BY <2>4 DEF StartRename, Enter
    <3> QED
      BY <3>1, <3>2
  <2>5. CASE ~Leave /\ ~StartRename /\ ~(\E c \in Block : Recurse(c))
    <3>1. frames' = frames
      BY <2>5 DEF Next, PickVar, PlacePhis, NextVar, KeepLoad, ReplaceLoad,
         BackOfEmpty, KeepStore, PushStore, FillPhis, AssertFails, RemoveAlloca, vars
    <3> QED
      BY <2>1, <3>1
  <2> QED
    BY <2>2, <2>3, <2>4, <2>5
<1> QED
  BY Invariance, <1>1, PTL DEF Spec, PopsUndoPushes

-----------------------------------------------------------------------------
(***************************************************************************)
(* What remove_alloca leaves behind.                                       *)
(***************************************************************************)

\* The first call: every block is the entry or below one of its children.
LEMMA StartWalk == ASSUME MInv, StartRename PROVE WalkInv'
<1>1. UNCHANGED input_vars /\ ShapeInv
  BY DEF StartRename, MInv, ShapeInv
<1>2. /\ frames' = <<[bb |-> Entry, kids |-> kids[Entry], saved |-> stk]>>
      /\ pos' = 1 /\ pc' = "instr"
  BY DEF StartRename, Enter
<1>3. /\ Len(frames') = 1 /\ frames'[1].bb = Entry /\ frames'[1].kids = kids[Entry]
  BY <1>2
<1>4. InputInv /\ g' = g /\ Block' = Block /\ code' = code /\ (Strict' <=> Strict)
  BY <1>1, SameInput DEF ShapeInv
<1> SUFFICES ASSUME Strict PROVE WalkInv'
  BY <1>4 DEF WalkInv
<1>5. /\ ReachableIn(g) = Block /\ IsFlowGraph(g) /\ kids[Entry] = ChildrenIn(g, Entry)
  BY <1>4, InputFacts DEF Strict
<1>6. \A b \in Block : b = Entry \/ \E c \in kids[Entry] : DomIn(g, c, b)
  <2> TAKE b \in Block
  <2>1. DomIn(g, Entry, b)
    BY <1>5, DomBasic
  <2>2. CASE b # Entry
    <3>1. SDomIn(g, Entry, b)
      BY <2>1, <2>2 DEF SDomIn
    <3> QED
      BY <1>5, <3>1, ChildToward
  <2> QED
    BY <2>2
<1>7. \A b \in Block : \E k \in 1..1 :
        frames'[k].bb = b \/ \E c \in frames'[k].kids : DomIn(g, c, b)
  BY <1>3, <1>6
<1>8. \A k \in 1..1 : \A i \in DOMAIN code[frames'[k].bb] :
        ~(k < 1 \/ pc' = "kids" \/ i < pos')
  <2>1. \A i \in DOMAIN code[Entry] : i \in Nat \ {0}
    BY <1>4, InputFacts
  <2> QED
    BY <1>2, <1>3, <2>1
<1> QED
  BY <1>3, <1>4, <1>7, <1>8 DEF WalkInv

\* The recursive call: what is below the child is the child or below one of
\* its own children.
LEMMA CallWalk == ASSUME MInv, WalkInv, NEW d \in Block, Recurse(d) PROVE WalkInv'
<1> DEFINE L == Len(frames)
<1>1. UNCHANGED input_vars /\ ShapeInv
  BY DEF Recurse, MInv, ShapeInv
<1>2. /\ pos' = 1 /\ pc' = "instr" /\ pc = "kids" /\ wait' = wait /\ erased' = erased
  BY DEF Recurse, Enter, ssa_vars
<1>3. /\ L \in Nat \ {0} /\ Len(frames') = L + 1
      /\ \A k \in 1..L : frames'[k].bb = frames[k].bb
      /\ \A k \in 1..L : k < L => frames'[k].kids = frames[k].kids
      /\ frames'[L].kids = frames[L].kids \ {d}
      /\ frames'[L + 1].bb = d /\ frames'[L + 1].kids = kids[d]
  BY <1>1, CallFrames
<1>4. InputInv /\ g' = g /\ Block' = Block /\ code' = code /\ (Strict' <=> Strict)
  BY <1>1, SameInput DEF ShapeInv
<1> HIDE DEF L
<1> SUFFICES ASSUME Strict PROVE WalkInv'
  BY <1>4 DEF WalkInv
<1>5. /\ IsFlowGraph(g) /\ kids[d] = ChildrenIn(g, d)
  BY <1>4, InputFacts
<1>6. ASSUME NEW b \in Block
      PROVE  \/ AllErased(b)
             \/ \E k \in 1..(L + 1) :
                  frames'[k].bb = b \/ \E c \in frames'[k].kids : DomIn(g, c, b)
  <2>1. \/ AllErased(b)
        \/ \E k \in 1..L :
             frames[k].bb = b \/ \E c \in frames[k].kids : DomIn(g, c, b)
    BY <1>2 DEF WalkInv, L
  <2>2. CASE AllErased(b)
    BY <2>2
  <2>3. ASSUME NEW k \in 1..L, frames[k].bb = b
        PROVE  \E j \in 1..(L + 1) : frames'[j].bb = b
    BY <1>3, <2>3
  <2>4. ASSUME NEW k \in 1..L, NEW c \in frames[k].kids, DomIn(g, c, b)
        PROVE  \E j \in 1..(L + 1) :
                 frames'[j].bb = b \/ \E e \in frames'[j].kids : DomIn(g, e, b)
    <3>1. CASE k < L \/ c # d
      <4>1. c \in frames'[k].kids /\ k \in 1..(L + 1)
        BY <1>3, <3>1
      <4> QED
        BY <2>4, <4>1
    <3>2. CASE c = d /\ d = b
      BY <1>3, <3>2
    <3>3. CASE c = d /\ d # b
      <4>1. \E e \in ChildrenIn(g, d) : DomIn(g, e, b)
        <5>1. SDomIn(g, d, b)
          BY <2>4, <3>3 DEF SDomIn
        <5> QED
          BY <1>5, <5>1, ChildToward
      <4>2. L + 1 \in 1..(L + 1)
        BY <1>3
      <4> QED
        BY <1>3, <1>5, <4>1, <4>2
    <3> QED
      BY <3>1, <3>2, <3>3, <1>3
  <2> QED
    BY <2>1, <2>2, <2>3, <2>4
<1>7. ASSUME NEW k \in 1..(L + 1), NEW i \in DOMAIN code[frames'[k].bb],
             code[frames'[k].bb][i].lval \in Promoted, k < L + 1 \/ i < 1
      PROVE  <<frames'[k].bb, i>> \in wait \cup erased
  <2>1. CASE k = L + 1
    <3>1. i \in Nat \ {0}
      BY <1>3, <1>4, <2>1, InputFacts
    <3> QED
      BY <1>3, <1>7, <2>1, <3>1
  <2>2. CASE k \in 1..L
    <3>1. frames'[k].bb = frames[k].bb
      BY <1>3, <2>2
    <3> QED
      BY <1>2, <1>7, <2>2, <3>1 DEF WalkInv, L
  <2> QED
    BY <1>3, <2>1, <2>2
<1>8. \A b \in Block : AllErased(b)' <=> AllErased(b)
  BY <1>2, <1>4 DEF AllErased
<1> QED
  BY <1>2, <1>3, <1>4, <1>6, <1>7, <1>8 DEF WalkInv

\* A load or store gone by is one of no promoted variable, or will be erased;
\* at the end of the block that is all of them.
LEMMA BlockWalk ==
  ASSUME MInv, WalkInv, QuietStep \/ ReplaceLoad \/ PushStore \/ FillPhis
  PROVE  WalkInv'
<1>1. UNCHANGED <<input_vars, frames>> /\ erased' = erased /\ ShapeInv
  BY DEF QuietStep, ReplaceLoad, PushStore, FillPhis, MInv, ShapeInv
<1>2. InputInv /\ g' = g /\ Block' = Block /\ code' = code /\ (Strict' <=> Strict)
  BY <1>1, SameInput DEF ShapeInv
<1> SUFFICES ASSUME Strict PROVE WalkInv'
  BY <1>2 DEF WalkInv
<1>3. \A b : AllErased(b)' <=> AllErased(b)
  BY <1>1, <1>2 DEF AllErased
<1> DEFINE L == Len(frames)
           Reached == \A b \in Block :
                      \/ AllErased(b)
                      \/ \E k \in 1..L :
                           frames[k].bb = b \/ \E c \in frames[k].kids : DomIn(g, c, b)
           Gone(p, q, W) ==
             \A k \in 1..L : \A i \in DOMAIN code[frames[k].bb] :
               /\ code[frames[k].bb][i].lval \in Promoted
               /\ k < L \/ p = "kids" \/ i < q
               => <<frames[k].bb, i>> \in W
<1>4. /\ pc \notin {"vars", "work"} => Reached
      /\ pc \in {"instr", "kids"} => Gone(pc, pos, wait \cup erased)
  BY DEF WalkInv
<1> SUFFICES /\ pc' \notin {"vars", "work"} => Reached
             /\ pc' \in {"instr", "kids"} => Gone(pc', pos', wait' \cup erased)
  BY <1>1, <1>2, <1>3 DEF WalkInv
<1> HIDE DEF Reached
<1>5. CASE UNCHANGED <<pc, pos, wait>>
  BY <1>4, <1>5
<1>6. CASE BackOfEmpty \/ AssertFails \/ RemoveAlloca
  <2>1. pc \notin {"vars", "work"} /\ pc' \notin {"instr", "kids"}
    BY <1>6 DEF BackOfEmpty, AssertFails, RemoveAlloca, AtLoad, AtEnd
  <2> QED
    BY <1>4, <2>1
<1>7. CASE FillPhis
  <2>1. pc = "instr" /\ pos > Len(code[Top.bb]) /\ pc' = "kids" /\ wait' = wait
    BY <1>7 DEF FillPhis, AtEnd
  <2>2. /\ L \in Nat \ {0} /\ Top = frames[L] /\ Top.bb \in Block /\ pos \in Nat
        /\ DOMAIN code[Top.bb] = 1..Len(code[Top.bb]) /\ Len(code[Top.bb]) \in Nat
    BY <1>1, <1>2, <2>1, TopFacts, InputFacts DEF ShapeInv, TypeOK
  <2>3. \A i \in DOMAIN code[Top.bb] : i < pos
    BY <2>1, <2>2
  <2>4. \A k \in 1..L : k < L \/ k = L
    BY <2>2
  <2>5. Gone(pc', pos', wait' \cup erased)
    BY <1>4, <2>1, <2>2, <2>3, <2>4
  <2> QED
    BY <1>4, <2>1, <2>5
<1>8. CASE KeepLoad \/ KeepStore \/ ReplaceLoad \/ PushStore
  <2>1. AtLoad \/ AtStore
    BY <1>8 DEF KeepLoad, KeepStore, ReplaceLoad, PushStore
  <2>2. /\ pc = "instr" /\ pc' = pc /\ pos' = pos + 1 /\ wait \subseteq wait'
    BY <1>8, <2>1, HereFacts, <1>1 DEF KeepLoad, KeepStore, ReplaceLoad, PushStore,
       ssa_vars
  <2>3. /\ L \in Nat \ {0} /\ Top = frames[L] /\ Top.bb \in Block /\ pos \in Nat
        /\ DOMAIN code[Top.bb] \subseteq Nat
    <3>1. L \in Nat \ {0} /\ Top = frames[L] /\ Top.bb \in Block
      BY <1>1, <2>2, TopFacts
    <3>2. pos \in Nat
      BY <1>1 DEF ShapeInv, TypeOK
    <3> HIDE DEF L
    <3> QED
      BY <1>2, <3>1, <3>2, InputFacts
  <2>4. code[Top.bb][pos].lval \in Promoted => <<Top.bb, pos>> \in wait'
    <3>1. CASE KeepLoad
      <4>1. AtLoad /\ ~HasStack(Here.lval)
        BY <3>1 DEF KeepLoad
      <4>2. Here.lval \notin Promoted
        BY <1>1, <4>1, LoadFindsValue DEF MInv, HasStack
      <4> QED
        BY <4>2 DEF Here
    <3>2. CASE KeepStore
      BY <3>2 DEF KeepStore, Here
    <3>3. CASE ReplaceLoad \/ PushStore
      BY <3>3 DEF ReplaceLoad, PushStore
    <3> QED
      BY <1>8, <3>1, <3>2, <3>3
  <2>5. ASSUME NEW k \in 1..L, NEW i \in DOMAIN code[frames[k].bb],
               code[frames[k].bb][i].lval \in Promoted, k < L \/ i < pos + 1
        PROVE  <<frames[k].bb, i>> \in wait' \cup erased
    <3>1. CASE k < L \/ i < pos
      BY <1>4, <2>2, <2>5, <3>1
    <3>2. CASE k = L /\ i = pos
      BY <2>3, <2>4, <2>5, <3>2
    <3>3. k < L \/ (k = L /\ (i < pos \/ i = pos))
      BY <2>3, <2>5
    <3> QED
      BY <3>1, <3>2, <3>3
  <2>6. Gone(pc', pos', wait' \cup erased)
    BY <2>2, <2>5
  <2> QED
    BY <1>4, <2>2, <2>6
<1>9. CASE UNCHANGED vars
  BY <1>5, <1>9 DEF vars, ssa_vars
<1> QED
  BY <1>6, <1>7, <1>8, <1>9 DEF QuietStep

\* The return: what waited in the block is erased.
LEMMA LeaveWalk == ASSUME MInv, WalkInv, Leave PROVE WalkInv'
<1> DEFINE L == Len(frames)
<1>1. UNCHANGED input_vars /\ ShapeInv /\ pc = "kids" /\ Top.kids = {}
  BY DEF Leave, MInv, ShapeInv
<1>2. InputInv /\ g' = g /\ Block' = Block /\ code' = code /\ (Strict' <=> Strict)
  BY <1>1, SameInput DEF ShapeInv
<1>3. /\ L \in Nat \ {0} /\ Len(frames') = L - 1 /\ Top = frames[L]
      /\ \A k \in 1..(L - 1) : frames'[k] = frames[k]
  BY <1>1, TopFacts DEF Leave
<1>4. /\ erased' = erased \cup {w \in wait : w[1] = Top.bb}
      /\ wait' = {w \in wait : w[1] # Top.bb}
      /\ pc' = IF Below = <<>> THEN "alloca" ELSE "kids"
  BY DEF Leave
<1> HIDE DEF L
<1>5. wait' \cup erased' = wait \cup erased
  BY <1>4
<1> SUFFICES ASSUME Strict PROVE WalkInv'
  BY <1>2 DEF WalkInv
<1>6. ASSUME NEW b \in Block
      PROVE  \/ AllErased(b)'
             \/ \E k \in 1..(L - 1) :
                  frames'[k].bb = b \/ \E c \in frames'[k].kids : DomIn(g, c, b)
  <2>1. \/ AllErased(b)
        \/ \E k \in 1..L :
             frames[k].bb = b \/ \E c \in frames[k].kids : DomIn(g, c, b)
    BY <1>1 DEF WalkInv, L
  <2>2. CASE AllErased(b)
    BY <1>2, <1>4, <2>2 DEF AllErased
  <2>3. ASSUME NEW k \in 1..L, k # L,
               frames[k].bb = b \/ \E c \in frames[k].kids : DomIn(g, c, b)
        PROVE  \E j \in 1..(L - 1) :
                  frames'[j].bb = b \/ \E c \in frames'[j].kids : DomIn(g, c, b)
    <3>1. k \in 1..(L - 1)
      BY <1>3, <2>3
    <3> QED
      BY <1>3, <2>3, <3>1
  <2>4. ASSUME frames[L].bb = b PROVE AllErased(b)'
    <3>1. Top.bb = b /\ L \in 1..L
      BY <1>3, <2>4
    <3> SUFFICES ASSUME NEW i \in DOMAIN code[b], code[b][i].lval \in Promoted
                 PROVE  <<b, i>> \in erased'
      BY <1>2 DEF AllErased
    <3>2. <<b, i>> \in wait \cup erased
      BY <1>1, <2>4, <3>1 DEF WalkInv, L
    <3>3. <<b, i>>[1] = b
      OBVIOUS
    <3> QED
      BY <1>4, <3>1, <3>2, <3>3
  <2>5. \A k \in 1..L : k = L => frames[k].kids = {}
    BY <1>1, <1>3
  <2> QED
    BY <2>1, <2>2, <2>3, <2>4, <2>5
<1>7. ASSUME NEW k \in 1..(L - 1), NEW i \in DOMAIN code[frames'[k].bb],
             code[frames'[k].bb][i].lval \in Promoted
      PROVE  <<frames'[k].bb, i>> \in wait \cup erased
  <2>1. frames'[k] = frames[k] /\ k \in 1..L
    BY <1>3
  <2> QED
    BY <1>1, <1>7, <2>1 DEF WalkInv, L
<1> QED
  BY <1>2, <1>3, <1>5, <1>6, <1>7 DEF WalkInv

\* The walk down the dominator tree misses no block.
LEMMA StepWalk == ASSUME MInv, WalkInv, [Next]_vars PROVE WalkInv'
<1>1. CASE (\E v \in Promoted : PickVar(v)) \/ PlacePhis \/ NextVar
  <2>1. pc' \in {"vars", "work"}
    BY <1>1 DEF PickVar, PlacePhis, NextVar
  <2> QED
    BY <2>1 DEF WalkInv
<1>2. CASE QuietStep
  BY <1>2, BlockWalk
<1> QED
  BY <1>1, <1>2, StartWalk, CallWalk, BlockWalk, LeaveWalk, QuietSteps DEF Next

\* In a function that sets its variables before it reads them, no load or
\* store of a variable outlives its alloca: re_name goes through every block
\* and erases every load and store of an int or float local.
THEOREM NothingDangles == Spec => []NoDanglingAddress
<1>1. Init => WalkInv
  BY DEF Init, WalkInv
<1>2. MInv /\ WalkInv => NoDanglingAddress
  <2> SUFFICES ASSUME MInv, WalkInv, pc = "done", Strict,
                      NEW b \in Block, NEW i \in DOMAIN code[b], <<b, i>> \notin erased
               PROVE  code[b][i].lval \in Outside
    BY DEF NoDanglingAddress
  <2>1. frames = <<>> /\ InputInv
    BY DEF MInv, PhaseInv
  <2>2. AllErased(b)
    BY <2>1 DEF WalkInv
  <2>3. code[b][i].lval \notin Promoted
    BY <2>2 DEF AllErased
  <2>4. code[b][i].lval \in Var
    <3>1. code[b] \in Seq(Instr)
      BY <2>1, InputFacts
    <3>2. code[b][i] \in Instr
      BY <3>1
    <3> QED
      BY <3>2 DEF Instr
  <2> QED
    BY <2>3, <2>4 DEF Var, Promoted
<1> QED
  BY Invariance, StepWalk, <1>1, <1>2, PTL DEF Spec

-----------------------------------------------------------------------------
(***************************************************************************)
(* The result is in SSA form.                                              *)
(***************************************************************************)

\* A value that reaches a block reaches what the block dominates.
LEMMA ReachesOn ==
  ASSUME IsFlowGraph(g), NEW w, NEW b, NEW c, Reaches(g, w, b), DomIn(g, b, c)
  PROVE  Reaches(g, w, c)
BY DomTransitive DEF Reaches

\* The block re_name is in is below those of the callers.
LEMMA TopWay ==
  ASSUME ShapeInv, PathInv, pc \in {"instr", "kids"}
  PROVE  /\ IsFlowGraph(g) /\ Len(frames) \in Nat \ {0} /\ Top = frames[Len(frames)]
         /\ Top.bb \in Block /\ Top.bb \in ReachableIn(g) /\ DomIn(g, Top.bb, Top.bb)
         /\ \A k \in 1..(Len(frames) - 1) : SDomIn(g, frames[k].bb, Top.bb)
<1>1. /\ IsFlowGraph(g) /\ Len(frames) \in Nat \ {0} /\ Top = frames[Len(frames)]
      /\ Top.bb \in Block
  BY TopFacts, InputFacts DEF ShapeInv
<1>2. Len(frames) \in 1..Len(frames)
  BY <1>1
<1>3. Top.bb \in ReachableIn(g)
  BY <1>1, <1>2 DEF PathInv
<1>4. \A k \in 1..(Len(frames) - 1) : SDomIn(g, frames[k].bb, Top.bb)
  <2> TAKE k \in 1..(Len(frames) - 1)
  <2>1. k \in 1..Len(frames) /\ k < Len(frames)
    BY <1>1
  <2> QED
    BY <1>1, <1>2, <2>1 DEF PathInv
<1>5. DomIn(g, Top.bb, Top.bb)
  BY <1>1, <1>3, DomBasic
<1> QED
  BY <1>1, <1>3, <1>4, <1>5

\* The value that replaces the load re_name is at is there, is not that load,
\* and is defined on the way to it.
LEMMA NewValue ==
  ASSUME MInv, CurrentInv, ReplaceLoad
  PROVE  LET old == <<"load", Top.bb, pos>>
             new == stk[Here.lval][Len(stk[Here.lval])]
         IN  /\ old \in Loads /\ old \in Value /\ new \in Value
             /\ Live(new, Loads, wait \cup erased)
             /\ Reaches(g, new, Top.bb) /\ ComesBefore(new, Top.bb, pos)
             /\ new # old
<1> DEFINE old == <<"load", Top.bb, pos>>
           n == Len(stk[Here.lval])
           new == stk[Here.lval][n]
<1>1. ShapeInv /\ AtLoad /\ stk[Here.lval] # <<>> /\ Here.lval \in Promoted
  BY DEF ReplaceLoad, HasStack, MInv, ShapeInv
<1>2. pc = "instr" /\ pos \in Nat /\ old \in Loads
  BY <1>1, HereFacts
<1>3. old \in Value /\ stk[Here.lval] \in Seq(Value)
  BY <1>1, <1>2, InputFacts DEF ShapeInv, TypeOK
<1>4. n \in 1..n /\ new \in Value
  BY <1>1, <1>3
<1>5. /\ Live(new, Loads, wait \cup erased)
      /\ Reaches(g, new, Top.bb) /\ ComesBefore(new, Top.bb, pos)
  BY <1>1, <1>2, <1>4 DEF CurrentInv
<1>6. new # old
  <2> HIDE DEF new
  <2> SUFFICES ASSUME new = <<"load", Top.bb, pos>> PROVE FALSE
    OBVIOUS
  <2>1. new[1] = "load" /\ new[2] = Top.bb /\ new[3] = pos
    BY Zenon
  <2> QED
    BY <1>2, <1>5, <2>1 DEF ComesBefore
<1> QED
  BY <1>2, <1>3, <1>4, <1>5, <1>6

\* What lives and is not the replaced load lives on.
LEMMA LiveOn ==
  ASSUME NEW w, Live(w, Loads, wait \cup erased), NEW b, NEW q,
         w # <<"load", b, q>>
  PROVE  Live(w, Loads, (wait \cup {<<b, q>>}) \cup erased)
<1>1. CASE w[1] = "load"
  <2>1. w \in Loads /\ <<w[2], w[3]>> \notin wait \cup erased
    BY <1>1 DEF Live
  <2>2. w = <<"load", w[2], w[3]>>
    BY <2>1, LoadsFacts
  <2>3. <<w[2], w[3]>> # <<b, q>>
    BY <2>2
  <2> QED
    BY <2>1, <2>3 DEF Live
<1> QED
  BY <1>1 DEF Live

\* The operands after a load is replaced.
LEMMA ReplaceUse ==
  ASSUME MInv, UseInv, CurrentInv, ReplaceLoad
  PROVE  UseInv'
<1> DEFINE old == <<"load", Top.bb, pos>>
           new == stk[Here.lval][Len(stk[Here.lval])]
           W == (wait \cup {<<Top.bb, pos>>}) \cup erased
<1>1. /\ UNCHANGED input_vars /\ erased' = erased
      /\ use' = [l \in Loads |-> Subst(use[l], old, new)]
      /\ wait' = wait \cup {<<Top.bb, pos>>}
      /\ pc = "instr"
  BY DEF ReplaceLoad, AtLoad
<1>2. ShapeInv /\ PathInv /\ g' = g /\ Loads' = Loads
  BY <1>1, SameInput DEF MInv, ShapeInv
<1>3. /\ IsFlowGraph(g) /\ DomIn(g, Top.bb, Top.bb) /\ pos \in Nat
  BY <1>1, <1>2, TopWay DEF ShapeInv, TypeOK
<1>4. /\ old \in Loads /\ new \in Value
      /\ Live(new, Loads, wait \cup erased)
      /\ Reaches(g, new, Top.bb) /\ ComesBefore(new, Top.bb, pos)
      /\ new # old
  BY NewValue
<1>5. old[1] = "load" /\ old[2] = Top.bb /\ old[3] = pos
  OBVIOUS
<1>6. new[3] \in Nat
  BY <1>4 DEF Value
<1>7. Live(new, Loads, W)
  BY <1>4, LiveOn
<1>8. wait' \cup erased' = W
  BY <1>1
<1> HIDE DEF old, new, W
<1> SUFFICES ASSUME NEW l \in Loads
             PROVE  /\ Live(use'[l], Loads, W)
                    /\ use'[l] = l \/ Reaches(g, use'[l], l[2])
                    /\ ComesBefore(use'[l], l[2], l[3] + 1)
  BY <1>2, <1>8 DEF UseInv
<1>9. use'[l] = IF use[l] = old THEN new ELSE use[l]
  BY <1>1 DEF Subst
<1>10. /\ Live(use[l], Loads, wait \cup erased)
       /\ use[l] = l \/ Reaches(g, use[l], l[2])
       /\ ComesBefore(use[l], l[2], l[3] + 1)
  BY DEF UseInv
<1>11. CASE use[l] # old
  <2>1. use'[l] = use[l]
    BY <1>9, <1>11
  <2>2. Live(use[l], Loads, W)
    BY <1>10, <1>11, LiveOn DEF W, old
  <2> QED
    BY <1>10, <2>1, <2>2
<1>12. CASE use[l] = old
  <2>1. use'[l] = new
    BY <1>9, <1>12
  <2>2. DomIn(g, Top.bb, l[2])
    <3>1. CASE l = old
      BY <1>3, <1>5, <3>1
    <3>2. CASE Reaches(g, old, l[2])
      BY <1>5, <3>2 DEF Reaches
    <3> QED
      BY <1>10, <1>12, <3>1, <3>2
  <2>3. Reaches(g, new, l[2])
    BY <1>3, <1>4, <2>2, ReachesOn
  <2>4. ASSUME new[1] = "load", new[2] = l[2] PROVE new[3] < l[3] + 1
    <3>1. DomIn(g, l[2], Top.bb)
      BY <1>4, <2>4 DEF Reaches
    <3>2. l[2] = Top.bb
      BY <1>3, <2>2, <3>1, DomAntisymmetric
    <3>3. new[3] < pos
      BY <1>4, <2>4, <3>2 DEF ComesBefore
    <3>4. pos < l[3] + 1
      BY <1>5, <1>10, <1>12, <3>2 DEF ComesBefore
    <3>5. l[3] \in Nat
      <4>1. l \in Value
        BY <1>2, InputFacts DEF ShapeInv
      <4> QED
        BY <4>1 DEF Value
    <3> QED
      BY <1>3, <1>6, <3>3, <3>4, <3>5
  <2>5. ComesBefore(new, l[2], l[3] + 1)
    BY <2>4 DEF ComesBefore
  <2> QED
    BY <1>7, <2>1, <2>3, <2>5
<1> QED
  BY <1>11, <1>12

\* The values on the stacks after a load is replaced: none is that load.
LEMMA ReplaceStacks ==
  ASSUME MInv, CurrentInv, SavedInv, ReplaceLoad
  PROVE  CurrentInv' /\ SavedInv'
<1> DEFINE W == (wait \cup {<<Top.bb, pos>>}) \cup erased
<1>1. /\ UNCHANGED <<input_vars, frames, stk, pc>> /\ erased' = erased
      /\ wait' = wait \cup {<<Top.bb, pos>>} /\ pos' = pos + 1
      /\ pc = "instr"
  BY DEF ReplaceLoad, AtLoad
<1>2. ShapeInv /\ PathInv /\ g' = g /\ Loads' = Loads /\ Top' = Top
  BY <1>1, SameInput DEF MInv, ShapeInv, Top
<1>3. /\ IsFlowGraph(g) /\ Len(frames) \in Nat \ {0}
      /\ \A k \in 1..(Len(frames) - 1) : SDomIn(g, frames[k].bb, Top.bb)
  BY <1>1, <1>2, TopWay
<1>4. pos \in Nat /\ wait' \cup erased' = W /\ stk \in [Promoted -> Seq(Value)]
  BY <1>1, <1>2 DEF ShapeInv, TypeOK
<1> HIDE DEF W
<1>5. ASSUME NEW v \in Promoted, NEW i \in 1..Len(stk[v])
      PROVE  /\ Live(stk[v][i], Loads, W) /\ Reaches(g, stk[v][i], Top.bb)
             /\ ComesBefore(stk[v][i], Top.bb, pos + 1)
  <2> DEFINE w == stk[v][i]
  <2>1. /\ Live(w, Loads, wait \cup erased) /\ Reaches(g, w, Top.bb)
        /\ ComesBefore(w, Top.bb, pos)
    BY <1>1 DEF CurrentInv
  <2>2. w \in Value
    BY <1>4
  <2>3. w[3] \in Nat
    BY <2>2 DEF Value
  <2> HIDE DEF w
  <2>4. w # <<"load", Top.bb, pos>>
    <3> SUFFICES ASSUME w = <<"load", Top.bb, pos>> PROVE FALSE
      OBVIOUS
    <3>1. w[1] = "load" /\ w[2] = Top.bb /\ w[3] = pos
      BY Zenon
    <3> QED
      BY <1>4, <2>1, <3>1 DEF ComesBefore
  <2>5. Live(w, Loads, W)
    BY <2>1, <2>4, LiveOn DEF W
  <2>6. ComesBefore(w, Top.bb, pos + 1)
    BY <1>4, <2>1, <2>3 DEF ComesBefore
  <2> QED
    BY <2>1, <2>5, <2>6 DEF w
<1>6. ASSUME NEW k \in 1..Len(frames), NEW v \in Promoted,
             NEW i \in 1..Len(frames[k].saved[v])
      PROVE  Live(frames[k].saved[v][i], Loads, W)
  <2> DEFINE w == frames[k].saved[v][i]
  <2>1. /\ Live(w, Loads, wait \cup erased)
        /\ k > 1 /\ Reaches(g, w, frames[k - 1].bb)
    BY DEF SavedInv
  <2>2. SDomIn(g, frames[k - 1].bb, Top.bb)
    <3>1. k - 1 \in 1..(Len(frames) - 1)
      BY <1>3, <2>1
    <3> QED
      BY <1>3, <3>1
  <2> HIDE DEF w
  <2>3. w # <<"load", Top.bb, pos>>
    <3> SUFFICES ASSUME w = <<"load", Top.bb, pos>> PROVE FALSE
      OBVIOUS
    <3>1. w[1] = "load" /\ w[2] = Top.bb
      BY Zenon
    <3>2. DomIn(g, Top.bb, frames[k - 1].bb)
      BY <2>1, <3>1 DEF Reaches
    <3> QED
      BY <1>3, <2>2, <3>2, DomAntisymmetric DEF SDomIn
  <2> QED
    BY <2>1, <2>3, LiveOn DEF W, w
<1>7. CurrentInv'
  BY <1>1, <1>2, <1>4, <1>5 DEF CurrentInv
<1>8. SavedInv'
  BY <1>1, <1>2, <1>4, <1>6 DEF SavedInv
<1> QED
  BY <1>7, <1>8

\* The operands of the phis after a load is replaced.
LEMMA ReplaceArgs ==
  ASSUME MInv, CurrentInv, ArgsInv, ReplaceLoad
  PROVE  ArgsInv'
<1> DEFINE old == <<"load", Top.bb, pos>>
           new == stk[Here.lval][Len(stk[Here.lval])]
           W == (wait \cup {<<Top.bb, pos>>}) \cup erased
<1>1. /\ UNCHANGED <<input_vars, frames, pc>> /\ erased' = erased
      /\ args' = [b \in Block |-> [v \in Promoted |->
              [k \in DOMAIN args[b][v] |->
                 [args[b][v][k] EXCEPT !.val = Subst(@, old, new)]]]]
      /\ wait' = wait \cup {<<Top.bb, pos>>}
      /\ pc = "instr"
  BY DEF ReplaceLoad, AtLoad
<1>2. /\ ShapeInv /\ PathInv /\ g' = g /\ Block' = Block /\ Loads' = Loads
      /\ Top' = Top
  BY <1>1, SameInput DEF MInv, ShapeInv, Top
<1>3. /\ IsFlowGraph(g)
      /\ args \in [Block -> [Promoted -> Seq([val : Value, bb : Block])]]
  BY <1>1, <1>2, TopWay DEF ShapeInv, TypeOK
<1>4. /\ Live(new, Loads, wait \cup erased) /\ Reaches(g, new, Top.bb) /\ new # old
  BY NewValue
<1>5. old[1] = "load" /\ old[2] = Top.bb
  OBVIOUS
<1>6. Live(new, Loads, W)
  BY <1>4, LiveOn
<1>7. wait' \cup erased' = W
  BY <1>1
<1> HIDE DEF old, new, W
<1>8. ASSUME NEW b \in Block, NEW v \in Promoted
      PROVE  /\ DOMAIN args'[b][v] = DOMAIN args[b][v]
             /\ \A k \in DOMAIN args[b][v] :
                  /\ args'[b][v][k].bb = args[b][v][k].bb
                  /\ args'[b][v][k].val = Subst(args[b][v][k].val, old, new)
  <2>1. args'[b][v] = [k \in DOMAIN args[b][v] |->
                         [args[b][v][k] EXCEPT !.val = Subst(@, old, new)]]
    BY <1>1
  <2>2. \A k \in DOMAIN args[b][v] : args[b][v][k] \in [val : Value, bb : Block]
    <3> DEFINE A == [val : Value, bb : Block]
    <3>1. args[b][v] \in Seq(A)
      BY <1>3
    <3> HIDE DEF A
    <3>2. \A k \in DOMAIN args[b][v] : args[b][v][k] \in A
      BY <3>1
    <3> QED
      BY <3>2 DEF A
  <2> QED
    BY <2>1, <2>2
<1> SUFFICES ASSUME NEW b \in Block, NEW v \in Promoted
             PROVE  /\ ArgsOK(g, Loads, W, Ahead, b, args'[b][v])
                    /\ \A k \in DOMAIN args'[b][v] : args'[b][v][k].bb # Top.bb
  <2>1. Ahead' = Ahead
    BY <1>1, <1>2 DEF Ahead
  <2>2. pc' = "instr"
    BY <1>1
  <2> QED
    BY <1>2, <1>7, <2>1, <2>2 DEF ArgsInv
<1> DEFINE s == args[b][v]
           t == args'[b][v]
<1>9. /\ ArgsOK(g, Loads, wait \cup erased, Ahead, b, s)
      /\ \A k \in DOMAIN s : s[k].bb # Top.bb
  BY <1>1 DEF ArgsInv
<1>10. DOMAIN t = DOMAIN s /\ \A k \in DOMAIN s : t[k].bb = s[k].bb
  BY <1>8
<1>11. \A k \in DOMAIN s : t[k].val = Subst(s[k].val, old, new)
  BY <1>8
<1> HIDE DEF s, t
<1>12. ASSUME NEW k \in DOMAIN s
       PROVE  Live(t[k].val, Loads, W) /\ Reaches(g, t[k].val, s[k].bb)
  <2> DEFINE w == s[k].val
             p == s[k].bb
  <2>1. Live(w, Loads, wait \cup erased) /\ Reaches(g, w, p)
    BY <1>9 DEF ArgsOK
  <2>2. t[k].val = Subst(w, old, new)
    BY <1>11
  <2> HIDE DEF w, p
  <2>3. CASE w # old
    <3>1. t[k].val = w
      BY <2>2, <2>3 DEF Subst
    <3>2. Live(w, Loads, W)
      BY <2>1, <2>3, LiveOn DEF W, old
    <3> QED
      BY <2>1, <3>1, <3>2 DEF p
  <2>4. CASE w = old
    <3>1. t[k].val = new
      BY <2>2, <2>4 DEF Subst
    <3>2. DomIn(g, Top.bb, p)
      BY <1>5, <2>1, <2>4 DEF Reaches
    <3>3. Reaches(g, new, p)
      BY <1>3, <1>4, <3>2, ReachesOn
    <3> QED
      BY <1>6, <3>1, <3>3 DEF p
  <2> QED
    BY <2>3, <2>4
<1>13. ArgsOK(g, Loads, W, Ahead, b, t)
  BY <1>9, <1>10, <1>12 DEF ArgsOK
<1> QED
  BY <1>9, <1>10, <1>13 DEF t

\* A store that is to be erased is no value.
LEMMA StoreNoValue ==
  ASSUME AtStore, NEW w, Live(w, Loads, wait \cup erased)
  PROVE  Live(w, Loads, (wait \cup {<<Top.bb, pos>>}) \cup erased)
<1>1. ~IsLoad(Top.bb, pos)
  BY DEF AtStore, IsStore, IsLoad
<1>2. w # <<"load", Top.bb, pos>>
  <2> SUFFICES ASSUME w = <<"load", Top.bb, pos>> PROVE FALSE
    OBVIOUS
  <2>1. w[1] = "load" /\ w[2] = Top.bb /\ w[3] = pos
    BY Zenon
  <2>2. w \in Loads
    BY <2>1 DEF Live
  <2> QED
    BY <1>1, <2>1, <2>2, LoadsFacts
<1> QED
  BY <1>2, LiveOn

\* The value a store pushes is there and defined on the way to the store.
LEMMA StoredReaches ==
  ASSUME MInv, UseInv, AtStore
  PROVE  /\ Live(StoredValue(Here), Loads, wait \cup erased)
         /\ Reaches(g, StoredValue(Here), Top.bb)
         /\ ComesBefore(StoredValue(Here), Top.bb, pos + 1)
<1> DEFINE b == Top.bb
           r == code[b][pos].rval
<1>1. ShapeInv /\ PathInv /\ InputInv /\ pc = "instr" /\ IsStore(b, pos)
  BY DEF MInv, ShapeInv, AtStore
<1>2. /\ IsFlowGraph(g) /\ b \in Block /\ b \in ReachableIn(g) /\ DomIn(g, b, b)
  BY <1>1, TopWay
<1>3. pos \in Nat /\ use \in [Loads -> Value]
  BY <1>1 DEF ShapeInv, TypeOK
<1>4. /\ r[1] # "load" => r[1] = "const"
      /\ r[1] = "load" =>
              /\ r \in Loads
              /\ \/ r[2] = b /\ r[3] < pos
                 \/ SDomIn(g, r[2], b)
  BY <1>1, <1>2, StoredFacts
<1>5. StoredValue(Here) = IF r[1] = "load" THEN use[r] ELSE r
  BY DEF StoredValue, Operand, Here
<1>6. CASE r[1] # "load"
  <2>1. StoredValue(Here) = r /\ r[1] = "const"
    BY <1>4, <1>5, <1>6
  <2> QED
    BY <2>1 DEF Live, Reaches, ComesBefore
<1>7. CASE r[1] = "load"
  <2> DEFINE w == use[r]
  <2>1. StoredValue(Here) = w /\ r \in Loads
    BY <1>4, <1>5, <1>7
  <2>2. /\ Live(w, Loads, wait \cup erased)
        /\ w = r \/ Reaches(g, w, r[2])
        /\ ComesBefore(w, r[2], r[3] + 1)
    BY <2>1 DEF UseInv
  <2>3. w \in Value /\ r \in Value
    BY <1>1, <1>3, <2>1, InputFacts
  <2>4. w[3] \in Nat /\ r[3] \in Nat
    BY <2>3 DEF Value
  <2>5. (r[2] = b /\ r[3] < pos) \/ SDomIn(g, r[2], b)
    BY <1>4, <1>7
  <2> HIDE DEF w, r, b
  <2>6. DomIn(g, r[2], b)
    BY <1>2, <2>5 DEF SDomIn
  <2>7. Reaches(g, w, b)
    <3>1. CASE w = r
      BY <2>6, <3>1 DEF Reaches
    <3>2. CASE Reaches(g, w, r[2])
      BY <1>2, <2>6, <3>2, ReachesOn
    <3> QED
      BY <2>2, <3>1, <3>2
  <2>8. ASSUME w[1] = "load", w[2] = b PROVE w[3] < pos + 1
    <3>1. DomIn(g, b, r[2])
      <4>1. CASE w = r
        BY <1>2, <2>8, <4>1
      <4>2. CASE Reaches(g, w, r[2])
        BY <2>8, <4>2 DEF Reaches
      <4> QED
        BY <2>2, <4>1, <4>2
    <3>2. r[2] = b
      BY <1>2, <2>6, <3>1, DomAntisymmetric
    <3>3. r[3] < pos
      BY <2>5, <3>2 DEF SDomIn
    <3>4. w[3] < r[3] + 1
      BY <2>2, <2>8, <3>2 DEF ComesBefore
    <3> QED
      BY <1>3, <2>4, <3>3, <3>4
  <2>9. ComesBefore(w, b, pos + 1)
    BY <2>8 DEF ComesBefore
  <2> QED
    BY <2>1, <2>2, <2>7, <2>9 DEF b
<1> QED
  BY <1>6, <1>7

\* The values after a store.
LEMMA PushSSA == ASSUME MInv, SSAInv, PushStore PROVE SSAInv'
<1> DEFINE W == (wait \cup {<<Top.bb, pos>>}) \cup erased
           new == StoredValue(Here)
           x == Here.lval
<1>1. /\ UNCHANGED <<input_vars, frames, pc, use, args>> /\ erased' = erased
      /\ wait' = wait \cup {<<Top.bb, pos>>} /\ pos' = pos + 1
      /\ AtStore /\ pc = "instr" /\ x \in Promoted
      /\ stk' = [stk EXCEPT ![x] = Append(@, new)]
  BY DEF PushStore, AtStore
<1>2. /\ ShapeInv /\ PathInv /\ g' = g /\ Loads' = Loads /\ Block' = Block
      /\ Top' = Top
  BY <1>1, SameInput DEF MInv, ShapeInv, Top
<1>3. pos \in Nat /\ wait' \cup erased' = W /\ stk \in [Promoted -> Seq(Value)]
  BY <1>1, <1>2 DEF ShapeInv, TypeOK
<1>4. UseInv /\ CurrentInv /\ SavedInv /\ ArgsInv
  BY DEF SSAInv
<1>5. \A w : Live(w, Loads, wait \cup erased) => Live(w, Loads, W)
  BY <1>1, StoreNoValue
<1>6. /\ Live(new, Loads, W) /\ Reaches(g, new, Top.bb)
      /\ ComesBefore(new, Top.bb, pos + 1)
  BY <1>1, <1>4, <1>5, StoredReaches
<1> HIDE DEF W, new, x
<1>7. UseInv'
  BY <1>1, <1>2, <1>3, <1>4, <1>5 DEF UseInv
<1>8. SavedInv'
  BY <1>1, <1>2, <1>3, <1>4, <1>5 DEF SavedInv
<1>9. ArgsInv'
  <2>1. \A b \in Block : \A v \in Promoted : ArgsOK(g, Loads, W, Ahead, b, args[b][v])
    BY <1>4, <1>5 DEF ArgsInv, ArgsOK
  <2>2. Ahead' = Ahead
    BY <1>1, <1>2 DEF Ahead
  <2> QED
    BY <1>1, <1>2, <1>3, <1>4, <2>1, <2>2 DEF ArgsInv
<1>10. ASSUME NEW v \in Promoted, NEW i \in 1..Len(stk'[v])
       PROVE  /\ Live(stk'[v][i], Loads, W) /\ Reaches(g, stk'[v][i], Top.bb)
              /\ ComesBefore(stk'[v][i], Top.bb, pos + 1)
  <2>1. CASE i \in 1..Len(stk[v]) /\ stk'[v][i] = stk[v][i]
    <3> DEFINE w == stk[v][i]
    <3>1. /\ Live(w, Loads, wait \cup erased) /\ Reaches(g, w, Top.bb)
          /\ ComesBefore(w, Top.bb, pos)
      BY <1>1, <1>4, <2>1 DEF CurrentInv
    <3>2. w \in Value
      BY <1>3, <2>1
    <3>3. w[3] \in Nat
      BY <3>2 DEF Value
    <3> HIDE DEF w
    <3>4. ComesBefore(w, Top.bb, pos + 1)
      BY <1>3, <3>1, <3>3 DEF ComesBefore
    <3> QED
      BY <1>5, <2>1, <3>1, <3>4 DEF w
  <2>2. CASE stk'[v][i] = new
    BY <1>6, <2>2
  <2>3. (i \in 1..Len(stk[v]) /\ stk'[v][i] = stk[v][i]) \/ stk'[v][i] = new
    <3>1. CASE v # x
      <4>1. stk'[v] = stk[v]
        BY <1>1, <1>3, <3>1
      <4> QED
        BY <4>1
    <3>2. CASE v = x
      <4>1. stk'[v] = Append(stk[v], new) /\ stk[v] \in Seq(Value)
        BY <1>1, <1>3, <3>2
      <4> QED
        BY <4>1
    <3> QED
      BY <3>1, <3>2
  <2> QED
    BY <2>1, <2>2, <2>3
<1>11. CurrentInv'
  BY <1>1, <1>2, <1>3, <1>10 DEF CurrentInv
<1> QED
  BY <1>7, <1>8, <1>9, <1>11 DEF SSAInv

\* generate_phi gives no phi an operand and replaces nothing.
LEMMA PlaceSSA ==
  ASSUME MInv, SSAInv, (\E v \in Promoted : PickVar(v)) \/ PlacePhis \/ NextVar
  PROVE  SSAInv'
<1>1. /\ UNCHANGED <<input_vars, frames, use, args, wait, erased>>
      /\ pc \in {"vars", "work"} /\ pc' \in {"vars", "work"}
  BY DEF PickVar, PlacePhis, NextVar, ssa_vars
<1>2. g' = g /\ Loads' = Loads /\ Block' = Block /\ Ahead' = Ahead
  BY <1>1, SameInput DEF Ahead
<1>3. UseInv' /\ SavedInv' /\ CurrentInv'
  BY <1>1, <1>2 DEF SSAInv, UseInv, SavedInv, CurrentInv
<1>4. ArgsInv'
  BY <1>1, <1>2 DEF SSAInv, ArgsInv
<1> QED
  BY <1>3, <1>4 DEF SSAInv

\* A step that changes no more than the position or the phase.
LEMMA QuietSSA == ASSUME MInv, SSAInv, QuietStep PROVE SSAInv'
<1>1. /\ UNCHANGED <<input_vars, frames, stk, use, args, wait, erased>>
  BY DEF QuietStep
<1>2. /\ g' = g /\ Loads' = Loads /\ Block' = Block /\ Ahead' = Ahead /\ Top' = Top
  BY <1>1, SameInput DEF Ahead, Top
<1>3. pos \in Nat /\ stk \in [Promoted -> Seq(Value)]
  BY DEF MInv, TypeOK
<1>4. \/ (pc' = pc /\ (pos' = pos \/ pos' = pos + 1))
      \/ (pc \in {"instr", "alloca"} /\ pc' \in {"crash", "abort", "done"})
  <2>1. CASE KeepLoad \/ KeepStore
    BY <2>1 DEF KeepLoad, KeepStore
  <2>2. CASE UNCHANGED vars
    BY <2>2 DEF vars
  <2>3. CASE BackOfEmpty
    BY <2>3 DEF BackOfEmpty, AtLoad
  <2>4. CASE AssertFails
    BY <2>4 DEF AssertFails, AtEnd
  <2>5. CASE RemoveAlloca
    BY <2>5 DEF RemoveAlloca
  <2> QED
    BY <2>1, <2>2, <2>3, <2>4, <2>5 DEF QuietStep
<1>5. UseInv' /\ SavedInv'
  BY <1>1, <1>2 DEF SSAInv, UseInv, SavedInv
<1>6. ASSUME pc' \in {"instr", "kids"}
      PROVE  CurrentInv' /\ pc' = pc
  <2>1. pc' = pc /\ (pos' = pos \/ pos' = pos + 1)
    BY <1>4, <1>6
  <2>2. \A v \in Promoted : \A i \in 1..Len(stk[v]) :
          ComesBefore(stk[v][i], Top.bb, pos) => ComesBefore(stk[v][i], Top.bb, pos')
    <3> TAKE v \in Promoted
    <3> TAKE i \in 1..Len(stk[v])
    <3>1. stk[v][i] \in Value
      BY <1>3
    <3>2. stk[v][i][3] \in Nat
      BY <3>1 DEF Value
    <3> QED
      BY <1>3, <2>1, <3>2 DEF ComesBefore
  <2> QED
    BY <1>1, <1>2, <2>1, <2>2 DEF SSAInv, CurrentInv
<1>7. CurrentInv'
  <2>1. CASE pc' \in {"instr", "kids"}
    BY <1>6, <2>1
  <2>2. CASE pc' \notin {"instr", "kids"}
    BY <2>2 DEF CurrentInv
  <2> QED
    BY <2>1, <2>2
<1>8. (pc' = "instr" => pc = "instr")
      /\ (pc' \in {"vars", "work"} => pc \in {"vars", "work"})
  BY <1>4
<1>9. ArgsInv'
  BY <1>1, <1>2, <1>8 DEF SSAInv, ArgsInv
<1> QED
  BY <1>5, <1>7, <1>9 DEF SSAInv

\* The first call: the stacks hold no more than phis of the entry.
LEMMA StartSSA == ASSUME MInv, SSAInv, StartRename PROVE SSAInv'
<1>1. /\ UNCHANGED <<input_vars, use, args, wait, erased>>
      /\ pc = "vars" /\ pc' = "instr" /\ pos' = 1
      /\ frames' = <<[bb |-> Entry, kids |-> kids[Entry], saved |-> stk]>>
      /\ stk' = [v \in Promoted |-> IF v \in phi[Entry]
                                    THEN Append(stk[v], <<"phi", Entry, v>>)
                                    ELSE stk[v]]
  BY DEF StartRename, Enter, ssa_vars
<1>2. /\ InputInv /\ \A v \in Promoted : stk[v] = <<>>
      /\ g' = g /\ Loads' = Loads /\ Block' = Block
  BY <1>1, SameInput DEF MInv, PhaseInv
<1>3. /\ Len(frames') = 1 /\ frames'[1].saved = stk /\ Top' = frames'[1]
      /\ frames'[1].bb = Entry
  BY <1>1 DEF Top
<1>4. DomIn(g, Entry, Entry)
  BY <1>2, InputFacts, ReachFacts, DomBasic
<1>5. UseInv'
  BY <1>1, <1>2 DEF SSAInv, UseInv
<1>6. SavedInv'
  BY <1>2, <1>3 DEF SavedInv
<1>7. ASSUME NEW v \in Promoted, NEW i \in 1..Len(stk'[v])
      PROVE  stk'[v][i] = <<"phi", Entry, v>>
  BY <1>1, <1>2
<1>8. ASSUME NEW v
      PROVE  /\ Live(<<"phi", Entry, v>>, Loads, wait \cup erased)
             /\ Reaches(g, <<"phi", Entry, v>>, Entry)
             /\ ComesBefore(<<"phi", Entry, v>>, Entry, 1)
  BY <1>4 DEF Live, Reaches, ComesBefore
<1>9. CurrentInv'
  BY <1>1, <1>2, <1>3, <1>7, <1>8 DEF CurrentInv
<1>10. \A b \in Block : \A v \in Promoted : args'[b][v] = <<>>
  BY <1>1 DEF SSAInv, ArgsInv
<1>11. \A gr, Ls, W, K, b : ArgsOK(gr, Ls, W, K, b, <<>>)
  BY DEF ArgsOK
<1>12. ArgsInv'
  BY <1>1, <1>2, <1>10, <1>11 DEF ArgsInv
<1> QED
  BY <1>5, <1>6, <1>9, <1>12 DEF SSAInv

\* The recursive call: what is on the stacks is defined above the child, and
\* what it adds are phis of the child.
LEMMA CallSSA == ASSUME MInv, SSAInv, NEW d \in Block, Recurse(d) PROVE SSAInv'
<1> DEFINE L == Len(frames)
<1>1. /\ UNCHANGED <<input_vars, use, args, wait, erased>>
      /\ pc = "kids" /\ pc' = "instr" /\ pos' = 1
      /\ stk' = [v \in Promoted |-> IF v \in phi[d]
                                    THEN Append(stk[v], <<"phi", d, v>>)
                                    ELSE stk[v]]
  BY DEF Recurse, Enter, ssa_vars
<1>2. /\ ShapeInv /\ PathInv /\ InputInv /\ g' = g /\ Loads' = Loads /\ Block' = Block
      /\ stk \in [Promoted -> Seq(Value)]
  BY <1>1, SameInput DEF MInv, ShapeInv, TypeOK
<1>3. /\ L \in Nat \ {0} /\ Len(frames') = L + 1
      /\ \A k \in 1..L : /\ frames'[k].bb = frames[k].bb
                         /\ frames'[k].saved = frames[k].saved
                         /\ frames'[k].kids \subseteq frames[k].kids
      /\ frames'[L + 1].bb = d /\ frames'[L + 1].saved = stk
      /\ frames'[L + 1].kids = kids[d] /\ d \in frames[L].kids
  BY <1>2, CallFrames
<1>4. Top' = frames'[L + 1] /\ Top = frames[L] /\ L \in 1..L
  BY <1>3 DEF Top
<1>5. /\ IsFlowGraph(g) /\ DomIn(g, Top.bb, Top.bb)
  BY <1>1, <1>2, TopWay
<1>6. SDomIn(g, Top.bb, d) /\ d \in ReachableIn(g) /\ DomIn(g, d, d)
  <2>1. d \in kids[Top.bb] /\ Top.bb \in Block
    BY <1>1, <1>2, <1>3, <1>4, TopWay DEF PathInv
  <2>2. SDomIn(g, Top.bb, d) /\ d \in ReachableIn(g)
    BY <1>2, <2>1, ChildFacts
  <2> QED
    BY <1>5, <2>2, DomBasic
<1> HIDE DEF L
<1>7. UseInv'
  BY <1>1, <1>2 DEF SSAInv, UseInv
<1>8. ASSUME NEW v \in Promoted, NEW i \in 1..Len(stk[v])
      PROVE  /\ Live(stk[v][i], Loads, wait \cup erased)
             /\ Reaches(g, stk[v][i], Top.bb)
             /\ Reaches(g, stk[v][i], d)
             /\ ComesBefore(stk[v][i], d, 1)
  <2> DEFINE w == stk[v][i]
  <2>1. Live(w, Loads, wait \cup erased) /\ Reaches(g, w, Top.bb)
    BY <1>1 DEF SSAInv, CurrentInv
  <2> HIDE DEF w
  <2>2. Reaches(g, w, d)
    BY <1>5, <1>6, <2>1, ReachesOn DEF SDomIn
  <2>3. ~(w[1] = "load" /\ w[2] = d)
    <3> SUFFICES ASSUME w[1] = "load", w[2] = d PROVE FALSE
      OBVIOUS
    <3>1. DomIn(g, d, Top.bb)
      BY <2>1 DEF Reaches
    <3> QED
      BY <1>5, <1>6, <3>1, DomAntisymmetric DEF SDomIn
  <2> QED
    BY <2>1, <2>2, <2>3 DEF ComesBefore, w
<1>9. ASSUME NEW k \in 1..(L + 1), NEW v \in Promoted,
             NEW i \in 1..Len(frames'[k].saved[v])
      PROVE  /\ Live(frames'[k].saved[v][i], Loads, wait \cup erased)
             /\ k > 1 /\ Reaches(g, frames'[k].saved[v][i], frames'[k - 1].bb)
  <2>1. CASE k \in 1..L
    <3>1. /\ frames'[k].saved = frames[k].saved
          /\ k > 1 => frames'[k - 1].bb = frames[k - 1].bb
      BY <1>3, <2>1
    <3> QED
      BY <2>1, <3>1 DEF SSAInv, SavedInv, L
  <2>2. CASE k = L + 1
    <3>1. /\ frames'[k].saved = stk /\ k > 1 /\ k - 1 = L
          /\ frames'[L].bb = Top.bb
      BY <1>3, <1>4, <2>2
    <3> QED
      BY <1>8, <3>1
  <2> QED
    BY <1>3, <2>1, <2>2
<1>10. SavedInv'
  BY <1>1, <1>2, <1>3, <1>9 DEF SavedInv
<1>11. ASSUME NEW v \in Promoted, NEW i \in 1..Len(stk'[v])
       PROVE  /\ Live(stk'[v][i], Loads, wait \cup erased)
              /\ Reaches(g, stk'[v][i], d) /\ ComesBefore(stk'[v][i], d, 1)
  <2>1. (i \in 1..Len(stk[v]) /\ stk'[v][i] = stk[v][i])
          \/ stk'[v][i] = <<"phi", d, v>>
    <3>1. CASE v \notin phi[d]
      <4>1. stk'[v] = stk[v]
        BY <1>1, <3>1
      <4> QED
        BY <4>1
    <3>2. CASE v \in phi[d]
      <4> DEFINE w == <<"phi", d, v>>
      <4>1. stk'[v] = Append(stk[v], w) /\ stk[v] \in Seq(Value)
        BY <1>1, <1>2, <3>2
      <4> HIDE DEF w
      <4>2. (i \in 1..Len(stk[v]) /\ stk'[v][i] = stk[v][i]) \/ stk'[v][i] = w
        BY <4>1
      <4> QED
        BY <4>2 DEF w
    <3> QED
      BY <3>1, <3>2
  <2>2. /\ Live(<<"phi", d, v>>, Loads, wait \cup erased)
        /\ Reaches(g, <<"phi", d, v>>, d) /\ ComesBefore(<<"phi", d, v>>, d, 1)
    BY <1>6 DEF Live, Reaches, ComesBefore
  <2> QED
    BY <1>8, <2>1, <2>2
<1>12. CurrentInv'
  BY <1>1, <1>2, <1>3, <1>4, <1>11 DEF CurrentInv
<1>13. ASSUME NEW b \in Block, NEW v \in Promoted
       PROVE  /\ ArgsOK(g, Loads, wait \cup erased, Ahead', b, args[b][v])
              /\ \A k \in DOMAIN args[b][v] : args[b][v][k].bb # d
  <2> DEFINE s == args[b][v]
  <2>1. ArgsOK(g, Loads, wait \cup erased, Ahead, b, s)
    BY DEF SSAInv, ArgsInv
  <2> HIDE DEF s
  <2>2. d \in Ahead
    BY <1>3, <1>4 DEF Ahead, L
  <2>3. \A k \in DOMAIN s : ~DomIn(g, d, s[k].bb)
    BY <2>1, <2>2 DEF ArgsOK
  <2>4. \A c \in Ahead' : c \in Ahead \/ DomIn(g, d, c)
    <3> SUFFICES ASSUME NEW c \in Block, NEW j \in 1..(L + 1), c \in frames'[j].kids
                 PROVE  c \in Ahead \/ DomIn(g, d, c)
      BY <1>2, <1>3 DEF Ahead
    <3>1. CASE j \in 1..L
      <4>1. c \in frames[j].kids
        BY <1>3, <3>1
      <4> QED
        BY <3>1, <4>1 DEF Ahead, L
    <3>2. CASE j = L + 1
      <4>1. c \in kids[d]
        BY <1>3, <3>2
      <4> QED
        BY <1>2, <4>1, ChildFacts DEF SDomIn
    <3> QED
      BY <1>3, <3>1, <3>2
  <2>5. \A k \in DOMAIN s : \A c \in Ahead' : ~DomIn(g, c, s[k].bb)
    <3> TAKE k \in DOMAIN s
    <3> TAKE c \in Ahead'
    <3>1. CASE c \in Ahead
      BY <2>1, <3>1 DEF ArgsOK
    <3>2. CASE DomIn(g, d, c)
      BY <1>5, <2>3, <3>2, DomTransitive
    <3> QED
      BY <2>4, <3>1, <3>2
  <2>6. ArgsOK(g, Loads, wait \cup erased, Ahead', b, s)
    BY <2>1, <2>5 DEF ArgsOK
  <2>7. \A k \in DOMAIN s : s[k].bb # d
    BY <1>6, <2>3
  <2> QED
    BY <2>6, <2>7 DEF s
<1>14. ArgsInv'
  BY <1>1, <1>2, <1>3, <1>4, <1>13 DEF ArgsInv
<1> QED
  BY <1>7, <1>10, <1>12, <1>14 DEF SSAInv

\* The end of a block: its successors' phis get one operand each, and had
\* none from this block.
LEMMA FillSSA == ASSUME MInv, SSAInv, FillPhis PROVE SSAInv'
<1> DEFINE L == Len(frames)
           W == wait \cup erased
<1>1. /\ UNCHANGED <<input_vars, frames, stk, use, wait, erased>>
      /\ pc = "instr" /\ pc' = "kids"
      /\ args' = [b \in Block |-> [v \in Promoted |->
           IF <<b, v>> \in PhisToFill
           THEN Append(args[b][v], [val |-> stk[v][Len(stk[v])], bb |-> Top.bb])
           ELSE args[b][v]]]
      /\ \A f \in PhisToFill : stk[f[2]] # <<>>
  BY DEF FillPhis, AtEnd
<1>2. /\ ShapeInv /\ PathInv /\ g' = g /\ Loads' = Loads /\ Block' = Block
      /\ Top' = Top /\ Ahead' = Ahead
  BY <1>1, SameInput DEF MInv, ShapeInv, Top, Ahead
<1>3. /\ stk \in [Promoted -> Seq(Value)]
      /\ args \in [Block -> [Promoted -> Seq([val : Value, bb : Block])]]
  BY <1>2 DEF ShapeInv, TypeOK
<1>4. UseInv' /\ SavedInv' /\ CurrentInv'
  BY <1>1, <1>2 DEF SSAInv, UseInv, SavedInv, CurrentInv
<1>5. Top.bb \in Block /\ Top = frames[L] /\ L \in 1..L
  BY <1>1, <1>2, TopWay
<1>6. \A c \in Ahead : ~DomIn(g, c, Top.bb)
  BY <1>2, <1>5 DEF Ahead, PathInv
<1>7. ASSUME NEW b \in Block, NEW v \in Promoted
      PROVE  ArgsOK(g, Loads, W, Ahead, b, args'[b][v])
  <2> DEFINE s == args[b][v]
             t == args'[b][v]
             A == [val : Value, bb : Block]
  <2>1. /\ ArgsOK(g, Loads, W, Ahead, b, s)
        /\ \A k \in DOMAIN s : s[k].bb # Top.bb
    BY <1>1 DEF SSAInv, ArgsInv
  <2>2. CASE <<b, v>> \notin PhisToFill
    <3>1. t = s
      BY <1>1, <2>2
    <3> QED
      BY <2>1, <3>1
  <2>3. CASE <<b, v>> \in PhisToFill
    <3> DEFINE w == stk[v][Len(stk[v])]
               a == [val |-> w, bb |-> Top.bb]
    <3>1. t = Append(s, a)
      BY <1>1, <2>3
    <3>2. <<b, v>>[1] = b /\ <<b, v>>[2] = v
      OBVIOUS
    <3>3. b \in g[Top.bb] /\ stk[v] # <<>>
      BY <1>1, <2>3, <3>2 DEF PhisToFill
    <3>4. Top.bb \in PredIn(g, b)
      BY <1>5, <3>3 DEF PredIn, Block
    <3>5. stk[v] \in Seq(Value)
      BY <1>3
    <3>6. Len(stk[v]) \in 1..Len(stk[v]) /\ w \in Value
      BY <3>3, <3>5
    <3>7. Live(w, Loads, W) /\ Reaches(g, w, Top.bb)
      BY <1>1, <3>6 DEF SSAInv, CurrentInv
    <3>8. a.val = w /\ a.bb = Top.bb /\ a \in A
      BY <1>5, <3>6
    <3>9. s \in Seq(A)
      BY <1>3
    <3> HIDE DEF s, t, a, w, A, W
    <3>10. /\ DOMAIN t = 1..(Len(s) + 1) /\ DOMAIN s = 1..Len(s) /\ Len(s) \in Nat
           /\ t[Len(s) + 1] = a
           /\ \A k \in DOMAIN s : t[k] = s[k]
      BY <3>1, <3>8, <3>9
    <3>11. \A k \in DOMAIN t : (k \in DOMAIN s /\ t[k] = s[k])
                               \/ (k = Len(s) + 1 /\ t[k] = a)
      BY <3>10
    <3>12. ASSUME NEW k \in DOMAIN t
           PROVE  /\ t[k].bb \in PredIn(g, b)
                  /\ Live(t[k].val, Loads, W)
                  /\ Reaches(g, t[k].val, t[k].bb)
                  /\ \A c \in Ahead : ~DomIn(g, c, t[k].bb)
      <4>1. CASE k \in DOMAIN s /\ t[k] = s[k]
        BY <2>1, <4>1 DEF ArgsOK
      <4>2. CASE t[k] = a
        BY <1>6, <3>4, <3>7, <3>8, <4>2
      <4> QED
        BY <3>11, <4>1, <4>2
    <3>13. ASSUME NEW j \in DOMAIN t, NEW k \in DOMAIN t, t[j].bb = t[k].bb
           PROVE  j = k
      <4>1. CASE j \in DOMAIN s /\ t[j] = s[j] /\ k \in DOMAIN s /\ t[k] = s[k]
        BY <2>1, <3>13, <4>1 DEF ArgsOK
      <4>2. CASE j \in DOMAIN s /\ t[j] = s[j] /\ k = Len(s) + 1 /\ t[k] = a
        BY <2>1, <3>8, <3>13, <4>2
      <4>3. CASE j = Len(s) + 1 /\ t[j] = a /\ k \in DOMAIN s /\ t[k] = s[k]
        BY <2>1, <3>8, <3>13, <4>3
      <4> QED
        BY <3>11, <4>1, <4>2, <4>3
    <3>14. ArgsOK(g, Loads, W, Ahead, b, t)
      BY <3>12, <3>13 DEF ArgsOK
    <3> QED
      BY <3>14 DEF t
  <2> QED
    BY <2>2, <2>3
<1>8. wait' \cup erased' = W
  BY <1>1
<1>9. pc' = "kids"
  BY <1>1
<1> HIDE DEF W
<1>10. ArgsInv'
  BY <1>2, <1>7, <1>8, <1>9 DEF ArgsInv
<1> QED
  BY <1>4, <1>10 DEF SSAInv

\* The return: the stacks are the ones the caller's block had.
LEMMA LeaveSSA == ASSUME MInv, SSAInv, Leave PROVE SSAInv'
<1> DEFINE L == Len(frames)
<1>1. /\ UNCHANGED <<input_vars, use, args>> /\ pc = "kids"
      /\ pc' = IF Below = <<>> THEN "alloca" ELSE "kids"
      /\ erased' = erased \cup {w \in wait : w[1] = Top.bb}
      /\ wait' = {w \in wait : w[1] # Top.bb} /\ frames' = Below
  BY DEF Leave
<1>2. /\ ShapeInv /\ StackInv /\ g' = g /\ Loads' = Loads /\ Block' = Block
  BY <1>1, SameInput DEF MInv, ShapeInv
<1>3. wait' \cup erased' = wait \cup erased
  BY <1>1
<1>4. /\ L \in Nat \ {0} /\ Len(frames') = L - 1 /\ Top = frames[L]
      /\ \A k \in 1..(L - 1) : frames'[k] = frames[k]
  BY <1>1, <1>2, TopFacts
<1>5. stk' = Top.saved
  BY <1>2, LeavePops
<1>6. UseInv'
  BY <1>1, <1>2, <1>3 DEF SSAInv, UseInv
<1>7. pc' \in {"alloca", "kids"} /\ (pc' = "kids" => L > 1)
  <2>1. Below \in Seq(Frame) /\ Len(Below) = L - 1
    BY <1>1, <1>2, TopFacts
  <2>2. Below # <<>> => Len(Below) > 0
    BY <2>1
  <2> QED
    BY <1>1, <1>4, <2>1, <2>2
<1> HIDE DEF L
<1>8. \A k \in 1..L : \A v \in Promoted :
        \A i \in 1..Len(frames[k].saved[v]) :
          /\ Live(frames[k].saved[v][i], Loads, wait \cup erased)
          /\ k > 1 /\ Reaches(g, frames[k].saved[v][i], frames[k - 1].bb)
  BY DEF SSAInv, SavedInv, L
<1>9. SavedInv'
  <2> SUFFICES ASSUME NEW k \in 1..(L - 1), NEW v \in Promoted,
                      NEW i \in 1..Len(frames'[k].saved[v])
               PROVE  /\ Live(frames'[k].saved[v][i], Loads, wait \cup erased)
                      /\ k > 1 /\ Reaches(g, frames'[k].saved[v][i], frames'[k - 1].bb)
    BY <1>2, <1>3, <1>4 DEF SavedInv
  <2>1. k \in 1..L /\ frames'[k] = frames[k]
    BY <1>4
  <2>2. /\ Live(frames[k].saved[v][i], Loads, wait \cup erased)
        /\ k > 1 /\ Reaches(g, frames[k].saved[v][i], frames[k - 1].bb)
    BY <1>8, <2>1
  <2>3. frames'[k - 1] = frames[k - 1]
    BY <1>4, <2>1, <2>2
  <2> QED
    BY <2>1, <2>2, <2>3
<1>10. CurrentInv'
  <2>1. CASE pc' = "kids"
    <3>1. Top' = frames[L - 1] /\ L \in 1..L
      BY <1>4, <1>7, <2>1 DEF Top
    <3>2. \A v \in Promoted : \A i \in 1..Len(stk'[v]) :
            /\ Live(stk'[v][i], Loads, wait \cup erased)
            /\ Reaches(g, stk'[v][i], frames[L - 1].bb)
      BY <1>4, <1>5, <1>8, <3>1
    <3> QED
      BY <1>2, <1>3, <2>1, <3>1, <3>2 DEF CurrentInv
  <2>2. CASE pc' = "alloca"
    BY <2>2 DEF CurrentInv
  <2> QED
    BY <1>7, <2>1, <2>2
<1>11. Ahead' \subseteq Ahead
  BY <1>2, <1>4 DEF Ahead, L
<1>12. \A b \in Block : \A v \in Promoted :
         ArgsOK(g, Loads, wait \cup erased, Ahead', b, args[b][v])
  BY <1>11 DEF SSAInv, ArgsInv, ArgsOK
<1>13. ArgsInv'
  BY <1>1, <1>2, <1>3, <1>7, <1>12 DEF ArgsInv
<1> QED
  BY <1>6, <1>9, <1>10, <1>13 DEF SSAInv

\* Every step keeps the values where they can be used.
LEMMA StepSSA == ASSUME MInv, SSAInv, [Next]_vars PROVE SSAInv'
<1>1. CASE ReplaceLoad
  BY <1>1, ReplaceUse, ReplaceStacks, ReplaceArgs DEF SSAInv
<1>2. CASE QuietStep
  BY <1>2, QuietSSA
<1>3. CASE (\E v \in Promoted : PickVar(v)) \/ PlacePhis \/ NextVar
  BY <1>3, PlaceSSA
<1> QED
  BY <1>1, <1>2, <1>3, StartSSA, CallSSA, PushSSA, FillSSA, LeaveSSA, QuietSteps DEF Next

\* Before the pass every load is used as it is.
LEMMA InitSSA == Init => SSAInv
<1> SUFFICES ASSUME Init PROVE SSAInv
  OBVIOUS
<1>1. /\ pc = "vars" /\ frames = <<>> /\ wait = {} /\ erased = {}
      /\ use = [l \in Loads |-> l]
      /\ args = [b \in Block |-> [v \in Promoted |-> <<>>]]
  BY DEF Init
<1>2. UseInv
  <2> SUFFICES ASSUME NEW l \in Loads
               PROVE  Live(l, Loads, {}) /\ ComesBefore(l, l[2], l[3] + 1)
    BY <1>1 DEF UseInv
  <2>1. l \in Value
    BY InitInput, InputFacts
  <2>2. l[3] \in Nat
    BY <2>1 DEF Value
  <2> QED
    BY <2>2 DEF Live, ComesBefore
<1>3. CurrentInv /\ SavedInv
  BY <1>1 DEF CurrentInv, SavedInv
<1>4. ArgsInv
  BY <1>1 DEF ArgsInv, ArgsOK
<1> QED
  BY <1>2, <1>3, <1>4 DEF SSAInv

\* The result of the pass is in SSA form: the operand that replaced a load is
\* defined in a block that dominates it, the operands of a phi in blocks that
\* dominate the predecessors they stand for, one for each predecessor at most,
\* and no operand is a load that was erased.
THEOREM ResultIsSSA == Spec => []SSAForm
<1>1. MInv /\ SSAInv => SSAForm
  <2> SUFFICES ASSUME MInv, SSAInv, pc = "done" PROVE SSAForm
    BY DEF SSAForm
  <2>1. UseInv /\ ArgsInv /\ IsFlowGraph(g)
    BY InputFacts DEF SSAInv, MInv
  <2>2. ASSUME NEW l \in Loads, l[2] \in ReachableIn(g)
        PROVE  /\ use[l][1] = "load" => <<use[l][2], use[l][3]>> \notin erased
               /\ use[l][1] = "const" \/ DomIn(g, use[l][2], l[2])
    <3>1. Live(use[l], Loads, wait \cup erased) /\ (use[l] = l \/ Reaches(g, use[l], l[2]))
      BY <2>1 DEF UseInv
    <3>2. DomIn(g, l[2], l[2])
      BY <2>1, <2>2, DomBasic
    <3> QED
      BY <3>1, <3>2 DEF Live, Reaches
  <2>3. ASSUME NEW b \in Block, NEW v \in Promoted
        PROVE  /\ \A k \in DOMAIN args[b][v] :
                    LET a == args[b][v][k] IN
                      /\ a.bb \in PredIn(g, b)
                      /\ a.val[1] = "load" => <<a.val[2], a.val[3]>> \notin erased
                      /\ a.val[1] = "const" \/ DomIn(g, a.val[2], a.bb)
               /\ \A j, k \in DOMAIN args[b][v] :
                    args[b][v][j].bb = args[b][v][k].bb => j = k
    <3>1. ArgsOK(g, Loads, wait \cup erased, Ahead, b, args[b][v])
      BY <2>1 DEF ArgsInv
    <3> QED
      BY <3>1 DEF ArgsOK, Live, Reaches
  <2> QED
    BY <2>2, <2>3 DEF SSAForm, DefBlock
<1> QED
  BY Invariance, InitSSA, StepSSA, <1>1, PTL DEF Spec
=============================================================================
