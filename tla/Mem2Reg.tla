------------------------------- MODULE Mem2Reg -------------------------------
(***************************************************************************)
(* The SSA construction of one function (Mem2Reg.cpp): generate_phi places *)
(* phis by the work list over dominance frontiers, re_name walks the       *)
(* dominator tree with a stack of current values per variable, and         *)
(* remove_alloca erases the memory of the int and float variables.         *)
(*                                                                         *)
(* A function is its graph and, for each block, the sequence of its loads  *)
(* and stores.  A value is a triple: a constant <<"const", k, 0>>, the     *)
(* result of the load at position i of block b <<"load", b, i>>, or the    *)
(* phi of variable v in block b <<"phi", b, v>>.  Each load has one user   *)
(* that is not itself a load, a store or a phi; its operand is use[load].  *)
(* A std::set of pointers is walked in any order.                          *)
(***************************************************************************)
EXTENDS FlowGraph, Sequences

CONSTANTS
  Local,     \* allocas of an int or a float
  PtrLocal,  \* allocas that hold the pointer of an array parameter
  Outside,   \* addresses that are not promoted: globals and geps
  Program    \* the functions considered

Var == Local \cup PtrLocal \cup Outside

\* !IS_GLOBAL_VARIABLE(l_val) && !IS_GEP_INSTR(l_val)
Promoted == Local \cup PtrLocal

Value == {"const", "load", "phi"} \X Nat \X Nat

Instr == [op : {"load", "store"}, lval : Var, rval : Value]

\* The operand of the store at position i of block b is a constant or the
\* result of a load, one that comes before it on every path if b is reachable.
OperandComesBefore(p, b, i) ==
  LET r == p.code[b][i].rval IN
    \/ r[1] = "const"
    \/ /\ r[1] = "load"
       /\ r[2] \in DOMAIN p.succ
       /\ r[3] \in DOMAIN p.code[r[2]]
       /\ p.code[r[2]][r[3]].op = "load"
       /\ \/ r[2] = b /\ r[3] < i
          \/ SDomIn(p.succ, r[2], b)
          \/ b \notin ReachableIn(p.succ)

ASSUME Mem2RegAssumption ==
  /\ Var \subseteq Nat
  /\ Promoted \cap Outside = {}
  /\ \A p \in Program :
       /\ IsFiniteSet(DOMAIN p.succ)
       /\ DOMAIN p.succ \subseteq Nat \ {0}
       /\ Entry \in DOMAIN p.succ
       /\ p.succ \in [DOMAIN p.succ -> SUBSET DOMAIN p.succ]
       /\ p.code \in [DOMAIN p.succ -> Seq(Instr)]
       /\ \A b \in DOMAIN p.succ : \A i \in DOMAIN p.code[b] :
            p.code[b][i].op = "store" => OperandComesBefore(p, b, i)

VARIABLES
  g,        \* bb->get_succ_basic_blocks()
  code,     \* the loads and stores of each block, as the builder made them
  df,       \* dominators_->get_dominance_frontier
  kids,     \* dominators_->get_dom_tree_succ_blocks
  pc,       \* where the pass is
  todo,     \* variables generate_phi has still to look at
  var,      \* the one it is looking at
  work, wi, \* work_list and its index
  phi,      \* bb_has_var_phi: the variables with a phi in each block
  frames,   \* the activations of re_name, innermost last
  pos,      \* position of the innermost one in its block
  stk,      \* var_val_stack
  known,    \* the keys of var_val_stack
  use,      \* the operand of each load's user
  args,     \* the pairs of operands of each phi
  wait,     \* wait_delete of all activations
  erased,   \* instructions erased from their block
  alloca    \* allocas that still exist

input_vars == <<g, code, df, kids>>
place_vars == <<todo, var, work, wi, phi>>
ssa_vars   == <<use, args, wait, erased, alloca>>
vars == <<input_vars, pc, place_vars, frames, pos, stk, known, ssa_vars>>

Block == DOMAIN g

IsLoad(b, i)  == i \in DOMAIN code[b] /\ code[b][i].op = "load"
IsStore(b, i) == i \in DOMAIN code[b] /\ code[b][i].op = "store"

Loads ==
  UNION {{<<"load", b, i>> : i \in {j \in DOMAIN code[b] : IsLoad(b, j)}} :
            b \in Block}

\* The operand of a store whose operand was v when the function was built:
\* replace_all_use_with rewrites the operands of every user of a load.
Operand(v) == IF v[1] = "load" THEN use[v] ELSE v

Phase == {"vars", "work", "instr", "kids", "alloca", "done", "abort", "crash"}

\* The elements of S in every order.
Orders(S) ==
  {s \in [1..Cardinality(S) -> S] : \A i, j \in DOMAIN s : s[i] = s[j] => i = j}

-----------------------------------------------------------------------------
(***************************************************************************)
(* generate_phi.                                                           *)
(***************************************************************************)

\* live_var_2blocks: the blocks with a store to v.
StoreBlocks(v) ==
  {b \in Block : \E i \in DOMAIN code[b] : IsStore(b, i) /\ code[b][i].lval = v}

\* run: the dominators are computed, and generate_phi collects
\* global_live_var_name.
Init ==
  \E p \in Program :
    /\ g = p.succ
    /\ code = p.code
    /\ df = [b \in Block |-> FrontierIn(g, b)]
    /\ kids = [b \in Block |-> ChildrenIn(g, b)]
    /\ pc = "vars"
    /\ todo = {v \in Promoted : StoreBlocks(v) # {}}
    /\ var = 0
    /\ work = <<>>
    /\ wi = 1
    /\ phi = [b \in Block |-> {}]
    /\ frames = <<>>
    /\ pos = 1
    /\ stk = [v \in Promoted |-> <<>>]
    /\ known = {}
    /\ use = [l \in Loads |-> l]
    /\ args = [b \in Block |-> [v \in Promoted |-> <<>>]]
    /\ wait = {}
    /\ erased = {}
    /\ alloca = Promoted

PickVar(v) ==
  /\ pc = "vars"
  /\ v \in todo
  /\ todo' = todo \ {v}
  /\ var' = v
  /\ \E s \in Orders(StoreBlocks(v)) : work' = s
  /\ wi' = 1
  /\ pc' = "work"
  /\ UNCHANGED <<input_vars, phi, frames, pos, stk, known, ssa_vars>>

\* Mutant: a block that gets a phi is not put on the work list.
NotExtended(new) == {work}

\* work_list.push_back for each block that gets a phi.
Extended(new) == {work \o s : s \in Orders(new)}

\* One block of the work list: a phi at the start of each block of its
\* frontier that has none for the variable.
PlacePhis ==
  /\ pc = "work"
  /\ wi <= Len(work)
  /\ LET new == {y \in df[work[wi]] : var \notin phi[y]} IN
       /\ phi' = [b \in Block |-> phi[b] \cup (IF b \in new THEN {var} ELSE {})]
       /\ work' \in Extended(new)
  /\ wi' = wi + 1
  /\ UNCHANGED <<input_vars, pc, todo, var, frames, pos, stk, known, ssa_vars>>

\* The list is done, and the locals of the loop go out of scope.
NextVar ==
  /\ pc = "work"
  /\ wi > Len(work)
  /\ pc' = "vars"
  /\ var' = 0
  /\ work' = <<>>
  /\ wi' = 1
  /\ UNCHANGED <<input_vars, todo, phi, frames, pos, stk, known, ssa_vars>>

-----------------------------------------------------------------------------
(***************************************************************************)
(* re_name.  An activation is its block, the children it has still to      *)
(* visit and, for the properties only, the stacks it was called with.      *)
(***************************************************************************)
Top   == frames[Len(frames)]
Below == SubSeq(frames, 1, Len(frames) - 1)

\* The call on block b: its phis become the current values (step 3).
Enter(b, callers) ==
  /\ frames' = Append(callers, [bb |-> b, kids |-> kids[b], saved |-> stk])
  /\ stk' = [v \in Promoted |-> IF v \in phi[b]
                                THEN Append(stk[v], <<"phi", b, v>>)
                                ELSE stk[v]]
  /\ known' = known \cup phi[b]
  /\ pos' = 1
  /\ pc' = "instr"

\* generate_phi has returned, and run calls re_name on the entry block.
StartRename ==
  /\ pc = "vars"
  /\ todo = {}
  /\ Enter(Entry, <<>>)
  /\ UNCHANGED <<input_vars, place_vars, ssa_vars>>

Here == code[Top.bb][pos]

AtLoad  == pc = "instr" /\ IsLoad(Top.bb, pos)
AtStore == pc = "instr" /\ IsStore(Top.bb, pos)

\* Mutant: a variable's only value is taken for none.
HasTwoValues(v) == v \in Promoted /\ v \in known /\ Len(stk[v]) > 1

\* The address is promoted and var_val_stack has an entry for it.
HasStack(v) == v \in Promoted /\ v \in known

\* A load of another address, or of a variable no visited block has stored
\* to, stays.
KeepLoad ==
  /\ AtLoad
  /\ ~HasStack(Here.lval)
  /\ pos' = pos + 1
  /\ UNCHANGED <<input_vars, pc, place_vars, frames, stk, known, ssa_vars>>

\* replace_all_use_with: whatever operand is old becomes new.
Subst(v, old, new) == IF v = old THEN new ELSE v

\* Step 4: the users of a load get the current value of the variable.
ReplaceLoad ==
  /\ AtLoad
  /\ HasStack(Here.lval)
  /\ stk[Here.lval] # <<>>
  /\ LET old == <<"load", Top.bb, pos>>
         new == stk[Here.lval][Len(stk[Here.lval])]
     IN  /\ use' = [l \in Loads |-> Subst(use[l], old, new)]
         /\ args' = [b \in Block |-> [v \in Promoted |->
              [k \in DOMAIN args[b][v] |->
                 [args[b][v][k] EXCEPT !.val = Subst(@, old, new)]]]]
  /\ wait' = wait \cup {<<Top.bb, pos>>}
  /\ pos' = pos + 1
  /\ UNCHANGED <<input_vars, pc, place_vars, frames, stk, known, erased, alloca>>

\* back() of an empty vector: the pass follows a pointer that is none.
BackOfEmpty ==
  /\ AtLoad
  /\ HasStack(Here.lval)
  /\ stk[Here.lval] = <<>>
  /\ pc' = "crash"
  /\ UNCHANGED <<input_vars, place_vars, frames, pos, stk, known, ssa_vars>>

KeepStore ==
  /\ AtStore
  /\ Here.lval \notin Promoted
  /\ pos' = pos + 1
  /\ UNCHANGED <<input_vars, pc, place_vars, frames, stk, known, ssa_vars>>

\* Mutant: the address is pushed instead of the stored value.
StoredAddress(ins) == <<"alloca", ins.lval, 0>>

\* get_rval
StoredValue(ins) == Operand(ins.rval)

\* Step 5: the stored value becomes the current one.
PushStore ==
  /\ AtStore
  /\ Here.lval \in Promoted
  /\ stk' = [stk EXCEPT ![Here.lval] = Append(@, StoredValue(Here))]
  /\ known' = known \cup {Here.lval}
  /\ wait' = wait \cup {<<Top.bb, pos>>}
  /\ pos' = pos + 1
  /\ UNCHANGED <<input_vars, pc, place_vars, frames, use, args, erased, alloca>>

AtEnd == pc = "instr" /\ pos > Len(code[Top.bb])

\* The phis of the successors that get a pair from this block.
PhisToFill == {f \in g[Top.bb] \X known : f[2] \in phi[f[1]]}

\* Step 6: the current values go into the phis of the successors.
FillPhis ==
  /\ AtEnd
  /\ \A f \in PhisToFill : stk[f[2]] # <<>>
  /\ args' = [b \in Block |-> [v \in Promoted |->
       IF <<b, v>> \in PhisToFill
       THEN Append(args[b][v], [val |-> stk[v][Len(stk[v])], bb |-> Top.bb])
       ELSE args[b][v]]]
  /\ pc' = "kids"
  /\ UNCHANGED <<input_vars, place_vars, frames, pos, stk, known, use, wait,
                 erased, alloca>>

\* assert(var_val_stack[l_val].size() != 0)
AssertFails ==
  /\ AtEnd
  /\ \E f \in PhisToFill : stk[f[2]] = <<>>
  /\ pc' = "abort"
  /\ UNCHANGED <<input_vars, place_vars, frames, pos, stk, known, ssa_vars>>

\* Step 7: the recursive call on a child in the dominator tree.
Recurse(c) ==
  /\ pc = "kids"
  /\ c \in Top.kids
  /\ Enter(c, Append(Below, [Top EXCEPT !.kids = @ \ {c}]))
  /\ UNCHANGED <<input_vars, place_vars, ssa_vars>>

\* Mutant: the phis of the block are not popped.
PushesOfStores(b, v) ==
  Cardinality({i \in DOMAIN code[b] : IsStore(b, i) /\ code[b][i].lval = v})

\* Mutant: the loads of the block are popped as well.
PushesAndLoads(b, v) ==
  Cardinality({i \in DOMAIN code[b] : code[b][i].lval = v})
    + (IF v \in phi[b] THEN 1 ELSE 0)

\* Mutant: nothing is popped.
NoPushes(b, v) == 0

\* The stores and phis of the block: step 8 pops a value for each.
Pushes(b, v) ==
  Cardinality({i \in DOMAIN code[b] : IsStore(b, i) /\ code[b][i].lval = v})
    + (IF v \in phi[b] THEN 1 ELSE 0)

\* Step 8 and the return: the values of the block are popped, and what was
\* replaced is erased from it.
Leave ==
  /\ pc = "kids"
  /\ Top.kids = {}
  /\ stk' = [v \in Promoted |->
               SubSeq(stk[v], 1, Len(stk[v]) - Pushes(Top.bb, v))]
  /\ erased' = erased \cup {w \in wait : w[1] = Top.bb}
  /\ wait' = {w \in wait : w[1] # Top.bb}
  /\ frames' = Below
  /\ pc' = IF Below = <<>> THEN "alloca" ELSE "kids"
  /\ UNCHANGED <<input_vars, place_vars, pos, known, use, args, alloca>>

-----------------------------------------------------------------------------
\* remove_alloca: every alloca of an int or a float, used or not.
RemoveAlloca ==
  /\ pc = "alloca"
  /\ alloca' = alloca \ Local
  /\ pc' = "done"
  /\ UNCHANGED <<input_vars, place_vars, frames, pos, stk, known, use, args,
                 wait, erased>>

Next ==
  \/ \E v \in Promoted : PickVar(v)
  \/ PlacePhis
  \/ NextVar
  \/ StartRename
  \/ KeepLoad
  \/ ReplaceLoad
  \/ BackOfEmpty
  \/ KeepStore
  \/ PushStore
  \/ FillPhis
  \/ AssertFails
  \/ \E c \in Block : Recurse(c)
  \/ Leave
  \/ RemoveAlloca

Spec == Init /\ [][Next]_vars

-----------------------------------------------------------------------------
(***************************************************************************)
(* Classes of functions.                                                   *)
(***************************************************************************)

\* The blocks the entry reaches along paths with no store to v before them.
Unset(v) ==
  ReachableIn([b \in Block |-> IF b \in StoreBlocks(v) THEN {} ELSE g[b]])

\* Every block is reachable, and every load of a local follows a store to it
\* on every path: the function never reads a variable that is not set.
Strict ==
  /\ ReachableIn(g) = Block
  /\ \A l \in Loads :
       LET b == l[2]
           v == code[b][l[3]].lval
       IN  \/ v \notin Promoted
           \/ b \notin Unset(v)
           \/ \E i \in 1..(l[3] - 1) : IsStore(b, i) /\ code[b][i].lval = v

\* Every local that is stored to is stored to in the entry block.
SetAtEntry == \A v \in Promoted : StoreBlocks(v) # {} => Entry \in StoreBlocks(v)

-----------------------------------------------------------------------------
(***************************************************************************)
(* Properties.                                                             *)
(***************************************************************************)

\* The types of the pass's state.
TypeOK ==
  /\ pc \in Phase
  /\ todo \subseteq Promoted
  /\ var \in Promoted \cup {0}
  /\ work \in Seq(Block)
  /\ wi \in Nat \ {0}
  /\ phi \in [Block -> SUBSET Promoted]
  /\ \A k \in DOMAIN frames :
       /\ frames[k].bb \in Block
       /\ frames[k].kids \subseteq Block
       /\ frames[k].saved \in [Promoted -> Seq(Value)]
  /\ pos \in Nat \ {0}
  /\ stk \in [Promoted -> Seq(Value)]
  /\ known \subseteq Promoted
  /\ use \in [Loads -> Value]
  /\ args \in [Block -> [Promoted -> Seq([val : Value, bb : Block])]]
  /\ wait \subseteq Block \X Nat
  /\ erased \subseteq Block \X Nat
  /\ alloca \subseteq Promoted

\* The pops of step 8 undo the pushes of the block and of everything below
\* it: an activation of re_name returns with the stacks it was called with,
\* whatever was replaced in between.
PopsUndoPushes ==
  [][Len(frames') < Len(frames) => stk' = Top.saved]_<<frames, stk>>

\* A load reads an empty stack only in a function that may read a variable
\* before it is set, and the assertion of step 6 fails only if some variable
\* is not stored to in the entry block.
NoEmptyStackRead ==
  /\ pc = "crash" => ~Strict
  /\ pc = "abort" => ~SetAtEntry

\* The assertion of step 6: a successor's phi finds a current value whenever
\* its variable has a stack, so that the phi of a variable set on one side
\* only is completed with undef by its printer.
PhiFindsValue == pc # "abort"

\* The block of the instruction that defines v.
DefBlock(v) == v[2]

\* The result is in SSA form: the operand that replaced a load is defined in
\* a block that dominates it, the operand of a phi in a block that dominates
\* the predecessor it stands for, each phi has at most one operand for a
\* predecessor and none for another block, and no operand is an erased load.
SSAForm ==
  pc = "done" =>
    LET exists(v)   == v[1] = "load" => <<v[2], v[3]>> \notin erased
        reaches(v, b) == v[1] = "const" \/ DomIn(g, DefBlock(v), b)
    IN  /\ \A l \in Loads : DefBlock(l) \in ReachableIn(g) =>
             exists(use[l]) /\ reaches(use[l], DefBlock(l))
        /\ \A b \in Block, v \in Promoted :
             /\ \A k \in DOMAIN args[b][v] :
                  LET a == args[b][v][k] IN
                    a.bb \in PredIn(g, b) /\ exists(a.val) /\ reaches(a.val, a.bb)
             /\ \A j, k \in DOMAIN args[b][v] :
                  args[b][v][j].bb = args[b][v][k].bb => j = k

\* In a function that sets its variables before it reads them, no load or
\* store is left of a variable whose alloca remove_alloca erased.
NoDanglingAddress ==
  pc = "done" /\ Strict =>
    \A b \in Block : \A i \in DOMAIN code[b] :
      <<b, i>> \notin erased => code[b][i].lval \in Outside \cup alloca
=============================================================================
