# A TLA+ verification of the cminus compiler

The repository is a compiler for *cminusf*, a small C: a flex/bison parser, an AST, a
builder for an LLVM-like IR (`lightir`), optimization passes on that IR and a code
generator for LoongArch. One process compiles one file; there are no threads, no
messages and no persistent state. What is hard here is not concurrency but order: work
lists and fixed points over graphs of any shape, iteration over sets ordered by pointer
value, state that one step leaves for another, and resources (registers, stack slots,
immediate fields) at their limit. A test fixes one graph and one order; the models take
all of them, up to a size, and the proofs take every size.

Paths below are relative to the repository; line numbers are in `PROJECT.json`.

## Inventory

| Component | State | Operations | Meets | Correct when |
|---|---|---|---|---|
| Driver, `src/cminusfc/cminusfc.cpp` | options | parse, build, run passes, print | all | passes run in the order Mem2Reg, DeadCode, GVN, DeadCode |
| Parser, `src/parser`, `syntax_tree.c` | parse tree | one action per production, `node` | AST | the tree has the shape `ast.cpp` expects (the automata are generated) |
| AST, `src/common/ast.cpp` | tree | `transform_node_iter`, visitor | builder | keeps the order of left-recursive lists |
| `CminusfBuilder`, `Scope` | scopes, insertion block, `tmp_val` | one `visit` per node | IR, Dominators | the IR does what the program says, every block ends in one terminator, values are defined before they are used |
| IR, `src/lightir` | operands, use lists, block lists | `set_operand`, `replace_all_use_with`, `remove_use` | all passes | use lists mirror operands |
| `Dominators` | order, `idom_`, frontiers, tree | the five parts of `run` | Mem2Reg | dominance by paths, no assertion fails, ends |
| `Mem2Reg` | `var_val_stack`, phis | `generate_phi`, `re_name`, `remove_alloca` | Dominators, use lists | each load reads the definition that reaches it |
| `FuncInfo` | `is_pure`, work list | `trivial_mark`, `process` | DeadCode | pure exactly if no chain of calls reaches an effect |
| `DeadCode` | `marked`, work list, `wait_del` | `mark`, `sweep` | FuncInfo, use lists | erases the dead, only the dead, and never touches the erased |
| `GVN` | partitions, value numbers | `join`, `copyStatment`, `transferFunction`, fixed point, `replace_cc_members` | FuncInfo, use lists | the function behaves as before, ends |
| Live intervals, `detectDUchain` | `duChain_list_` | one scan | LinearScan | the interval spans every use |
| `LinearScan` | active lists, registers, `offset_` | expire, spill, allocate | emitcode | overlapping values in different places |
| `binarygen`, `cmpgen` | `rs1`, `rs2`, `output` | one case per opcode | LinearScan | the code computes the instruction and keeps what lives on |
| `emitcode`, `callgen` | frame offset, live registers, constant pool | one case per instruction | all of CodeGen | frame areas disjoint, live registers kept over calls, phi moves parallel |
| Runtime, `src/io/io.c` | input, output | `input`, `output`, `outputFloat`, `neg_idx_except` | builder | I/O; modelled by its effect on the executions |
| Logging, IR printer | | | | formatting; not modelled |

Hard behaviours, each listed as a hazard with its line in `PROJECT.json`: order of
predecessor and use lists, cycles of phis among dead code, a tree that is read while it
is built, unreachable blocks the builder leaves behind, a block that is split in the middle
of an expression, partitions that are changed by rounds of optimistic assumptions and
compared by indices that change every round, a full register file, an active list that is
not sorted after a spill, a result in the register of its own operand, constants at the
edge of an immediate field, and stacks and pools kept across functions.

## Modules

| Module | Models | TLC instance | Proofs |
|---|---|---|---|
| `SyntaxTree` | the actions of `syntax_analyzer.y`, `transform_node_iter` of `ast.cpp` | through `MCBuilder` | none (recursive) |
| `Builder` | `CminusfBuilder`, `Scope`, the parts of `IRBuilder` and `BasicBlock` they use | through `BuilderRun` | `BuilderProofs` |
| `BuilderRun` | `Builder` composed with the execution of its IR and the meaning of the program | `MCBuilder` | none (recursive) |
| `Dominators` | `Dominators::run` on one function | `MCDominators` | `DominatorsProofs` |
| `FlowGraph` | reference definitions on control-flow graphs, used by `BuilderRun`, `Dominators`, `Mem2Reg` | | `FlowGraphProofs` |
| `Mem2Reg` | `generate_phi`, `re_name`, `remove_alloca` on one function | through `Mem2RegRun` | `Mem2RegProofs` |
| `Mem2RegRun` | `Mem2Reg` composed with the execution of the function before and after | `MCMem2Reg` | `Mem2RegRunProofs` |
| `GVN` | `GVN::detectEquivalences`, `replace_cc_members` and all they call, on one function | through `GVNRun` | none (recursive) |
| `GVNRun` | `GVN` composed with the execution of the function before and after | `MCGVN` | none (recursive) |
| `LinearScan` | `LinearScan`, `ExpireOldIntervals`, `SpillAtInterval`, `initPerFunction` | `MCLinearScan` | `LinearScanProofs` |
| `Allocation` | what an allocator promises: the abstract specification `LinearScan` implements | through `LinearScan` | `LinearScanProofs` |
| `FuncInfo` | `FuncInfo` | through `DeadCode` | through `DeadCodeProofs` |
| `DeadCode` | `DeadCode` composed with `FuncInfo` and the use lists | `MCDeadCode` | `DeadCodeProofs` |
| `InstrSelect` | `binarygen`, `cmpgen` and the machine that runs their code | `MCInstrSelect` | `InstrSelectProofs` |

Definitions marked *Mutant* sit next to the definition they are a faulty version of; no
specification uses them. They show that a property would notice that fault.

### SyntaxTree, Builder and BuilderRun

A program is written down as nested tuples (`Builder` lists the forms). `parse` gives the
tree of `syntax_tree_node`s that the actions of the grammar build for it, with its
left-recursive lists, one level per precedence and `empty` leaves; `transform_node_iter`
turns that into the AST, one operator (`ToVarDeclaration`, `ToFunDeclaration`, ...) per
case of the code. The automata that flex and bison generate are not modelled: `parse` takes
the derivation of the grammar as given.

State of `Builder`: `todo`, the agenda that stands for the recursion of the visitor, with
the locals of each suspended `visit`; `scope`, `tmp_val`, `require_lvalue`,
`pre_enter_scope` as in the code; `fun` and `done`, the function in the making and the
finished ones, with instructions, predecessors and successors per block; `insert`, the block
of the `IRBuilder`. A method that calls `accept` in the middle is one action up to that
call and another one after it, so `SelectionBranch`, `SelectionElse` and `SelectionEnd` are
the parts of `visit(ASTSelectionStmt&)`.

`Declarations`, `Statements` and `Expressions` are what the ASTs of the programs are made
of. `SyntaxAssumption` says that these have the shape of the structs of `ast.hpp`: a
selection has a condition that is an expression and one or two branches that are
statements, and so on. TLC evaluates it for the ASTs of the run, as `transform_node_iter`
makes them.

`BuilderRun` defines two executions. `RunIR` runs the functions that were built, `RunSource`
evaluates the program as written by the language definition
(`Documentations/common/cminusf.md`), with scopes as environments and no blocks. Floats are
counted in halves, so that integer and float division differ and a missing conversion shows.
`SameMeaning` compares the outputs, the way the execution ends and the value returned:
parser actions, AST construction and builder are checked together against the program.
`DefsDominateUses` and `BlocksWellFormed` are what the passes take for granted.

### GVN and GVNRun

State: `fn`, the function, and `source`, what it was before; `pin`, `pout`,
`next_value_number` as in the code; `work`, the partition that a block is computing; `bb`,
`i`, `num`, `left`, loop positions; `heap`, the order of the addresses of values, since
`std::set`s of pointers are walked in that order. There are four layouts: phis below or
above the other instructions, and each kind rising or falling in the order it was made.

The steps of a round are those of the code: `copyStatment` for the phis of successors, one
phi at a time; `join` over the predecessors; `transferFunction` per instruction, with
`valueExpr`, `valuePhiFunc` and `getVN`; the comparison with the previous output. Expressions
are tuples with the class of the C++ object first, and `Equiv` is their `equiv`. A loop that
would go on from an erased class, or an operand list that is not there, leads to
`pc = "undefined"`. `replace_cc_members` is one action per block.

`GVNRun` executes the function before and after, with parallel phis, and a value that is
read before it is defined ends the execution. `SameBehaviour` compares output and result: it
is the promise of the pass, and covers leaders that do not dominate what they replace.
`Converges` bounds the rounds: with `MaxRounds` 4 it fails, with 5 it holds, for every
function of the run. It is the bounded form of termination.

### Dominators

State: the graph `succ`; `rpo`, `id`, `idom`, `df`, `kids` are `reverse_post_order_`,
`post_order_id_`, `idom_`, `dom_frontier_` and `dom_tree_succ_blocks_`; `stack` holds the
activations of the recursive `post_order_visit`; the rest are loop positions and locals.
Blocks are numbers, the entry is 1, and 0 is the null pointer, which the maps of the code
accept as a key. A loop over a predecessor or successor list takes the elements in any
order, so one run covers every order. The two `assert`s lead to `pc = "abort"`.

The reference definitions (`FlowGraph`) state dominance by paths: a dominates b when b cannot be
reached around a. `IdomCorrect`, `FrontierCorrect` and `TreeCorrect` compare the result
with them. `RpoOrder` and `IdomAscends` are what the iteration rests on, `IdomOnlyClimbs`
is why it ends.

### Mem2Reg

State: `df` and `kids`, what `Dominators` gives the pass (the reference definitions, which
the run `dominators` checks it against); `work`, `phi` for `work_list` and
`bb_has_var_phi`; `frames` for the activations of the recursive `re_name`; `stk` and
`known` for the vectors and the keys of `var_val_stack`, which differ once a stack is
popped empty; `use` and `args` for the operands of the users of loads and of phis, which
`replace_all_use_with` rewrites; `wait` and `erased`. Sets of pointers are walked in every
order. A failed `assert` leads to `pc = "abort"` and `back()` of an empty vector to
`pc = "crash"`. A block is its loads and stores: of `int` and `float` locals, of the alloca
of an array parameter (promoted, but its alloca stays) and of addresses that are not
promoted.

`Mem2RegRun` runs the function the builder made and the one in SSA form along the same
path, with parallel phis, and `LoadsAgree` compares what a load read with what its users
read now. This is the promise of the pass; `SSAForm`, `PopsUndoPushes`,
`NoEmptyStackRead` and `NoDanglingAddress` are what it rests on. The last two hold for
classes of functions that are stated (`Strict`, `SetAtEntry`), because the pass fails
outside them. That loads agree is required of all functions the pass finishes.

`Mem2Reg::run` goes over all functions with one `var_val_stack`. The model takes one
function, since the keys are allocas of that function.

### LinearScan

State: `active` and `free` per register class (`active_list_`/`registers`,
`factive_list_`/`fregisters`), `regnum` and `slot` per value, `maxreg`, the frame
`offset`. The input is any table of intervals with definitions in list order. The end of
an interval is what the code takes for it: the last element of `use_`. The first loop of
`ExpireOldIntervals` stops at the first interval that has not ended, and
`SpillAtInterval` does not sort: both are modelled as they are.

`Allocation` says what any allocator in definition order owes its caller: one value at a
time gets a home, homes of values that are live together do not overlap, and a value leaves
its register only for memory and only for the new value. `LinearScan!Promise` instantiates
it with the prefix of values the scan has been through, and `KeepsPromise` says that the
scan, whose active lists, register files and expiry the abstract specification knows nothing
of, implements it. TLC checks it as a property and `LinearScanProofs!ImplementsAllocation`
proves it.

### FuncInfo and DeadCode

State of `FuncInfo`: `is_pure`, `worklist`, and the uses of the function in process.
State of `DeadCode`: the instructions in the blocks (`alive`), the use lists (`uses`),
`marked`, `work_list`, `wait_del`. A program lists functions and instructions with the
operands that are instructions, the operand an address comes from and the function
called. `DeadCode` extends `FuncInfo`: `func_info->run()` comes first, then rounds of
mark and sweep. `sweep` is in three parts as in the code: collect, take out of the use
lists one instruction at a time in any order, erase.

### InstrSelect

`ScanOperand`, `ScanResult` and `ScanOther` are the body of the loop over
`duChain_list_`; the operator for each case (`AddCode` ... `LeCode`) gives the
instructions the case emits. The assembler and the processor are not code of the
repository and are marked external: `Assemble` rejects an empty operand, an integer
register in a floating-point instruction or an immediate that does not fit, and `Execute`
runs one instruction at a time. Words have `W` bits and immediates `I`. Float values are
words as well, since only which operand goes where is in question.

The code generator handles fewer instructions than the IR has. `HasCode` describes those
that get code the assembler takes, and the comment above it lists the others: one value
as both operands, two constants, an operand listed after the result, constants outside
their field, spilled values in some places. `Accepted` says, for every instruction, that
it is of the first kind exactly if code comes out: an instruction that should have none
and has some is as much a violation as the reverse. `Covered` describes those whose code
is also right, and the comment above it lists what has code that is wrong;
`ValueComputed` and `BranchRight` speak of the covered ones, `OthersKept` of all. GT, one
of the others, has a run of its own, against `GreaterThan`.

## Runs

| Run | Expectation | Bounds | Shows |
|---|---|---|---|
| `builder` | pass | 1,020 programs: every pair of 12 simple statements, branches and loops over them, and branches within branches; 4 inputs | all properties of Builder and BuilderRun |
| `dominators` | pass | N = 4, every graph with at most two successors per block in which no reachable block is the target of an unreachable one | all properties of Dominators |
| `dominators_both_return` | violation | the six blocks of one program | the frontier loop does not end |
| `mem2reg` | pass | 1,672 functions: an if, an if with else and a while with one of 8 statements per block (5 where locals are not set at entry), an if in a while with one of 3, two int locals, a global and an array parameter | all properties of Mem2Reg and Mem2RegRun |
| `mem2reg_one_sided` | violation | one function | the assertion of step 6 fails |
| `gvn` | pass | 1,240 functions: diamonds, loops with two phis, a join in a loop, diamonds in a diamond, straight-line code with every kind of instruction; 4 heap layouts, 4 inputs, 5 rounds | all properties of GVN and GVNRun |
| `gvn_copy_order` | violation | two loops | a phi that reads an earlier phi of its block is taken for that phi's new value |
| `linear_scan` | pass | 5 intervals, 2 classes, 2 registers each, every order of ends, with or without an array | all properties of LinearScan, and that it implements `Allocation` |
| `linear_scan_memory` | violation | as above, with an array | a spilled array address moves the array |
| `dead_code` | pass | 3 calls among 4 functions; 4 instructions with any operands; address chains of length 3 | all properties of DeadCode and FuncInfo |
| `instr_select` | pass | 4-bit words, 2-bit immediates, 3 registers, 5 words per operand, every operation and placement of x, y, z, d, every constant; 3 orders of `duChain_list_` for two operands, 2 for one, also both operands the same value and two constants | all properties of InstrSelect |
| `instr_select_gt` | violation | as above, GT of two values | equal operands take the true branch |

Why the bounds suffice for the interesting cases. Four blocks hold a diamond, a loop with
an exit in the middle, an irreducible loop and unreachable blocks, and `create_idom` needs
more than one changing pass on some of them. Five intervals over two registers make both
kinds of spill happen twice in a row, expiry after an unsorted insertion, and a register
inherited by a spill given back. An if in a while places phis on the frontier of phis, the
exchange of two variables in a loop makes phis use each other, and a variable that is not
set at entry leaves keys with empty stacks. Three dead instructions form every cycle of phis; three
calls give recursion, mutual recursion and a chain to an impure function. Four-bit words
with two-bit immediates put constants on both sides of the immediate limit and give both
halves of a two-instruction constant non-zero values; results wrap around. The programs of
`builder` pair every kind of statement with every other as branches of an `if`, put each
branch into a list, a loop and another branch, return from each, and convert in every place
where the builder converts; indices are negative, nested and of float type, and a call
stores through an array parameter. Some loops do not end on some input; an execution that
uses up its fuel of 400 steps is not compared. The functions of `gvn` need up to four changing rounds, make phi expressions of phi expressions
and fold constants through phis; all blocks are reachable and have at most two predecessors,
in the order the builder makes them.

`CHECK_DEADLOCK FALSE` is in every configuration: each system is one call that returns,
and a finished call has no next step. Symmetry over registers is used for `instr_select`,
which has no temporal property. Bounds are only in the constants; there are no state
constraints.

Fairness is weak fairness of `Next`: a sequential program that has a next statement
executes it. `InstrSelect`, `Mem2Reg`, `Builder` and `GVN` have no temporal property that
needs any.

## Results that are violations

1. `dominators_both_return`: with `-mem2reg` the compiler does not end on
   `if (a) { if (b) return 1; else return 2; } return 0;`.
2. `linear_scan_memory`: an array whose address is spilled is addressed elsewhere.
3. `instr_select_gt`: `>` behaves as `>=`.
4. `mem2reg_one_sided`: with `-mem2reg` the compiler aborts on
   `int x; if (input()) x = 2; else ; return 0;`.
5. `gvn_copy_order`: with `-mem2reg -gvn`, in
   `z = A; x = A; while (x < 3) { output(z + 1); z = x; x = x + 1; }` the sum `z + 1` is
   taken for `x + 1`.

## Proofs

Every theorem holds for all values of the constants under the named assumptions
(`DominatorsAssumption`, `LinearScanAssumption`, `FuncInfoAssumption`, `Mem2RegAssumption`,
`InstrSelectAssumption`, `SyntaxAssumption`), which TLC evaluates in the runs. Each proof module about a
specification defines an inductive invariant (`IInv`, `JInv`, `MInv`, `CInv`, `RInv`,
`SInv`, `AInv`, `VInv`, `UpInv`), proves that `Init` implies it and that each action preserves it, one lemma per
action, and derives the listed properties. TLC has checked the invariants on the instances
of the runs.

* `DominatorsProofs`: `TypeCorrect`, `AssertionsHold`, `TreeAscends`. That no assertion
  fails needs an account of the depth-first search: the blocks of `stack` and `rpo` are
  the visited ones, each listed once; a finished block has all successors visited, and
  the blocks on the stack form a path, so of each block but the root some predecessor
  finishes later. After the reversal that predecessor stands earlier in the list. The
  second half is that every idom points to a larger number, which makes both loops of
  `intersect` stop at or below the root.
* `FlowGraphProofs`: lemmas on reachability and dominance as `FlowGraph` defines them, for
  every finite graph. `ReachAvoidingIn` is an iteration bounded by the number of blocks;
  that it is closed when the bound is reached (`ReachClosed`) follows by counting, since
  each round before the last adds a block, and every closed set contains it (`ReachLeast`).
  From these two follow that dominance is a partial order (`DomTransitive`,
  `DomAntisymmetric`) whose dominators of a block form a chain (`DomChain`), that it can be
  computed from the predecessors (`DomOfPred`, `DomFromPreds`), and that a block leads to
  what it strictly dominates through one of its children in the tree (`ChildToward`).
  Where an induction is needed, the least counterexample (`LeastNat`) takes its place.
* `DominatorsProofs`, second part: `OrderFound`, `IdomsFound`, `FrontiersFound`, `TreeFound`, `IdomsOnlyClimb`. The
  invariant `JInv` adds to `IInv` two halves. `BelowInv`: what strictly dominates a block
  dominates its idom, the candidate and both arguments of `intersect` too, at every moment,
  so no climb passes a dominator. `AboveInv`: in a pass that has changed nothing, the idom
  of a block gone by lies above all its predecessors, so when such a pass ends the idom
  dominates them, by `DomFromPreds` also the block, and by `BelowInv` it is the closest
  that does. The frontier loop has
  an invariant of its own: what it has added so far is in the frontier, and what is
  missing lies ahead of the runner. `FrontiersFound` assumes `EntryHasNoPred`, no branch to
  the entry, which holds of what `CminusfBuilder` makes: it never branches to the block a
  function starts with. On another graph the entry, with one predecessor and no idom, is
  missing from its own frontier. `IdomsOnlyClimb` is the action property `IdomOnlyClimbs`
  and has an invariant of its own, `UpInv`. `MeetInv`: what lies above all predecessors of a
  block lies above the block, so the lowest such block, which `intersect` finds, is never
  below the old idom. Moving an idom could break this for a block below the one that moves,
  if its predecessors had all left that place before. `FollowInv` excludes it, and uses that
  a pass goes through the list in reverse post-order: each block has a predecessor earlier
  in the list and below every block above it that the pass has still to come to.
* `BuilderProofs`: `BuilderBlocks` and the invariant it follows from, `AgendaInvariant`, for
  every program. Whether a block ends in one terminator depends on what the visitor still has
  to do, so the invariant relates the agenda to the open blocks, those without a terminator.
  `Agenda`: the first k items belong to the function in the making and end with its
  `funend`, after them come declarations only, and `Follows` says which kinds of items may
  stand below which: what goes on after an expression, or what tests for a terminator after
  a statement. `Waiting`: each open block but the insert block is named by exactly one
  `iftrue`, `iffalse` or `whileend` still to come, and what such an item names is open. While
  the insert block is terminated the next item is one that tests for that, so no visitor
  appends to a block that a return has ended; `funend` finds no open block but the insert
  block and gives it the default return. `Wf` is the well-formedness of the blocks at every
  moment: a terminator is the last instruction, the successors are the targets of the
  terminator, and a block is as often among the predecessors of another as that is among its
  successors. `ShapePlain`, `ShapeReturn`, `ShapeBr`, `ShapeCondBr` and `ShapeNew` show what
  `Put`, `Br`, `CondBr` and `NewBlocks` do to it; `AgendaStep`, `WaitingStep` and `GoesOn`
  do the same for the agenda, and one lemma per action combines them. The scopes are counted too, since a visitor that left
  its scopes unbalanced would leave a declaration of a function to be taken for a global.
* `Mem2RegProofs`: `TypeCorrect`, `ReturnsRestore`, `ReadsFindValues`, `NothingDangles`,
  `ResultIsSSA`, for every graph, every sequence of loads and stores and every order of
  the sets of pointers. `MInv` has five parts. `PhiInv`: of a variable generate_phi is done
  with, the frontier of every block with a store or a phi has a phi; of the one it is at,
  the blocks that lack this are on the work list still ahead. `PathInv`: the activations of
  `re_name` are the way from the entry down the dominator tree. `StackInv`: each stack is
  the one the activation was called with, extended by as many values as its block has
  pushed; with it the pops of step 8 restore the caller's stack, whatever the activations
  below did. `ValueInv`: a variable defined on the way has a value. That this is enough
  for a load is `SetHasDominator`: the blocks reached with the variable unset, together with
  those that have a dominator with a phi or a strict dominator with a store, contain the
  entry and are closed under successors, because where a definition stops dominating its
  frontier has a phi. They are therefore all reachable blocks, and one where the variable
  is set on every path is of the second kind. `WalkInv` says that every block is gone through, on the way,
  or below a child still to visit (`ChildToward`), and `SSAInv` that operands and the
  values on stacks are defined on the way to where they are used and are no load that
  waits to be erased: a replaced load cannot be on a stack, since what is on the stacks
  comes before it.
* `Mem2RegRunProofs`: `PromotionKeepsLoads`. Which value is current for a variable at a
  position of a block can be said without the pass: of the blocks that dominate the
  position and give the variable a value by a phi or a store before it, the one that all
  others dominate gives the last (`Current`). The first half of the argument, `CInv`, is
  that `re_name` computes it: a load it has passed has the current value for its users and
  is to be erased, or stays since no block gives its variable one; the tops of the stacks,
  at every activation, and the operands of the phis are current too. When a load is
  replaced no other operand changes, since whatever uses it lies below, where `re_name` has
  not been (`NotUsedYet`). The second half, `RInv`, follows the two executions: a variable
  that is set has a current value, which evaluates to what memory holds (`MemAgrees`). At a
  branch to a block without a phi the current value is the one at the end of every
  predecessor, because a block whose value stopped there would have the block in its
  frontier (`BranchCurrent`); with a phi it is the phi, whose operand was current where
  control comes from.
* `LinearScanProofs`: `RegistersNotShared`, `RegistersConserved`, `AllPlaced`,
  `SpillSlotsDisjoint`, `SaveAreaSuffices`, `SpillsAreFinal`, `ImplementsAllocation`. The
  invariant says that the
  active lists have no duplicates, that active values of a class hold distinct registers,
  and that a value in a register is either active or has ended before the current
  definition. A counting argument with the finite-set library gives that fewer than R
  active values leave a register free. `ImplementsAllocation` is the refinement: expiry
  stutters, and the allocation and each of the two spills is one `Place` step, whose
  compatibility condition is the invariant after the step.
* `DeadCodeProofs`: `PurityCorrect`, `OperandsSurvive`, `SweepIsSafe`, `UsesCorrect`,
  `ErasureCorrect`. Purity: the functions marked impure are always among those that reach
  an effect, and a caller of a marked function is marked unless the function is still
  queued or its use still to visit. Erasure: when the work list is empty the marked set
  is closed under operands and contains the critical instructions, so what is collected
  is disjoint from what any effect needs; and a marked instruction is needed, so a round
  that erases nothing leaves nothing dead.
* `InstrSelectProofs`: `TypeCorrect`, `OthersUntouched`, `CodeAccepted`, `ValuesRight`,
  `BranchesRight`, for every word and immediate size, every set of registers, every order of
  `duChain_list_` and every placement of the values. The first two are about all
  instructions, right or wrong: `SInv` says that what is emitted writes only scratch
  registers and the register or slot of the result. `CodeAccepted` is about all of them
  too: `AInv` adds `ScanInv`, that `rs1` and `rs2` are set exactly if an operand that
  sets them has been met, and that the code so far is well formed exactly if the operands
  met can be brought and, once the result is met, `Emits` holds; `HasCodeParts` puts
  these together into `HasCode`. The last two are about the covered instructions, without
  assuming that there are no others. `VInv` adds what the loop has emitted (`GenInv`:
  the code that brings the operands, once the result is met followed by `ResultCode`) and
  what the machine has done (`ExecInv`). `BinaryShape` reduces the cases of
  `binarygen` to one form: load a constant in at most two instructions, operate, store if
  the result is spilled. `BinProg` and `CmpProg` then say for each position in that code
  which registers still hold operands and what has been computed; the point is that the
  result may share the register of an operand, so no instruction may write the result
  while an operand is still to be read. `Halves` is the arithmetic of `lu12i` and `ori`.

`InstrSelectAssumption` asks for words of at least two bits, since 1 has to be a word, and
for registers to allocate that are none of the scratch registers. It states
`2^k = 2 * 2^(k - 1)` for the three exponents that occur, a fact of arithmetic the prover
does not have.

`Mem2RegAssumption` says what a function is: a finite graph, and stores whose operand is a
constant or a load that comes before the store on every path, and an address is that of an
alloca or of a global or gep, never both. The builder guarantees the former
(`DefsDominateUses` checks it), and without it the pass is not meant to work; the latter is
what the casts in `Mem2Reg.cpp` tell apart.

Only model-checked: `Terminates` of every module (liveness is beyond the prover), `DefsDominateUses` and `SameMeaning` of `BuilderRun`, and all of `GVN` and `GVNRun`. What
`SameMeaning` and `SameBehaviour` state rests on recursive executions, and `GVN` on
recursively defined expressions, which the prover cannot take.

## Plan

Done: all modules above, in the order dominators, allocation, dead code, instruction
selection, mem2reg, builder with parser actions and AST, value numbering.

Left, in this order:

1. `DefsDominateUses` for every program, on top of `AgendaInvariant`: operands that wait on
   the agenda are defined in blocks that dominate the insert block. It would have to move
   from `BuilderRun`, which is recursive, to `Builder`.
2. `UseLists`: `set_operand`, `replace_all_use_with` and `remove_operands` on their own.
   The passes model the operands these leave behind; `DeadCode` models the lists as well.

## Not modelled

* The automata of flex and bison; printing, formatting, logging; the driver, which calls
  the passes one after the other; `create_doms` and the debug printers, which nothing
  calls; type and constant interning in `Module` and `Constant`.
* `calcUse` and `detectDUchain`. Their intervals are the input of `LinearScan`, which is
  checked and proved for any. By reading: an interval is not extended over a back edge
  (`codegen.cpp:190`), and its end is the last element of a set ordered by the addresses of
  position objects (`codegen.cpp:232`), so a model has to choose ends freely, which is what
  `LinearScan` does.
* `emitcode`, `callgen` and `CodeGen::run`. Which registers are saved and which values are
  moved depends on `duChain::end`, which is never assigned and is read at
  `codegen.cpp:1889` and `:2045`; read as an arbitrary value it leaves no property of calls
  or phi moves that holds. Facts found by reading, without a run: pointers are saved with
  eight bytes in an area of four per register (1870); a branch on a compare emits no phi
  moves (2028-2058), and an unconditional one emits them one after the other (2062);
  `callgen` numbers float arguments in registers from 32 and constant ones from 31 (1244);
  a `ret void` reads operand 0 of an empty list (133-146, 1900); `fcon_list_` is kept over
  functions while `flabel_` restarts (2494, 2518).

## Where the code departs from its documentation or is left out of a run

* An assignment evaluates its right-hand side before the index of its variable
  (`cminusf_builder.cpp:340-343`), the other way round than `cminusf.md:136` says.
  `RunSource` follows the documentation, and no program of the run has an assignment whose
  two sides disturb each other, where the order shows.
* `SpillAtInterval` leaves the active list unsorted (`codegen.cpp:300`), which the
  documentation of register allocation keeps sorted. `RegistersNotShared` is proved without
  that order: the cost is later expiry and a worse choice of what to spill.
* `valuePhiFunc` folds two constants with the operation of the phi's operand instead of
  that of the expression (`GVN.cpp:934`, `:966`). `MCGVN!FoldedDiamonds` are functions on
  which `SameBehaviour` fails for that reason; the passing run does not contain them.
* `valuePhiFunc` takes the folded operand for a binary instruction. Where it is a
  conversion or a phi the constant it folds to is null; the functions of the run do not
  fold those.
* `copyStatment` erases the top class while its loop stands on it (`GVN.cpp:299`, `:346`).
  The freed node still links to the rest of the set with the allocators in use, and the
  model takes that outcome.
* An argument of a call that is in no class yet is given the expression of the argument
  before it. The functions of the run define arguments before calls.
* Phis with operands in another order than the predecessors, phis with one operand, and
  loops that cannot be reached are outside the functions of `gvn`.
* The instructions for which `binarygen` and `cmpgen` give no code that is accepted are
  listed above `HasCode`, and those for which it is wrong above `Covered`; functions
  outside `Strict` and `SetAtEntry` are left out of two properties of `Mem2Reg`, for the
  reason the run `mem2reg_one_sided` shows.
