----------------------------- MODULE LinearScan -----------------------------
(***************************************************************************)
(* The register allocation of one function (CodeGen::LinearScan with       *)
(* ExpireOldIntervals and SpillAtInterval), on the live intervals that     *)
(* detectDUchain made.                                                     *)
(*                                                                         *)
(* The values are numbered by their position in duChain_list_.  Integer    *)
(* and float values have a register file and an active list each, and      *)
(* share the frame offset.  A register is its index in registers[] or      *)
(* fregisters[]: the code adds 12 or 23 to name it, which keeps the two    *)
(* files apart.                                                            *)
(***************************************************************************)
EXTENDS Integers, Sequences, FiniteSets

CONSTANTS
  R,           \* regsize_: registers per class
  V,           \* number of values in duChain_list_
  Tables       \* the states detectDUchain may leave, see Table

Var     == 1..V
Class   == {"int", "float"}
Spilled == -20
RegIdx  == 0..(R - 1)

\* A value: its definition, its last use, its class and, for an alloca, the
\* bytes it reserves in the frame and their offset (otherwise 0).
Interval == [def : Nat, end : Nat, cls : Class, size : Nat, offset : Nat]

\* duChain_list_ and offset_ after detectDUchain.
Table == [list : [Var -> Interval], offset : Nat]

ASSUME LinearScanAssumption ==
  /\ R \in Nat \ {0}
  /\ V \in Nat
  /\ Tables \subseteq Table
  /\ \A t \in Tables : \A v \in Var :
       /\ t.list[v].def <= t.list[v].end
       /\ t.list[v].offset <= t.offset
       /\ \A w \in Var : v < w => t.list[v].def < t.list[w].def

VARIABLES
  iv,       \* the intervals (def_, the last element of use_, type, size)
  base,     \* offset_ when the scan starts: the end of the allocas
  pc,       \* "expire", "place" or "done"
  cur,      \* position of the loop over duChain_list_
  active,   \* active_list_ and factive_list_
  free,     \* registers[] and fregisters[]
  regnum,   \* the register index of a value, or Spilled
  maxreg,   \* maxreg and maxfreg
  slot,     \* duChain::offset
  offset    \* offset_

vars == <<iv, base, pc, cur, active, free, regnum, maxreg, slot, offset>>

Cls(v) == iv[v].cls

\* Bytes of a spill slot.
Width(v) == IF Cls(v) = "float" THEN 4 ELSE 8

(***************************************************************************)
(* initPerFunction, and what detectDUchain leaves behind.                  *)
(***************************************************************************)
Init ==
  /\ \E t \in Tables : iv = t.list /\ base = t.offset
  /\ pc = "expire"
  /\ cur = 1
  /\ active = [c \in Class |-> <<>>]
  /\ free = [c \in Class |-> [r \in RegIdx |-> TRUE]]
  /\ regnum = [v \in Var |-> Spilled]
  /\ maxreg = [c \in Class |-> 0]
  /\ slot = [v \in Var |-> iv[v].offset]
  /\ offset = base

-----------------------------------------------------------------------------
Act == active[Cls(cur)]

\* Mutant: an interval that still has its last use ahead is expired too.
ExpiresTooEarly == iv[Head(Act)].def <= iv[cur].def

\* The test of ExpireOldIntervals on the first interval of the list.
Expires == iv[Head(Act)].end <= iv[cur].def

\* Mutant: the ended interval stays in the list.
EraseForgotten(s) == s

\* The list without its first interval.
Erase(s) == Tail(s)

\* ExpireOldIntervals: the first active interval has ended and gives its
\* register back.
ExpireOldIntervals ==
  /\ pc = "expire"
  /\ cur <= V
  /\ Act # <<>>
  /\ Expires
  /\ free' = [free EXCEPT ![Cls(cur)][regnum[Head(Act)]] = TRUE]
  /\ active' = [active EXCEPT ![Cls(cur)] = Erase(@)]
  /\ UNCHANGED <<iv, base, pc, cur, regnum, maxreg, slot, offset>>

\* ExpireOldIntervals returns at the first interval that has not ended.
ExpireReturn ==
  /\ pc = "expire"
  /\ cur <= V
  /\ Act # <<>> => ~Expires
  /\ pc' = "place"
  /\ UNCHANGED <<iv, base, cur, active, free, regnum, maxreg, slot, offset>>

\* Mutant: offset_ is not advanced.
BumpForgotten(v) == offset

\* Mutant: offset_ moves the other way.
BumpDown(v) == offset - Width(v)

\* offset_ after a spill slot for v is reserved.
Bump(v) == offset + Width(v)

NextValue ==
  /\ cur' = cur + 1
  /\ pc' = "expire"

\* Mutant: the spilled interval keeps its place in the list.
ReplaceLastForgotten(s) == s

\* The list with the current value in the place of the spilled one.
ReplaceLast(s) == [s EXCEPT ![R] = cur]

\* SpillAtInterval: the last interval of the full list ends later than the
\* new one, which takes its register and its place in the list.
SpillLast ==
  LET last == Act[R] IN
  /\ pc = "place"
  /\ Len(Act) = R
  /\ iv[last].end > iv[cur].end
  /\ regnum' = [regnum EXCEPT ![cur] = regnum[last], ![last] = Spilled]
  /\ offset' = Bump(last)
  /\ slot' = [slot EXCEPT ![last] = Bump(last)]
  /\ active' = [active EXCEPT ![Cls(cur)] = ReplaceLast(@)]
  /\ NextValue
  /\ UNCHANGED <<iv, base, free, maxreg>>

\* SpillAtInterval: otherwise the new interval is spilled.
SpillNew ==
  /\ pc = "place"
  /\ Len(Act) = R
  /\ iv[Act[R]].end <= iv[cur].end
  /\ regnum' = [regnum EXCEPT ![cur] = Spilled]
  /\ offset' = Bump(cur)
  /\ slot' = [slot EXCEPT ![cur] = Bump(cur)]
  /\ NextValue
  /\ UNCHANGED <<iv, base, active, free, maxreg>>

Elements(s) == {s[i] : i \in 1..Len(s)}

\* std::sort by the last use: any arrangement of the (distinct) elements in
\* ascending order.
Sorted(s) ==
  {t \in [1..Len(s) -> Elements(s)] :
     /\ \A x \in Elements(s) : \E i \in 1..Len(s) : t[i] = x
     /\ \A i, j \in 1..Len(s) : i < j => /\ t[i] # t[j]
                                       /\ iv[t[i]].end <= iv[t[j]].end}

\* Mutant: the register just handed out stays marked free.
TakenForgotten(f, r) == f

\* The register file after register r is handed out.
Taken(f, r) == [f EXCEPT ![r] = FALSE]

\* Mutant: the index of the register instead of a count.
HighMarkOffByOne(m, r) == IF r >= m THEN r ELSE m

\* maxreg after register r is handed out.
HighMark(m, r) == IF r >= m THEN r + 1 ELSE m

\* The first free register, if there is one; then the list is sorted.
Allocate ==
  LET c == Cls(cur) IN
  /\ pc = "place"
  /\ Len(Act) # R
  /\ IF \E r \in RegIdx : free[c][r]
     THEN \E r \in RegIdx :
            /\ free[c][r]
            /\ \A q \in 0..(r - 1) : ~free[c][q]
            /\ regnum' = [regnum EXCEPT ![cur] = r]
            /\ maxreg' = [maxreg EXCEPT ![c] = HighMark(@, r)]
            /\ free' = [free EXCEPT ![c] = Taken(free[c], r)]
            /\ \E s \in Sorted(Append(Act, cur)) :
                 active' = [active EXCEPT ![c] = s]
     ELSE /\ \E s \in Sorted(Act) : active' = [active EXCEPT ![c] = s]
          /\ UNCHANGED <<regnum, maxreg, free>>
  /\ NextValue
  /\ UNCHANGED <<iv, base, slot, offset>>

Finish ==
  /\ pc = "expire"
  /\ cur > V
  /\ pc' = "done"
  /\ UNCHANGED <<iv, base, cur, active, free, regnum, maxreg, slot, offset>>

Next ==
  \/ ExpireOldIntervals
  \/ ExpireReturn
  \/ SpillLast
  \/ SpillNew
  \/ Allocate
  \/ Finish

Spec == Init /\ [][Next]_vars /\ WF_vars(Next)

-----------------------------------------------------------------------------
(***************************************************************************)
(* Properties.                                                             *)
(***************************************************************************)

\* The types of the allocator's state.
TypeOK ==
  /\ iv \in [Var -> Interval]
  /\ base \in Nat
  /\ pc \in {"expire", "place", "done"}
  /\ cur \in 1..(V + 1)
  /\ active \in [Class -> Seq(Var)]
  /\ free \in [Class -> [RegIdx -> BOOLEAN]]
  /\ regnum \in [Var -> RegIdx \cup {Spilled}]
  /\ maxreg \in [Class -> 0..R]
  /\ slot \in [Var -> Nat]
  /\ offset \in Nat

\* Two values of one class that share a register have intervals that do not
\* overlap: the earlier one has its last use no later than the definition of
\* the other.
NoClash ==
  \A u, v \in 1..(cur - 1) :
    u < v /\ Cls(u) = Cls(v) /\ regnum[u] = regnum[v] /\ regnum[u] # Spilled
      => iv[u].end <= iv[v].def

\* A register is marked taken exactly while one active value holds it, so
\* none leaks and none is handed out twice, also after a spill.
FreeIffUnheld ==
  \A c \in Class, r \in RegIdx :
    ~free[c][r] <=> \E i \in 1..Len(active[c]) : regnum[active[c][i]] = r

\* Every value handled so far has a register or a slot of its own below the
\* allocas: the loop over registers finds a free one whenever the list is not
\* full.
Placed ==
  \A v \in 1..(cur - 1) :
    regnum[v] = Spilled => slot[v] >= base + Width(v)

\* The slots of two spilled values do not share a byte.
SlotsDisjoint ==
  \A u, v \in 1..(cur - 1) :
    u # v /\ regnum[u] = Spilled /\ regnum[v] = Spilled =>
      slot[u] + Width(v) <= slot[v] \/ slot[v] + Width(u) <= slot[u]

\* emitcode reserves room to save maxreg registers of each class around calls:
\* that covers every register a value may be in, also one inherited by a spill.
SaveAreaCovers ==
  \A v \in 1..(cur - 1) : regnum[v] # Spilled => regnum[v] < maxreg[Cls(v)]

\* A value once in memory stays there, in the same slot: SpillLast may take a
\* register away, nothing gives one back.
SpillIsFinal ==
  [][\A v \in 1..(cur - 1) :
       regnum[v] = Spilled => regnum'[v] = Spilled /\ slot'[v] = slot[v]]_vars

\* LinearScan, with its active lists, register files and sorting, does what
\* module Allocation promises: each value of the loop is placed once, its
\* predecessors stay where they are except the one SpillAtInterval evicts, and
\* the homes are compatible after every value.
Promise == INSTANCE Allocation WITH placed <- cur - 1, reg <- regnum

KeepsPromise == Promise!Spec

\* The allocation ends.
Terminates == <>(pc = "done")

\* The bytes from fp - slot upwards that a value in memory occupies: what an
\* alloca reserves stays its own when its address is spilled.
Bytes(v) ==
  LET w == IF iv[v].size > 0 THEN iv[v].size
           ELSE IF v < cur /\ regnum[v] = Spilled THEN Width(v) ELSE 0
  IN  (slot[v] - w + 1)..slot[v]

MemoryDisjoint ==
  \A u, v \in Var : u # v => Bytes(u) \cap Bytes(v) = {}
=============================================================================
