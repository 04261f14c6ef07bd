----------------------------- MODULE Allocation -----------------------------
(***************************************************************************)
(* What a register allocator that goes through the values in the order of  *)
(* their definitions promises, whatever lists and register files it keeps. *)
(*                                                                         *)
(* One value at a time gets a home, a register of its class or a slot in   *)
(* the frame.  Values that are live together never share a register or a   *)
(* byte.  A value that is in memory stays where it is; one that is in a    *)
(* register leaves it only for memory, and for the sake of the new value.  *)
(***************************************************************************)
EXTENDS Integers

CONSTANTS
  R,           \* registers per class
  V            \* number of values

VARIABLES
  iv,          \* the live intervals, given
  base,        \* the frame below which slots are, given
  placed,      \* how many values have a home
  reg,         \* the register of a value, or InMemory
  slot         \* the frame offset of a value in memory

vars == <<iv, base, placed, reg, slot>>

Var      == 1..V
InMemory == -20
Bytes(v) == IF iv[v].cls = "float" THEN 4 ELSE 8

\* The homes of the first n values are compatible.
Compatible(n) ==
  \A u, v \in 1..n :
    /\ reg[v] \in (0..(R - 1)) \cup {InMemory}
    /\ reg[v] = InMemory => slot[v] >= base + Bytes(v)
    /\ u < v /\ iv[u].cls = iv[v].cls /\ reg[u] = reg[v] /\ reg[u] # InMemory
         => iv[u].end <= iv[v].def
    /\ u # v /\ reg[u] = InMemory /\ reg[v] = InMemory
         => slot[u] + Bytes(v) <= slot[v] \/ slot[v] + Bytes(u) <= slot[u]

Init == placed = 0

\* The next value gets a home; another may have to move to memory for it.
Place ==
  /\ placed < V
  /\ placed' = placed + 1
  /\ Compatible(placed)'
  /\ \A v \in 1..placed :
       \/ reg'[v] = reg[v] /\ slot'[v] = slot[v]
       \/ reg[v] # InMemory /\ reg'[v] = InMemory /\ reg'[placed + 1] = reg[v]
  /\ UNCHANGED <<iv, base>>

Spec == Init /\ [][Place]_vars
=============================================================================
