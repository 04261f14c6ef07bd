---------------------------- MODULE InstrSelect ----------------------------
(***************************************************************************)
(* The code CodeGen::binarygen and CodeGen::cmpgen emit for one            *)
(* arithmetic instruction, or one compare and its conditional branch, and  *)
(* what that code does when it runs.                                       *)
(*                                                                         *)
(* binarygen and cmpgen walk duChain_list_.  On the way they note where    *)
(* the operands are (rs1, rs2), loading the spilled ones into scratch      *)
(* registers; when they meet the result they emit the operation.  The      *)
(* result may be in the register of an operand whose last use this is.     *)
(*                                                                         *)
(* Machine words have W bits and an immediate field I (32 and 12 on the    *)
(* target, where 4096 = 2^12 and 2047 = 2^11 - 1).  A floating-point value *)
(* is a word too: which operands meet in which order is all that counts.   *)
(***************************************************************************)
EXTENDS Integers, Sequences

CONSTANTS
  W, I,     \* bits of a word and of an immediate
  Regs,     \* the registers LinearScan hands out in the class of the values
  Cases,    \* instructions with the places of their values, see IsCase
  Inputs    \* the words the operands and the other value have before it

Word     == -(2^(W - 1))..(2^(W - 1) - 1)
ImmMax   == 2^(I - 1) - 1
Low      == 2^I

Spilled  == "spilled"
None     == "none"
Scratch  == {"r21", "r23", "r24"}
FScratch == {"ft8", "ft9"}
Machine  == Regs \cup Scratch \cup FScratch

IntOp    == {"add", "sub", "mul", "sdiv"}
FloatOp  == {"fadd", "fsub", "fmul", "fdiv"}
CmpOp    == {"EQ", "NE", "GT", "GE", "LT", "LE"}

\* Two operands, the result and a value that lives across the instruction.
Value == {"x", "y", "z", "d"}

\* An instruction: its operands l and r are values or the constant con; home
\* says where LinearScan put a value, list the order of duChain_list_, which
\* has every value once.  Only the result may share a register, with an operand
\* that ends here.
IsCase(c) ==
  /\ c.op \in IntOp \cup FloatOp \cup CmpOp
  /\ c.l \in {"x", "y", "con"} /\ c.r \in {"x", "y", "con"}
  /\ c.con \in Word
  /\ c.home \in [Value -> Regs \cup {Spilled}]
  /\ c.list \in Seq(Value)
  /\ \A j, k \in 1..Len(c.list) : c.list[j] = c.list[k] => j = k
  /\ \A v \in {c.l, c.r, "d"} \ {"con"} : \E k \in 1..Len(c.list) : c.list[k] = v
  /\ \A u, v \in Value : /\ c.home[u] = c.home[v] /\ c.home[u] # Spilled /\ u # v
                         => {u, v} \in {{"x", "d"}, {"y", "d"}}

\* The truth values 0 and 1 are words.  The second conjunct is arithmetic, for
\* the exponents that occur.
ASSUME InstrSelectAssumption ==
  /\ W \in Nat \ {0, 1} /\ I \in 1..W
  /\ \A k \in {W - 1, W, I} : 2^(k - 1) \in Nat \ {0} /\ 2^k = 2 * 2^(k - 1)
  /\ (Scratch \cup FScratch \cup {Spilled, None, "zero"}) \cap Regs = {}
  /\ Inputs \subseteq [Value \ {"d"} -> Word]
  /\ \A c \in Cases : IsCase(c)

VARIABLES
  ins,      \* the case
  start,    \* the values before the instruction
  phase,    \* "select", "run", "done", "abort" or "rejected"
  pos,      \* position of the loop over duChain_list_
  rs1, rs2, \* the strings rs1 and rs2: a register, or empty
  output,   \* the instructions emitted
  ip,       \* the next one to run
  reg,      \* the registers
  slot,     \* the spill slots
  target    \* the block the branch goes to

vars == <<ins, start, phase, pos, rs1, rs2, output, ip, reg, slot, target>>

Home(v)  == ins.home[v]
HasConst == ins.l = "con" \/ ins.r = "con"
IsFloat  == ins.op \in FloatOp

\* An operand in the machine state: its register, or its slot.
InRegs(vals, home) ==
  [r \in Machine |-> IF \E v \in Value \ {"d"} : home[v] = r
                     THEN vals[CHOOSE v \in Value \ {"d"} : home[v] = r]
                     ELSE 0]

\* The word an operand stands for.
Operand(o) == IF o = "con" THEN ins.con ELSE start[o]

\* A division by zero means nothing in the IR.
Init ==
  /\ ins \in Cases
  /\ start \in Inputs
  /\ ins.op \in {"sdiv", "fdiv"} => Operand(ins.r) # 0
  /\ phase = "select"
  /\ pos = 1
  /\ rs1 = None /\ rs2 = None
  /\ output = <<>>
  /\ ip = 1
  /\ reg = InRegs(start, ins.home)
  /\ slot = [v \in Value |-> IF v = "d" THEN 0 ELSE start[v]]
  /\ target = None

-----------------------------------------------------------------------------
(***************************************************************************)
(* The machine instructions.                                               *)
(***************************************************************************)
Rrr(o, d, a, b) == [o |-> o, d |-> d, a |-> a, b |-> b, n |-> 0, v |-> "d"]
Rri(o, d, a, n) == [o |-> o, d |-> d, a |-> a, b |-> "zero", n |-> n, v |-> "d"]
Mem(o, r, v)    == [o |-> o, d |-> r, a |-> r, b |-> "zero", n |-> 0, v |-> v]
Jump(o, a, b)   == [o |-> o, d |-> "zero", a |-> a, b |-> b, n |-> 0, v |-> "d"]

(***************************************************************************)
(* The operands.                                                           *)
(***************************************************************************)

\* Mutant: a register that LinearScan hands out serves as scratch.
AllocatedScratch(first) == CHOOSE r \in Regs : TRUE

\* The scratch register for the first (or only) and for the second operand.
OperandScratch(first) ==
  IF IsFloat /\ HasConst THEN "ft9" ELSE IF first THEN "r23" ELSE "r24"

\* Mutant: a compare reads the operand where it is.
NoCopy == FALSE

\* cmpgen copies an operand out of its register before it writes the result,
\* except when it tests for equality with a constant.
CopiesOperand == ins.op \in CmpOp /\ (ins.op = "EQ" => ~HasConst)

Fetch(v, s) ==
  IF Home(v) = Spilled THEN <<Mem("ld", s, v)>>
  ELSE IF CopiesOperand THEN <<Rrr("or", s, "zero", Home(v))>>
  ELSE <<>>

Fetched(v, s) == IF Home(v) = Spilled \/ CopiesOperand THEN s ELSE Home(v)

\* The operand goes to rs1: it is the only one, the first one, or the second
\* of a GE and spilled.
IsFirst(v)   == HasConst \/ v = ins.l
SetsFirst(v) == IsFirst(v) \/ (ins.op = "GE" /\ Home(v) = Spilled)

(***************************************************************************)
(* The result.                                                             *)
(***************************************************************************)
D == Home("d")

\* Where an operation puts the result, and the store when it is spilled.
Dest      == IF D = Spilled THEN "r21" ELSE D
StoreBack == IF D = Spilled THEN <<Mem("st", "r21", "d")>> ELSE <<>>

Small == ins.con <= ImmMax

\* Mutant: the upper part keeps the bits of the lower one.
LoadConUnmasked(r) == <<Rri("lu12i", r, "zero", ins.con), Rri("ori", r, r, ins.con)>>

\* A constant in two instructions, lu12i.w and ori.
LoadCon(r) ==
  <<Rri("lu12i", r, "zero", ins.con - (ins.con % Low)), Rri("ori", r, r, ins.con % Low)>>

AddCode ==
  IF ~HasConst THEN <<Rrr("add", Dest, rs1, rs2)>> \o StoreBack
  ELSE IF Small THEN <<Rri("addi", Dest, rs1, ins.con)>> \o StoreBack
  ELSE LoadCon("r24") \o <<Rrr("add", Dest, rs1, "r24")>> \o StoreBack

\* Mutant: the immediate is not negated.
SubCodePlus ==
  IF ~HasConst THEN <<Rrr("sub", Dest, rs1, rs2)>> \o StoreBack
  ELSE IF Small THEN <<Rri("addi", Dest, rs1, ins.con)>> \o StoreBack
  ELSE IF ins.l = "con"
       THEN LoadCon("r24") \o <<Rrr("sub", Dest, "r24", rs1)>> \o StoreBack
       ELSE LoadCon("r24") \o <<Rrr("sub", Dest, rs1, "r24")>> \o StoreBack

\* With a small constant on the left the code adds it.
SubCode ==
  IF ~HasConst THEN <<Rrr("sub", Dest, rs1, rs2)>> \o StoreBack
  ELSE IF Small
       THEN <<Rri("addi", Dest, rs1, IF ins.l = "con" THEN ins.con ELSE -ins.con)>>
              \o StoreBack
  ELSE IF ins.l = "con"
       THEN LoadCon("r24") \o <<Rrr("sub", Dest, "r24", rs1)>> \o StoreBack
       ELSE LoadCon("r24") \o <<Rrr("sub", Dest, rs1, "r24")>> \o StoreBack

\* A small constant is built in the register of the result, and a spilled
\* result is not stored.
MulCode ==
  IF ~HasConst THEN <<Rrr("mul", D, rs1, rs2)>>
  ELSE IF Small THEN <<Rri("ori", Dest, "zero", ins.con), Rrr("mul", Dest, rs1, Dest)>>
  ELSE LoadCon("r21") \o <<Rrr("mul", D, rs1, "r21")>>

DivCode ==
  LET Div(d, c) == IF ins.l = "con" THEN Rrr("div", d, c, rs1) ELSE Rrr("div", d, rs1, c)
  IN  IF ~HasConst THEN <<Rrr("div", D, rs1, rs2)>>
      ELSE IF Small THEN <<Rri("ori", Dest, "zero", ins.con), Div(Dest, Dest)>>
      ELSE LoadCon("r21") \o <<Div(D, "r21")>>

\* A constant comes from the constant pool, its address in r21, and is always
\* the second operand.
FloatCode(o) ==
  LET dest == IF D = Spilled THEN "ft8" ELSE D
      back == IF D = Spilled THEN <<Mem("fst", "ft8", "d")>> ELSE <<>>
  IN  IF HasConst
      THEN <<Rri("la", "r21", "zero", 0), Rri("fld", "ft8", "zero", ins.con),
             Rrr(o, dest, rs1, "ft8")>> \o back
      ELSE <<Rrr(o, Dest, rs1, rs2)>> \o StoreBack

FAddCode == FloatCode("fadd")
FSubCode == FloatCode("fsub")
FMulCode == FloatCode("fmul")
FDivCode == FloatCode("fdiv")

\* One or two branches to the true block under a result of 1, then the jump to
\* the false block under a result of 0.
CmpCode(branches, a, b) ==
  LET taken == [k \in 1..Len(branches) |-> Jump(branches[k], a, b)]
      con   == IF HasConst THEN <<Rri("addi", "r21", "zero", ins.con)>> ELSE <<>>
  IN  con \o <<Rri("ori", D, "zero", 1)>> \o taken
          \o <<Rri("ori", D, "zero", 0), Jump("b", "zero", "zero")>>

CmpLeft  == IF ins.l = "con" THEN "r21" ELSE rs1
CmpRight == IF ins.l = "con" THEN rs1 ELSE IF ins.r = "con" THEN "r21" ELSE rs2

EqCode == IF HasConst THEN CmpCode(<<"beq">>, "r21", rs1) ELSE CmpCode(<<"beq">>, rs1, rs2)
NeCode == CmpCode(<<"bne">>, CmpLeft, CmpRight)
GtCode == CmpCode(<<"bge">>, CmpLeft, CmpRight)
GeCode == CmpCode(<<"bge", "beq">>, CmpLeft, CmpRight)
LtCode == CmpCode(<<"blt">>, CmpLeft, CmpRight)
LeCode == CmpCode(<<"blt", "beq">>, CmpLeft, CmpRight)

ResultCode ==
  CASE ins.op = "add"  -> AddCode  [] ins.op = "sub"  -> SubCode
    [] ins.op = "mul"  -> MulCode  [] ins.op = "sdiv" -> DivCode
    [] ins.op = "fadd" -> FAddCode [] ins.op = "fsub" -> FSubCode
    [] ins.op = "fmul" -> FMulCode [] ins.op = "fdiv" -> FDivCode
    [] ins.op = "EQ"   -> EqCode   [] ins.op = "NE"   -> NeCode
    [] ins.op = "GT"   -> GtCode   [] ins.op = "GE"   -> GeCode
    [] ins.op = "LT"   -> LtCode   [] ins.op = "LE"   -> LeCode

\* Reg::print asserts when it is asked for the register of a spilled value.
NeedsRegister ==
  \/ ins.op \in CmpOp
  \/ ins.op \in {"mul", "sdiv"} /\ (HasConst => ~Small)
-----------------------------------------------------------------------------
(***************************************************************************)
(* The loop over duChain_list_.                                            *)
(***************************************************************************)
\* Mutant: the loop advances twice.
SkipEntry == pos' = pos + 2

NextEntry == pos' = pos + 1

\* An entry for an operand.
ScanOperand ==
  /\ phase = "select"
  /\ pos <= Len(ins.list)
  /\ LET v == ins.list[pos]
         s == OperandScratch(IsFirst(v))
     IN  /\ v # "d"
         /\ v \in {ins.l, ins.r}
         /\ output' = output \o Fetch(v, s)
         /\ rs1' = IF SetsFirst(v) THEN Fetched(v, s) ELSE rs1
         /\ rs2' = IF SetsFirst(v) THEN rs2 ELSE Fetched(v, s)
  /\ NextEntry
  /\ UNCHANGED <<ins, start, phase, ip, reg, slot, target>>

\* The entry for the result.
ScanResult ==
  /\ phase = "select"
  /\ pos <= Len(ins.list)
  /\ ins.list[pos] = "d"
  /\ IF NeedsRegister /\ D = Spilled
     THEN phase' = "abort" /\ UNCHANGED output
     ELSE output' = output \o ResultCode /\ UNCHANGED phase
  /\ NextEntry
  /\ UNCHANGED <<ins, start, rs1, rs2, ip, reg, slot, target>>

\* Any other entry.
ScanOther ==
  /\ phase = "select"
  /\ pos <= Len(ins.list)
  /\ ins.list[pos] \notin {"d", ins.l, ins.r}
  /\ NextEntry
  /\ UNCHANGED <<ins, start, phase, rs1, rs2, output, ip, reg, slot, target>>

-----------------------------------------------------------------------------
(***************************************************************************)
(* The assembler and the processor.                                        *)
(***************************************************************************)
\* What the assembler accepts: no empty operand, no integer register in a
\* floating-point instruction, immediates within their field.
WellFormed(i) ==
  /\ None \notin {i.d, i.a, i.b}
  /\ IsFloat /\ i.o # "la" => {i.d, i.a, i.b} \cap Scratch = {}
  /\ i.o = "addi" => i.n \in -(ImmMax + 1)..ImmMax
  /\ i.o = "ori" => i.n \in 0..(Low - 1)

Assemble ==
  /\ phase = "select"
  /\ pos > Len(ins.list)
  /\ phase' = IF \A k \in 1..Len(output) : WellFormed(output[k]) THEN "run" ELSE "rejected"
  /\ UNCHANGED <<ins, start, pos, rs1, rs2, output, ip, reg, slot, target>>

Wrap(n) == ((n + 2^(W - 1)) % 2^W) - 2^(W - 1)

\* Division that rounds towards zero.
Quot(a, b) ==
  LET abs(n) == IF n < 0 THEN -n ELSE n
      q      == abs(a) \div abs(b)
  IN  IF b = 0 THEN 0 ELSE IF (a < 0) = (b < 0) THEN q ELSE -q

Src(r) == IF r = "zero" THEN 0 ELSE reg[r]

\* The word an instruction computes.
Alu(i) ==
  LET a == Src(i.a)
      b == Src(i.b)
  IN  CASE i.o \in {"add", "fadd"} -> Wrap(a + b)
        [] i.o \in {"sub", "fsub"} -> Wrap(a - b)
        [] i.o \in {"mul", "fmul"} -> Wrap(a * b)
        [] i.o \in {"div", "fdiv"} -> Wrap(Quot(a, b))
        [] i.o = "or"              -> b
        [] i.o \in {"addi", "ori"} -> Wrap(a + i.n)
        [] i.o \in {"lu12i", "fld", "la"} -> Wrap(i.n)
        [] i.o = "ld"              -> slot[i.v]

Branches == {"beq", "bne", "bge", "blt", "b"}

Taken(i) ==
  LET a == Src(i.a)
      b == Src(i.b)
  IN  CASE i.o = "beq" -> a = b
        [] i.o = "bne" -> a # b
        [] i.o = "bge" -> a >= b
        [] i.o = "blt" -> a < b
        [] i.o = "b"   -> TRUE

Execute ==
  /\ phase = "run"
  /\ ip <= Len(output)
  /\ LET i == output[ip] IN
       \/ /\ i.o \in Branches
          /\ IF Taken(i)
             THEN /\ target' = (IF i.o = "b" THEN "false" ELSE "true")
                  /\ phase' = "done"
             ELSE UNCHANGED <<target, phase>>
          /\ UNCHANGED <<reg, slot>>
       \/ /\ i.o \in {"st", "fst"}
          /\ slot' = [slot EXCEPT ![i.v] = reg[i.d]]
          /\ UNCHANGED <<reg, target, phase>>
       \/ /\ i.o \notin Branches \cup {"st", "fst"}
          /\ reg' = [reg EXCEPT ![i.d] = Alu(i)]
          /\ UNCHANGED <<slot, target, phase>>
  /\ ip' = ip + 1
  /\ UNCHANGED <<ins, start, pos, rs1, rs2, output>>

FallThrough ==
  /\ phase = "run"
  /\ ip > Len(output)
  /\ phase' = "done"
  /\ UNCHANGED <<ins, start, pos, rs1, rs2, output, ip, reg, slot, target>>

Next ==
  \/ ScanOperand
  \/ ScanResult
  \/ ScanOther
  \/ Assemble
  \/ Execute
  \/ FallThrough

Spec == Init /\ [][Next]_vars

-----------------------------------------------------------------------------
(***************************************************************************)
(* Properties.                                                             *)
(***************************************************************************)

\* The types of the generator's and the machine's state.
TypeOK ==
  /\ IsCase(ins)
  /\ start \in [Value \ {"d"} -> Word]
  /\ phase \in {"select", "run", "done", "abort", "rejected"}
  /\ pos \in 1..(Len(ins.list) + 1)
  /\ {rs1, rs2} \subseteq Machine \cup {None}
  /\ ip \in 1..(Len(output) + 1)
  /\ reg \in [Machine -> Word]
  /\ slot \in [Value -> Word]
  /\ target \in {None, "true", "false"}

Where(v) == IF Home(v) = Spilled THEN slot[v] ELSE reg[Home(v)]

Meaning ==
  LET a == Operand(ins.l)
      b == Operand(ins.r)
  IN  CASE ins.op \in {"add", "fadd"}  -> Wrap(a + b)
        [] ins.op \in {"sub", "fsub"}  -> Wrap(a - b)
        [] ins.op \in {"mul", "fmul"}  -> Wrap(a * b)
        [] ins.op \in {"sdiv", "fdiv"} -> Wrap(Quot(a, b))
        [] ins.op = "EQ" -> IF a = b THEN 1 ELSE 0
        [] ins.op = "NE" -> IF a # b THEN 1 ELSE 0
        [] ins.op = "GT" -> IF a > b THEN 1 ELSE 0
        [] ins.op = "GE" -> IF a >= b THEN 1 ELSE 0
        [] ins.op = "LT" -> IF a < b THEN 1 ELSE 0
        [] ins.op = "LE" -> IF a <= b THEN 1 ELSE 0

-----------------------------------------------------------------------------
(***************************************************************************)
(* The instructions that yield code.  Left out, because they yield none:   *)
(*  - one value as both operands (x+x, x*x, x<x): rs2 stays empty;         *)
(*  - two constants (1+2): rs1 stays empty;                                *)
(*  - an operand listed after the result: its string is still empty;       *)
(*  - constants below the immediate field in an addi (below -2048 in a sum *)
(*    or minus a value, below -2047 where they are subtracted), beyond it  *)
(*    on either side in a compare, and negative factors and divisors;      *)
(*  - spilled compares, products and quotients: Reg::print asserts, except *)
(*    under a small constant;                                              *)
(*  - a spilled second operand of GE: rs2 stays empty;                     *)
(*  - spilled values in a floating-point instruction without a constant,   *)
(*    which go through integer registers.                                  *)
(***************************************************************************)
\* duChain_list_ has what an instruction reads before what it defines.
InOrder(c) ==
  \A j, k \in 1..Len(c.list) : c.list[j] \in {c.l, c.r} /\ c.list[k] = "d" => j < k

HasCode(c) ==
  LET const == "con" \in {c.l, c.r}
      inReg == c.home["d"] # Spilled
      small == c.con <= ImmMax
      least == IF c.op = "sub" /\ c.r = "con" THEN -ImmMax ELSE -(ImmMax + 1)
  IN  /\ c.l # c.r
      /\ InOrder(c)
      /\ c.op \in {"add", "sub"} => (const => c.con >= least)
      /\ c.op \in {"mul", "sdiv"} => IF const /\ small THEN c.con >= 0 ELSE inReg
      /\ c.op \in CmpOp => inReg /\ (const => small /\ c.con >= least)
      /\ c.op = "GE" /\ ~const => c.home[c.r] # Spilled
      /\ c.op \in FloatOp /\ ~const => Spilled \notin {c.home[v] : v \in {c.l, c.r, "d"}}

\* The assembler takes the code of an instruction, and no assertion of
\* Reg::print fails, exactly when the instruction is of the kinds above: none
\* of the others has code by accident, and no further one is without.
Accepted ==
  /\ phase \in {"abort", "rejected"} => ~HasCode(ins)
  /\ phase \in {"run", "done"} => HasCode(ins)

(***************************************************************************)
(* The instructions whose code is right.  Left out of those that have code *)
(* because it is not: GT at equality (bge); a small constant minus a value *)
(* (it is added), and a floating-point constant minus or divided by one    *)
(* (the order is lost); spilled products and quotients, which are not      *)
(* stored, and those by a small constant in the register of the operand,   *)
(* which is overwritten; EQ with a constant in the register of the         *)
(* operand.  The operands of two are called x and y in this order, the     *)
(* only one x.                                                             *)
(***************************************************************************)
Covered(c) ==
  LET const  == "con" \in {c.l, c.r}
      inReg  == c.home["d"] # Spilled
      shared == inReg /\ c.home["d"] = c.home["x"]
      small  == c.con <= ImmMax
  IN  /\ HasCode(c)
      /\ <<c.l, c.r>> \in {<<"x", "y">>, <<"x", "con">>, <<"con", "x">>}
      /\ c.op # "GT"
      /\ c.op = "sub" /\ c.l = "con" => ~small
      /\ c.op \in {"fsub", "fdiv"} => c.l # "con"
      /\ c.op \in {"mul", "sdiv"} => inReg
      /\ c.op \in {"mul", "sdiv", "EQ"} /\ const /\ small => ~shared

\* When the code has run, the place of the result holds what the instruction
\* means, also when the result overwrites an operand on the way.
ValueComputed ==
  phase = "done" /\ Covered(ins) /\ ins.op \notin CmpOp => Where("d") = Meaning

\* The branch after a compare goes to the true block exactly when the compare
\* holds, and leaves its truth value in the place of the compare.
BranchRight ==
  phase = "done" /\ Covered(ins) /\ ins.op \in CmpOp =>
    /\ target = (IF Meaning = 1 THEN "true" ELSE "false")
    /\ Where("d") = Meaning

\* At no moment does the code disturb a value that lives on: everything but
\* the result and the operand whose register the result takes over.
OthersKept ==
  \A v \in Value \ {"d"} : Home(v) = Spilled \/ Home(v) # D => Where(v) = start[v]

\* GT is > (Instruction.h): the branch goes to the true block exactly when the
\* first operand is greater.
GreaterThan ==
  phase = "done" /\ ins.op = "GT" =>
    target = (IF Operand(ins.l) > Operand(ins.r) THEN "true" ELSE "false")
=============================================================================
