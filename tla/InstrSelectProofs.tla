------------------------- MODULE InstrSelectProofs -------------------------
(***************************************************************************)
(* Proofs about InstrSelect for every word and immediate size, register    *)
(* set and instruction with any places for its values.                     *)
(***************************************************************************)
EXTENDS InstrSelect, SequenceTheorems, TLAPS

Operations == {"add", "sub", "mul", "div", "fadd", "fsub", "fmul", "fdiv", "or", "addi",
               "ori", "lu12i", "fld", "la", "ld"}
Stores     == {"st", "fst"}

\* What may stand where an instruction reads.
Source == Machine \cup {"zero", None}

\* The registers the code may write: scratch and the one of the result.
Written == Scratch \cup FScratch \cup ({D} \ {Spilled})

\* The instructions that come out of binarygen and cmpgen: they write no other
\* register, and store to no slot but that of the result.
Emitted ==
  [o : Operations, d : Written, a : Source, b : Source, n : Int, v : Value]
    \cup [o : Stores, d : Machine, a : Source, b : Source, n : Int, v : {"d"}]
    \cup [o : Branches, d : {"zero"}, a : Source, b : Source, n : Int, v : Value]

\* The state of the machine and of the loop.
SInv ==
  /\ TypeOK
  /\ output \in Seq(Emitted)
  /\ phase \in {"run", "done"} => \A k \in 1..Len(output) : WellFormed(output[k])
  /\ OthersKept

-----------------------------------------------------------------------------
\* The words and what wraps around into them.
LEMMA WordFacts ==
  /\ 0 \in Word /\ 1 \in Word /\ Word \subseteq Int
  /\ \A n \in Int : Wrap(n) \in Word
<1>1. 2^(W - 1) \in Nat /\ 2^(W - 1) > 1 /\ 2^W = 2 * 2^(W - 1)
  <2>1. /\ 2^(W - 1) \in Nat \ {0} /\ 2^W = 2 * 2^(W - 1)
        /\ 2^((W - 1) - 1) \in Nat \ {0} /\ 2^(W - 1) = 2 * 2^((W - 1) - 1)
    BY InstrSelectAssumption
  <2> QED
    BY <2>1
<1> DEFINE H == 2^(W - 1)
<1> HIDE DEF H
<1>2. H \in Nat /\ H > 1 /\ 2^W = 2 * H
  BY <1>1 DEF H
<1>3. Word = (-H)..(H - 1)
  BY DEF Word, H
<1>4. 0 \in Word /\ 1 \in Word /\ Word \subseteq Int
  BY <1>2, <1>3
<1>5. \A n \in Int : Wrap(n) = ((n + H) % (2 * H)) - H
  BY <1>2 DEF Wrap, H
<1>6. \A n \in Int : (n + H) % (2 * H) \in 0..(2 * H - 1)
  BY <1>2
<1>7. ASSUME NEW n \in Int PROVE Wrap(n) \in Word
  <2>1. PICK m \in 0..(2 * H - 1) : Wrap(n) = m - H
    BY <1>5, <1>6
  <2> QED
    BY <1>2, <1>3, <2>1
<1> QED
  BY <1>4, <1>7

\* The registers.
LEMMA RegisterFacts ==
  ASSUME IsCase(ins)
  PROVE  /\ Written \subseteq Machine
         /\ \A v \in Value : Home(v) = Spilled \/ Home(v) \in Machine
         /\ \A v \in Value : Home(v) # Spilled => Home(v) \in Regs
         /\ \A v \in Value \ {"d"} : Home(v) # Spilled /\ Home(v) # D
                                     => Home(v) \notin Written
         /\ "r21" \in Written /\ "r23" \in Written /\ "r24" \in Written
         /\ "ft8" \in Written /\ "ft9" \in Written
         /\ Spilled \notin Machine /\ None \notin Machine /\ "zero" \notin Machine
         /\ D # Spilled => D \in Written
<1>1. \A v \in Value : Home(v) \in Regs \cup {Spilled}
  BY DEF IsCase, Home
<1>2. (Scratch \cup FScratch \cup {Spilled, None, "zero"}) \cap Regs = {}
  BY InstrSelectAssumption
<1>3. "d" \in Value
  BY DEF Value
<1> QED
  BY <1>1, <1>2, <1>3 DEF Machine, Written, D, Scratch, FScratch, Spilled, None

\* The instructions the generator builds.
LEMMA Built ==
  ASSUME IsCase(ins)
  PROVE  /\ \A o \in Operations : \A d \in Written : \A a, b \in Source :
              Rrr(o, d, a, b) \in Emitted
         /\ \A o \in Operations : \A d \in Written : \A a \in Source : \A n \in Int :
              Rri(o, d, a, n) \in Emitted
         /\ \A d \in Written : \A v \in Value : Mem("ld", d, v) \in Emitted
         /\ Mem("st", "r21", "d") \in Emitted /\ Mem("fst", "ft8", "d") \in Emitted
         /\ \A o \in Branches : \A a, b \in Source : Jump(o, a, b) \in Emitted
<1>1. Written \subseteq Machine /\ "r21" \in Machine /\ "ft8" \in Machine
  BY RegisterFacts
<1>2. /\ Written \subseteq Source /\ "zero" \in Source /\ "d" \in Value
      /\ "r21" \in Source /\ "ft8" \in Source
  BY <1>1 DEF Source, Value
<1> QED
  BY <1>1, <1>2 DEF Rrr, Rri, Mem, Jump, Emitted, Operations, Stores

\* Sequences of them.
LEMMA Joined ==
  ASSUME NEW S
  PROVE  /\ \A i \in S : <<i>> \in Seq(S)
         /\ \A i, j \in S : <<i, j>> \in Seq(S)
         /\ \A i, j, k \in S : <<i, j, k>> \in Seq(S)
         /\ <<>> \in Seq(S)
         /\ \A s, t \in Seq(S) : s \o t \in Seq(S)
OBVIOUS

\* The code for the operands.
LEMMA FetchEmitted ==
  ASSUME IsCase(ins), NEW v \in Value, NEW s \in Scratch \cup FScratch
  PROVE  Fetch(v, s) \in Seq(Emitted) /\ Fetched(v, s) \in Machine
<1>1. /\ s \in Written /\ s \in Machine /\ s \in Source
      /\ Home(v) = Spilled \/ Home(v) \in Machine
      /\ "zero" \in Source /\ "or" \in Operations
  BY RegisterFacts DEF Written, Machine, Source, Operations
<1>2. Mem("ld", s, v) \in Emitted
  BY <1>1, Built
<1>3. Home(v) # Spilled => Rrr("or", s, "zero", Home(v)) \in Emitted
  <2>1. Home(v) # Spilled => Home(v) \in Source
    BY <1>1 DEF Source
  <2> QED
    BY <1>1, <2>1, Built
<1>4. Fetch(v, s) \in Seq(Emitted)
  <2> HIDE DEF Emitted
  <2> QED
    BY <1>2, <1>3, Joined DEF Fetch
<1> QED
  BY <1>1, <1>4 DEF Fetched

\* The code for the result: binarygen.
LEMMA BinaryEmitted ==
  ASSUME IsCase(ins), rs1 \in Source, rs2 \in Source,
         ~(NeedsRegister /\ D = Spilled)
  PROVE  /\ AddCode \in Seq(Emitted) /\ SubCode \in Seq(Emitted)
         /\ ins.op = "mul" => MulCode \in Seq(Emitted)
         /\ ins.op = "sdiv" => DivCode \in Seq(Emitted)
<1>1. /\ ins.con \in Int /\ -ins.con \in Int
      /\ ins.con % Low \in Int /\ ins.con - (ins.con % Low) \in Int
  <2>1. ins.con \in Int
    BY WordFacts DEF IsCase
  <2>2. Low \in Nat \ {0}
    BY InstrSelectAssumption DEF Low
  <2> QED
    BY <2>1, <2>2
<1>2. /\ Dest \in Written /\ "r21" \in Written /\ "r24" \in Written
      /\ D # Spilled => D \in Written
  BY RegisterFacts DEF Dest
<1>3. {"zero", "r21", "r24", Dest, rs1, rs2} \subseteq Source
  BY <1>2, RegisterFacts DEF Source
<1>4. {"add", "sub", "mul", "div", "addi", "ori", "lu12i"} \subseteq Operations
  BY DEF Operations
<1>5. /\ \A o \in Operations : \A d \in Written : \A a, b \in Source :
           Rrr(o, d, a, b) \in Emitted
      /\ \A o \in Operations : \A d \in Written : \A a \in Source : \A n \in Int :
           Rri(o, d, a, n) \in Emitted
      /\ Mem("st", "r21", "d") \in Emitted
  BY Built
<1> HIDE DEF Emitted, Operations, Source, Written
<1>6. StoreBack \in Seq(Emitted)
  BY <1>5, Joined DEF StoreBack
<1>7. \A r \in {"r21", "r24"} : LoadCon(r) \in Seq(Emitted)
  <2> SUFFICES ASSUME NEW r \in {"r21", "r24"} PROVE LoadCon(r) \in Seq(Emitted)
    OBVIOUS
  <2>1. /\ Rri("lu12i", r, "zero", ins.con - (ins.con % Low)) \in Emitted
        /\ Rri("ori", r, r, ins.con % Low) \in Emitted
    BY <1>1, <1>2, <1>3, <1>4, <1>5
  <2> QED
    BY <2>1, Joined DEF LoadCon
<1>8. AddCode \in Seq(Emitted)
  <2>1. /\ Rrr("add", Dest, rs1, rs2) \in Emitted
        /\ Rri("addi", Dest, rs1, ins.con) \in Emitted
        /\ Rrr("add", Dest, rs1, "r24") \in Emitted
    BY <1>1, <1>2, <1>3, <1>4, <1>5
  <2> QED
    BY <1>6, <1>7, <2>1, Joined DEF AddCode
<1>9. SubCode \in Seq(Emitted)
  <2>1. /\ Rrr("sub", Dest, rs1, rs2) \in Emitted
        /\ Rri("addi", Dest, rs1, IF ins.l = "con" THEN ins.con ELSE -ins.con) \in Emitted
        /\ Rrr("sub", Dest, rs1, "r24") \in Emitted
        /\ Rrr("sub", Dest, "r24", rs1) \in Emitted
    BY <1>1, <1>2, <1>3, <1>4, <1>5
  <2> QED
    BY <1>6, <1>7, <2>1, Joined DEF SubCode
<1>10. ASSUME ins.op = "mul" PROVE MulCode \in Seq(Emitted)
  <2>1. /\ Rri("ori", Dest, "zero", ins.con) \in Emitted
        /\ Rrr("mul", Dest, rs1, Dest) \in Emitted
    BY <1>1, <1>2, <1>3, <1>4, <1>5
  <2>2. (HasConst /\ Small) \/ D \in Written
    BY <1>2, <1>10 DEF NeedsRegister
  <2>3. D \in Written => /\ Rrr("mul", D, rs1, rs2) \in Emitted
                         /\ Rrr("mul", D, rs1, "r21") \in Emitted
    BY <1>3, <1>4, <1>5
  <2> QED
    BY <1>7, <2>1, <2>2, <2>3, Joined DEF MulCode
<1>11. ASSUME ins.op = "sdiv" PROVE DivCode \in Seq(Emitted)
  <2>1. /\ Rri("ori", Dest, "zero", ins.con) \in Emitted
        /\ Rrr("div", Dest, Dest, rs1) \in Emitted /\ Rrr("div", Dest, rs1, Dest) \in Emitted
    BY <1>1, <1>2, <1>3, <1>4, <1>5
  <2>2. (HasConst /\ Small) \/ D \in Written
    BY <1>2, <1>11 DEF NeedsRegister
  <2>3. D \in Written => /\ Rrr("div", D, rs1, rs2) \in Emitted
                         /\ Rrr("div", D, rs1, "r21") \in Emitted
                         /\ Rrr("div", D, "r21", rs1) \in Emitted
    BY <1>3, <1>4, <1>5
  <2> QED
    BY <1>7, <2>1, <2>2, <2>3, Joined DEF DivCode
<1> QED
  BY <1>8, <1>9, <1>10, <1>11

\* The code for the result: the floating-point operations of binarygen.
LEMMA FloatEmitted ==
  ASSUME IsCase(ins), rs1 \in Source, rs2 \in Source
  PROVE  \A o \in {"fadd", "fsub", "fmul", "fdiv"} : FloatCode(o) \in Seq(Emitted)
<1> SUFFICES ASSUME NEW o \in {"fadd", "fsub", "fmul", "fdiv"}
             PROVE  FloatCode(o) \in Seq(Emitted)
  OBVIOUS
<1>1. ins.con \in Int
  BY WordFacts DEF IsCase
<1> DEFINE dest == IF D = Spilled THEN "ft8" ELSE D
<1>2. Dest \in Written /\ dest \in Written /\ "r21" \in Written /\ "ft8" \in Written
  BY RegisterFacts DEF Dest
<1>3. {"zero", "ft8", rs1, rs2} \subseteq Source
  BY <1>2, RegisterFacts DEF Source
<1>4. {o, "la", "fld"} \subseteq Operations
  BY DEF Operations
<1>5. /\ \A p \in Operations : \A d \in Written : \A a, b \in Source :
           Rrr(p, d, a, b) \in Emitted
      /\ \A p \in Operations : \A d \in Written : \A a \in Source : \A n \in Int :
           Rri(p, d, a, n) \in Emitted
      /\ Mem("st", "r21", "d") \in Emitted /\ Mem("fst", "ft8", "d") \in Emitted
  BY Built
<1> HIDE DEF Emitted, Operations, Source, Written, dest
<1>6. /\ Rri("la", "r21", "zero", 0) \in Emitted
      /\ Rri("fld", "ft8", "zero", ins.con) \in Emitted
      /\ Rrr(o, dest, rs1, "ft8") \in Emitted /\ Rrr(o, Dest, rs1, rs2) \in Emitted
  BY <1>1, <1>2, <1>3, <1>4, <1>5
<1>7. /\ StoreBack \in Seq(Emitted)
      /\ (IF D = Spilled THEN <<Mem("fst", "ft8", "d")>> ELSE <<>>) \in Seq(Emitted)
  BY <1>5, Joined DEF StoreBack
<1>8. /\ <<Rri("la", "r21", "zero", 0), Rri("fld", "ft8", "zero", ins.con),
           Rrr(o, dest, rs1, "ft8")>> \in Seq(Emitted)
      /\ <<Rrr(o, Dest, rs1, rs2)>> \in Seq(Emitted)
  BY <1>6, Joined
<1> QED
  BY <1>7, <1>8, Joined DEF FloatCode, dest

\* The code for the result: cmpgen, which needs a register for it.
LEMMA CmpEmitted ==
  ASSUME IsCase(ins), D # Spilled
  PROVE  \A branches \in Seq(Branches) : \A a, b \in Source :
           CmpCode(branches, a, b) \in Seq(Emitted)
<1> SUFFICES ASSUME NEW branches \in Seq(Branches), NEW a \in Source, NEW b \in Source
             PROVE  CmpCode(branches, a, b) \in Seq(Emitted)
  OBVIOUS
<1>1. ins.con \in Int
  BY WordFacts DEF IsCase
<1>2. D \in Written /\ "r21" \in Written /\ "zero" \in Source
  BY RegisterFacts DEF Source
<1>3. "addi" \in Operations /\ "ori" \in Operations /\ "b" \in Branches
  BY DEF Operations, Branches
<1>4. /\ \A p \in Operations : \A d \in Written : \A c \in Source : \A n \in Int :
           Rri(p, d, c, n) \in Emitted
      /\ \A p \in Branches : \A c, d \in Source : Jump(p, c, d) \in Emitted
  BY Built
<1> HIDE DEF Emitted, Operations, Source, Written, Branches
<1>5. /\ Rri("addi", "r21", "zero", ins.con) \in Emitted
      /\ Rri("ori", D, "zero", 1) \in Emitted /\ Rri("ori", D, "zero", 0) \in Emitted
      /\ Jump("b", "zero", "zero") \in Emitted
  BY <1>1, <1>2, <1>3, <1>4
<1>6. [k \in 1..Len(branches) |-> Jump(branches[k], a, b)] \in Seq(Emitted)
  <2>1. Len(branches) \in Nat /\ \A k \in 1..Len(branches) : branches[k] \in Branches
    OBVIOUS
  <2>2. \A k \in 1..Len(branches) : Jump(branches[k], a, b) \in Emitted
    BY <1>4, <2>1
  <2> QED
    BY <2>1, <2>2
<1>7. /\ (IF HasConst THEN <<Rri("addi", "r21", "zero", ins.con)>> ELSE <<>>) \in Seq(Emitted)
      /\ <<Rri("ori", D, "zero", 1)>> \in Seq(Emitted)
      /\ <<Rri("ori", D, "zero", 0), Jump("b", "zero", "zero")>> \in Seq(Emitted)
  BY <1>5, Joined
<1> QED
  BY <1>6, <1>7, Joined DEF CmpCode

\* The code for the result.
LEMMA ResultEmitted ==
  ASSUME IsCase(ins), rs1 \in Source, rs2 \in Source,
         ~(NeedsRegister /\ D = Spilled)
  PROVE  ResultCode \in Seq(Emitted)
<1>1. /\ AddCode \in Seq(Emitted) /\ SubCode \in Seq(Emitted)
      /\ ins.op = "mul" => MulCode \in Seq(Emitted)
      /\ ins.op = "sdiv" => DivCode \in Seq(Emitted)
  BY BinaryEmitted
<1>2. /\ FAddCode \in Seq(Emitted) /\ FSubCode \in Seq(Emitted)
      /\ FMulCode \in Seq(Emitted) /\ FDivCode \in Seq(Emitted)
  BY FloatEmitted DEF FAddCode, FSubCode, FMulCode, FDivCode
<1>3. ASSUME ins.op \in CmpOp
      PROVE  /\ EqCode \in Seq(Emitted) /\ NeCode \in Seq(Emitted)
             /\ GtCode \in Seq(Emitted) /\ GeCode \in Seq(Emitted)
             /\ LtCode \in Seq(Emitted) /\ LeCode \in Seq(Emitted)
  <2>1. D # Spilled
    BY <1>3 DEF NeedsRegister
  <2>2. "r21" \in Source /\ CmpLeft \in Source /\ CmpRight \in Source
    BY RegisterFacts DEF Source, CmpLeft, CmpRight
  <2>3. /\ <<"beq">> \in Seq(Branches) /\ <<"bne">> \in Seq(Branches)
        /\ <<"bge">> \in Seq(Branches) /\ <<"blt">> \in Seq(Branches)
        /\ <<"bge", "beq">> \in Seq(Branches) /\ <<"blt", "beq">> \in Seq(Branches)
    BY Joined DEF Branches
  <2>4. \A branches \in Seq(Branches) : \A a, b \in Source :
          CmpCode(branches, a, b) \in Seq(Emitted)
    BY <2>1, CmpEmitted
  <2> HIDE DEF Emitted, Source, Branches
  <2>5. EqCode \in Seq(Emitted)
    BY <2>2, <2>3, <2>4 DEF EqCode
  <2> QED
    BY <2>2, <2>3, <2>4, <2>5 DEF NeCode, GtCode, GeCode, LtCode, LeCode
<1>4. ins.op \in IntOp \cup FloatOp \cup CmpOp
  BY DEF IsCase
<1>5. CASE ins.op \in IntOp
  BY <1>1, <1>5 DEF ResultCode, IntOp
<1>6. CASE ins.op \in FloatOp
  BY <1>2, <1>6 DEF ResultCode, FloatOp
<1>7. CASE ins.op \in CmpOp
  BY <1>3, <1>7 DEF ResultCode, CmpOp
<1> QED
  BY <1>4, <1>5, <1>6, <1>7

-----------------------------------------------------------------------------
\* Before the instruction every operand is in its place: no two of x, y and z
\* share a register.
LEMMA InitPlaces == Init => \A v \in Value \ {"d"} : Where(v) = start[v]
<1> SUFFICES ASSUME Init PROVE \A v \in Value \ {"d"} : Where(v) = start[v]
  OBVIOUS
<1>1. /\ IsCase(ins) /\ start \in [Value \ {"d"} -> Word]
      /\ phase = "select" /\ pos = 1 /\ rs1 = None /\ rs2 = None /\ output = <<>> /\ ip = 1
      /\ reg = InRegs(start, ins.home) /\ target = None
      /\ slot = [v \in Value |-> IF v = "d" THEN 0 ELSE start[v]]
  BY InstrSelectAssumption DEF Init
<1>2. /\ \A v \in Value : Home(v) = Spilled \/ Home(v) \in Machine
      /\ \A v \in Value : ins.home[v] = Home(v)
  BY <1>1, RegisterFacts DEF Home
<1>3. ASSUME NEW u \in Value \ {"d"}, NEW v \in Value \ {"d"}, Home(u) = Home(v),
             Home(u) # Spilled
      PROVE  u = v
  <2>1. u # v => {u, v} \in {{"x", "d"}, {"y", "d"}}
    BY <1>1, <1>2, <1>3 DEF IsCase
  <2>2. "d" \notin {u, v}
    OBVIOUS
  <2> QED
    BY <2>1, <2>2
<1>4. ASSUME NEW v \in Value \ {"d"} PROVE Where(v) = start[v]
  <2>1. CASE Home(v) = Spilled
    BY <1>1, <2>1 DEF Where
  <2>2. CASE Home(v) # Spilled
    <3>1. (CHOOSE u \in Value \ {"d"} : ins.home[u] = Home(v)) = v
      <4> DEFINE w == CHOOSE u \in Value \ {"d"} : ins.home[u] = Home(v)
      <4>1. w \in Value \ {"d"} /\ ins.home[w] = Home(v)
        BY <1>2
      <4> HIDE DEF w
      <4>2. w = v
        BY <1>2, <1>3, <2>2, <4>1
      <4> QED
        BY <4>2 DEF w
    <3>2. Home(v) \in Machine /\ \E u \in Value \ {"d"} : ins.home[u] = Home(v)
      BY <1>2, <2>2
    <3>3. reg[Home(v)] = start[v]
      BY <1>1, <3>1, <3>2 DEF InRegs
    <3> QED
      BY <2>2, <3>3 DEF Where
  <2> QED
    BY <2>1, <2>2
<1> QED
  BY <1>4

\* The invariant holds at the start.
LEMMA InitKept == Init => SInv
<1> SUFFICES ASSUME Init PROVE SInv
  OBVIOUS
<1>1. /\ IsCase(ins) /\ start \in [Value \ {"d"} -> Word]
      /\ phase = "select" /\ pos = 1 /\ rs1 = None /\ rs2 = None /\ output = <<>> /\ ip = 1
      /\ reg = InRegs(start, ins.home) /\ target = None
      /\ slot = [v \in Value |-> IF v = "d" THEN 0 ELSE start[v]]
  BY InstrSelectAssumption DEF Init
<1>4. reg \in [Machine -> Word]
  <2>1. ASSUME NEW r \in Machine
        PROVE  (IF \E v \in Value \ {"d"} : ins.home[v] = r
                THEN start[CHOOSE v \in Value \ {"d"} : ins.home[v] = r] ELSE 0) \in Word
    BY <1>1, WordFacts
  <2> QED
    BY <1>1, <2>1 DEF InRegs
<1>5. slot \in [Value -> Word]
  BY <1>1, WordFacts
<1>6. \A v \in Value \ {"d"} : Where(v) = start[v]
  BY InitPlaces
<1>7. Len(ins.list) \in Nat /\ Len(output) = 0 /\ output \in Seq(Emitted)
  BY <1>1, Joined DEF IsCase
<1>8. TypeOK
  BY <1>1, <1>4, <1>5, <1>7 DEF TypeOK
<1> QED
  BY <1>1, <1>6, <1>7, <1>8 DEF SInv, OthersKept

\* The list has a length.
LEMMA ListLength == IsCase(ins) => Len(ins.list) \in Nat
<1>1. IsCase(ins) => ins.list \in Seq(Value)
  BY DEF IsCase
<1> QED
  BY <1>1

\* What a step that leaves the instruction alone leaves alone.
LEMMA SameCase ==
  ASSUME ins' = ins
  PROVE  /\ IsCase(ins)' = IsCase(ins) /\ Emitted' = Emitted /\ D' = D
         /\ \A v \in Value : Home(v)' = Home(v)
         /\ \A i : WellFormed(i)' = WellFormed(i)
<1>1. D' = D /\ \A v \in Value : Home(v)' = Home(v)
  BY DEF D, Home
<1>2. Emitted' = Emitted
  BY <1>1 DEF Emitted, Written
<1>3. \A i : WellFormed(i)' = WellFormed(i)
  BY DEF WellFormed, IsFloat
<1> QED
  BY <1>1, <1>2, <1>3

\* Generating code does not touch the machine: it has to emit the right
\* instructions and to keep rs1 and rs2 registers.
LEMMA SelectStep ==
  ASSUME SInv, ins' = ins, start' = start, reg' = reg, slot' = slot, ip' = ip,
         target' = target, pos \in 1..Len(ins.list), pos' = pos + 1,
         phase = "select", phase' \in {"select", "abort"},
         {rs1', rs2'} \subseteq Machine \cup {None},
         \E code \in Seq(Emitted) : output' = output \o code
  PROVE  SInv'
<1>1. PICK code \in Seq(Emitted) : output' = output \o code
  OBVIOUS
<1>2. /\ output \in Seq(Emitted) /\ ip \in 1..(Len(output) + 1)
      /\ IsCase(ins) /\ Len(ins.list) \in Nat
  <2>1. output \in Seq(Emitted) /\ ip \in 1..(Len(output) + 1) /\ IsCase(ins)
    BY DEF SInv, TypeOK
  <2> QED
    BY <2>1, ListLength
<1>3. output' \in Seq(Emitted) /\ Len(output') = Len(output) + Len(code)
  <2> HIDE DEF Emitted
  <2> QED
    BY <1>1, <1>2
<1>4. output' \in Seq(Emitted') /\ IsCase(ins)'
  BY <1>2, <1>3, SameCase
<1>5. ip' \in 1..(Len(output') + 1) /\ pos' \in 1..(Len(ins'.list) + 1)
  <2>1. Len(code) \in Nat /\ Len(output) \in Nat
    BY <1>1, <1>2
  <2> QED
    BY <1>2, <1>3, <2>1
<1>6. TypeOK'
  BY <1>4, <1>5 DEF SInv, TypeOK
<1>7. OthersKept'
  BY SameCase DEF SInv, OthersKept, Where
<1> QED
  BY <1>4, <1>6, <1>7 DEF SInv

\* An entry for an operand.
LEMMA ScanOperandStep == SInv /\ ScanOperand => SInv'
<1> SUFFICES ASSUME SInv, ScanOperand PROVE SInv'
  OBVIOUS
<1> DEFINE v == ins.list[pos]
           s == OperandScratch(IsFirst(v))
<1>1. IsCase(ins) /\ pos \in 1..Len(ins.list) /\ {rs1, rs2} \subseteq Machine \cup {None}
  <2>1. IsCase(ins) /\ pos \in 1..(Len(ins.list) + 1) /\ pos <= Len(ins.list)
    BY DEF SInv, TypeOK, ScanOperand
  <2>2. output \in Seq(Emitted) /\ {rs1, rs2} \subseteq Machine \cup {None}
    BY DEF SInv, TypeOK
  <2> QED
    BY <2>1, <2>2, ListLength
<1>2. v \in Value
  BY <1>1 DEF IsCase
<1>3. s \in Scratch \cup FScratch
  BY DEF OperandScratch, Scratch, FScratch
<1>4. /\ phase = "select" /\ phase' = phase /\ pos' = pos + 1
      /\ output' = output \o Fetch(v, s)
      /\ rs1' = IF SetsFirst(v) THEN Fetched(v, s) ELSE rs1
      /\ rs2' = IF SetsFirst(v) THEN rs2 ELSE Fetched(v, s)
      /\ ins' = ins /\ start' = start /\ reg' = reg /\ slot' = slot /\ ip' = ip
      /\ target' = target
  BY DEF ScanOperand, NextEntry
<1> HIDE DEF v, s
<1>5. Fetch(v, s) \in Seq(Emitted) /\ Fetched(v, s) \in Machine
  BY <1>1, <1>2, <1>3, FetchEmitted
<1>6. {rs1', rs2'} \subseteq Machine \cup {None}
  BY <1>1, <1>4, <1>5
<1>7. \E code \in Seq(Emitted) : output' = output \o code
  BY <1>4, <1>5
<1> QED
  BY <1>1, <1>4, <1>6, <1>7, SelectStep

\* The entry for the result.
LEMMA ScanResultStep == SInv /\ ScanResult => SInv'
<1> SUFFICES ASSUME SInv, ScanResult PROVE SInv'
  OBVIOUS
<1>1. /\ IsCase(ins) /\ pos \in 1..Len(ins.list) /\ {rs1, rs2} \subseteq Machine \cup {None}
      /\ output \in Seq(Emitted)
  <2>1. IsCase(ins) /\ pos \in 1..(Len(ins.list) + 1) /\ pos <= Len(ins.list)
    BY DEF SInv, TypeOK, ScanResult
  <2>2. output \in Seq(Emitted) /\ {rs1, rs2} \subseteq Machine \cup {None}
    BY DEF SInv, TypeOK
  <2> QED
    BY <2>1, <2>2, ListLength
<1>2. /\ phase = "select" /\ pos' = pos + 1 /\ rs1' = rs1 /\ rs2' = rs2
      /\ ins' = ins /\ start' = start /\ reg' = reg /\ slot' = slot /\ ip' = ip
      /\ target' = target
      /\ IF NeedsRegister /\ D = Spilled
         THEN phase' = "abort" /\ output' = output
         ELSE output' = output \o ResultCode /\ phase' = phase
  BY DEF ScanResult, NextEntry
<1>3. rs1 \in Source /\ rs2 \in Source
  BY <1>1 DEF Source
<1>4. \E code \in Seq(Emitted) : output' = output \o code
  <2>1. CASE NeedsRegister /\ D = Spilled
    <3>1. output' = output /\ <<>> \in Seq(Emitted)
      BY <1>2, <2>1, Joined
    <3>2. output = output \o <<>>
      <4> HIDE DEF Emitted
      <4> QED
        BY <1>1
    <3> QED
      BY <3>1, <3>2
  <2>2. CASE ~(NeedsRegister /\ D = Spilled)
    <3>1. ResultCode \in Seq(Emitted)
      BY <1>1, <1>3, <2>2, ResultEmitted
    <3> QED
      BY <1>2, <2>2, <3>1
  <2> QED
    BY <2>1, <2>2
<1>5. phase' \in {"select", "abort"} /\ {rs1', rs2'} \subseteq Machine \cup {None}
  BY <1>1, <1>2
<1> QED
  BY <1>1, <1>2, <1>4, <1>5, SelectStep

\* Any other entry.
LEMMA ScanOtherStep == SInv /\ ScanOther => SInv'
<1> SUFFICES ASSUME SInv, ScanOther PROVE SInv'
  OBVIOUS
<1>1. /\ IsCase(ins) /\ pos \in 1..Len(ins.list) /\ {rs1, rs2} \subseteq Machine \cup {None}
      /\ output \in Seq(Emitted)
  <2>1. IsCase(ins) /\ pos \in 1..(Len(ins.list) + 1) /\ pos <= Len(ins.list)
    BY DEF SInv, TypeOK, ScanOther
  <2>2. output \in Seq(Emitted) /\ {rs1, rs2} \subseteq Machine \cup {None}
    BY DEF SInv, TypeOK
  <2> QED
    BY <2>1, <2>2, ListLength
<1>2. /\ phase = "select" /\ phase' = phase /\ pos' = pos + 1 /\ rs1' = rs1 /\ rs2' = rs2
      /\ ins' = ins /\ start' = start /\ reg' = reg /\ slot' = slot /\ ip' = ip
      /\ target' = target /\ output' = output
  BY DEF ScanOther, NextEntry
<1>3. \E code \in Seq(Emitted) : output' = output \o code
  <2>1. <<>> \in Seq(Emitted)
    BY Joined
  <2>2. output = output \o <<>>
    <3> HIDE DEF Emitted
    <3> QED
      BY <1>1
  <2> QED
    BY <1>2, <2>1, <2>2
<1>4. phase' \in {"select", "abort"} /\ {rs1', rs2'} \subseteq Machine \cup {None}
  BY <1>1, <1>2
<1> QED
  BY <1>1, <1>2, <1>3, <1>4, SelectStep

-----------------------------------------------------------------------------
\* The assembler lets only well-formed code run.
LEMMA AssembleStep == SInv /\ Assemble => SInv'
<1> SUFFICES ASSUME SInv, Assemble PROVE SInv'
  OBVIOUS
<1>1. /\ ins' = ins /\ start' = start /\ pos' = pos /\ rs1' = rs1 /\ rs2' = rs2
      /\ output' = output /\ ip' = ip /\ reg' = reg /\ slot' = slot /\ target' = target
      /\ phase' = IF \A k \in 1..Len(output) : WellFormed(output[k]) THEN "run" ELSE "rejected"
  BY DEF Assemble
<1>2. TypeOK'
  BY <1>1 DEF SInv, TypeOK, IsCase
<1>3. output' \in Seq(Emitted')
  BY <1>1, SameCase DEF SInv
<1>4. phase' \in {"run", "done"} => \A k \in 1..Len(output') : WellFormed(output[k])'
  BY <1>1 DEF WellFormed, IsFloat
<1>5. OthersKept'
  BY <1>1, SameCase DEF SInv, OthersKept, Where
<1> QED
  BY <1>2, <1>3, <1>4, <1>5 DEF SInv

\* What an instruction reads is a word.
LEMMA SrcWord ==
  ASSUME reg \in [Machine -> Word]
  PROVE  \A r \in Source \ {None} : Src(r) \in Word
BY WordFacts DEF Src, Source

\* The quotient of two words is an integer.
LEMMA QuotInt == \A a, b \in Int : Quot(a, b) \in Int
<1> SUFFICES ASSUME NEW a \in Int, NEW b \in Int PROVE Quot(a, b) \in Int
  OBVIOUS
<1> DEFINE abs(n) == IF n < 0 THEN -n ELSE n
<1>1. CASE b = 0
  BY <1>1 DEF Quot
<1>2. CASE b # 0
  <2>1. abs(a) \in Nat /\ abs(b) \in Nat /\ abs(b) > 0
    BY <1>2
  <2> HIDE DEF abs
  <2>2. abs(a) \div abs(b) \in Int
    BY <2>1
  <2> USE DEF abs
  <2> QED
    BY <1>2, <2>2 DEF Quot
<1> QED
  BY <1>1, <1>2

\* What an instruction computes is a word.
LEMMA AluWord ==
  ASSUME reg \in [Machine -> Word], slot \in [Value -> Word],
         NEW i, i.o \in Operations, i.a \in Source \ {None}, i.b \in Source \ {None},
         i.n \in Int, i.v \in Value
  PROVE  Alu(i) \in Word
<1>1. Src(i.a) \in Word /\ Src(i.b) \in Word /\ slot[i.v] \in Word
  BY SrcWord
<1>2. Src(i.a) \in Int /\ Src(i.b) \in Int
  BY <1>1, WordFacts
<1> DEFINE a == Src(i.a)
           b == Src(i.b)
<1> HIDE DEF a, b
<1>3. a \in Int /\ b \in Int /\ b \in Word
  BY <1>1, <1>2 DEF a, b
<1>4. /\ a + b \in Int /\ a - b \in Int /\ a * b \in Int /\ Quot(a, b) \in Int
      /\ a + i.n \in Int
  <2>1. Quot(a, b) \in Int
    BY <1>3, QuotInt
  <2>2. a * b \in Int
    BY <1>3
  <2>3. a + b \in Int /\ a - b \in Int /\ a + i.n \in Int
    BY <1>3
  <2> QED
    BY <2>1, <2>2, <2>3
<1>5. /\ Wrap(a + b) \in Word /\ Wrap(a - b) \in Word /\ Wrap(a * b) \in Word
      /\ Wrap(Quot(a, b)) \in Word /\ Wrap(a + i.n) \in Word /\ Wrap(i.n) \in Word
  BY <1>4, WordFacts
<1> QED
  BY <1>1, <1>3, <1>5 DEF Alu, Operations, a, b

\* A running instruction writes a scratch register, the register of the result
\* or the slot of the result.
LEMMA ExecuteStep == SInv /\ Execute => SInv'
<1> SUFFICES ASSUME SInv, Execute PROVE SInv'
  OBVIOUS
<1> DEFINE i == output[ip]
<1>1. /\ ins' = ins /\ start' = start /\ pos' = pos /\ rs1' = rs1 /\ rs2' = rs2
      /\ output' = output /\ ip' = ip + 1 /\ phase = "run"
  BY DEF Execute
<1>2. /\ IsCase(ins) /\ reg \in [Machine -> Word] /\ slot \in [Value -> Word]
      /\ target \in {None, "true", "false"} /\ output \in Seq(Emitted)
      /\ \A k \in 1..Len(output) : WellFormed(output[k])
      /\ OthersKept
  BY <1>1 DEF SInv, TypeOK
<1>3. ip \in 1..Len(output) /\ ip' \in 1..(Len(output') + 1)
  <2>1. ip \in 1..(Len(output) + 1) /\ ip <= Len(output)
    BY DEF SInv, TypeOK, Execute
  <2>2. Len(output) \in Nat
    BY <1>2
  <2> QED
    BY <1>1, <2>1, <2>2
<1>4. i \in Emitted /\ WellFormed(i)
  <2> HIDE DEF Emitted
  <2> QED
    BY <1>2, <1>3
<1>5. \/ /\ i.o \in Branches
         /\ target' \in {target, "true", "false"} /\ phase' \in {"run", "done"}
         /\ reg' = reg /\ slot' = slot
      \/ /\ i.o \in Stores
         /\ slot' = [slot EXCEPT ![i.v] = reg[i.d]]
         /\ reg' = reg /\ target' = target /\ phase' = phase
      \/ /\ i.o \notin Branches \cup Stores
         /\ reg' = [reg EXCEPT ![i.d] = Alu(i)]
         /\ slot' = slot /\ target' = target /\ phase' = phase
  BY <1>1 DEF Execute, Stores
<1> HIDE DEF i
<1>6. /\ i.o \in Stores => i.d \in Machine /\ i.v = "d"
      /\ i.o \notin Branches \cup Stores => i.o \in Operations /\ i.d \in Written
      /\ i.a \in Source \ {None} /\ i.b \in Source \ {None} /\ i.n \in Int /\ i.v \in Value
  BY <1>4 DEF Emitted, Stores, Operations, Branches, WellFormed, Value
<1>7. /\ Written \subseteq Machine
      /\ \A v \in Value \ {"d"} : Home(v) # Spilled /\ Home(v) # D
                                  => Home(v) \in Machine /\ Home(v) \notin Written
  BY <1>2, RegisterFacts
<1>8. /\ reg' \in [Machine -> Word] /\ slot' \in [Value -> Word]
      /\ target' \in {None, "true", "false"} /\ phase' \in {"run", "done"}
      /\ \A v \in Value \ {"d"} : slot'[v] = slot[v]
      /\ \A r \in Machine \ Written : reg'[r] = reg[r]
  <2>1. CASE i.o \in Branches /\ reg' = reg /\ slot' = slot
             /\ target' \in {target, "true", "false"} /\ phase' \in {"run", "done"}
    BY <1>2, <2>1
  <2>2. CASE i.o \in Stores /\ slot' = [slot EXCEPT ![i.v] = reg[i.d]]
             /\ reg' = reg /\ target' = target /\ phase' = phase
    <3>1. i.v = "d" /\ reg[i.d] \in Word
      BY <1>2, <1>6, <2>2
    <3> QED
      BY <1>1, <1>2, <2>2, <3>1
  <2>3. CASE i.o \notin Branches \cup Stores /\ reg' = [reg EXCEPT ![i.d] = Alu(i)]
             /\ slot' = slot /\ target' = target /\ phase' = phase
    <3>1. Alu(i) \in Word
      BY <1>2, <1>6, <2>3, AluWord
    <3>2. i.d \in Written /\ i.d \in Machine
      BY <1>6, <1>7, <2>3
    <3> QED
      BY <1>1, <1>2, <2>3, <3>1, <3>2
  <2> QED
    BY <1>5, <2>1, <2>2, <2>3
<1>9. TypeOK'
  <2>1. /\ start \in [Value \ {"d"} -> Word] /\ pos \in 1..(Len(ins.list) + 1)
        /\ {rs1, rs2} \subseteq Machine \cup {None}
    BY DEF SInv, TypeOK
  <2>2. IsCase(ins)'
    BY <1>1, <1>2, SameCase
  <2>3. pos' \in 1..(Len(ins'.list) + 1)
    BY <1>1, <2>1
  <2>4. start' \in [Value \ {"d"} -> Word] /\ {rs1', rs2'} \subseteq Machine \cup {None}
    BY <1>1, <2>1
  <2> QED
    BY <1>3, <1>8, <2>2, <2>3, <2>4 DEF TypeOK
<1>10. output' \in Seq(Emitted') /\ \A k \in 1..Len(output') : WellFormed(output[k])'
  <2>1. output' \in Seq(Emitted')
    BY <1>1, <1>2, SameCase
  <2>2. \A k \in 1..Len(output') : WellFormed(output[k])'
    BY <1>1, <1>2 DEF WellFormed, IsFloat
  <2> QED
    BY <2>1, <2>2
<1>11. OthersKept'
  <2> SUFFICES ASSUME NEW v \in Value \ {"d"}, Home(v)' = Spilled \/ Home(v)' # D'
               PROVE  Where(v)' = start'[v]
    BY DEF OthersKept
  <2>1. Home(v)' = Home(v) /\ D' = D
    BY <1>1, SameCase
  <2>2. Where(v) = start[v]
    BY <1>2, <2>1 DEF OthersKept
  <2>3. CASE Home(v) = Spilled
    BY <1>1, <1>8, <2>1, <2>2, <2>3 DEF Where
  <2>4. CASE Home(v) # Spilled
    BY <1>1, <1>7, <1>8, <2>1, <2>2, <2>4 DEF Where
  <2> QED
    BY <2>3, <2>4
<1> QED
  BY <1>9, <1>10, <1>11 DEF SInv

\* The end of the code.
LEMMA FallThroughStep == SInv /\ FallThrough => SInv'
<1> SUFFICES ASSUME SInv, FallThrough PROVE SInv'
  OBVIOUS
<1>1. /\ ins' = ins /\ start' = start /\ pos' = pos /\ rs1' = rs1 /\ rs2' = rs2
      /\ output' = output /\ ip' = ip /\ reg' = reg /\ slot' = slot /\ target' = target
      /\ phase = "run" /\ phase' = "done"
  BY DEF FallThrough
<1>2. TypeOK'
  BY <1>1 DEF SInv, TypeOK, IsCase
<1>3. output' \in Seq(Emitted') /\ \A k \in 1..Len(output') : WellFormed(output[k])'
  <2>1. output' \in Seq(Emitted')
    BY <1>1, SameCase DEF SInv
  <2>2. \A k \in 1..Len(output') : WellFormed(output[k])'
    BY <1>1 DEF SInv, WellFormed, IsFloat
  <2> QED
    BY <2>1, <2>2
<1>4. OthersKept'
  BY <1>1, SameCase DEF SInv, OthersKept, Where
<1> QED
  BY <1>2, <1>3, <1>4 DEF SInv

\* Nothing changes.
LEMMA StutterStep == SInv /\ UNCHANGED vars => SInv'
<1> SUFFICES ASSUME SInv, UNCHANGED vars PROVE SInv'
  OBVIOUS
<1>1. /\ ins' = ins /\ start' = start /\ pos' = pos /\ rs1' = rs1 /\ rs2' = rs2
      /\ output' = output /\ ip' = ip /\ reg' = reg /\ slot' = slot /\ target' = target
      /\ phase' = phase
  BY DEF vars
<1>2. TypeOK'
  BY <1>1 DEF SInv, TypeOK, IsCase
<1>3. /\ output' \in Seq(Emitted')
      /\ phase' \in {"run", "done"} => \A k \in 1..Len(output') : WellFormed(output[k])'
  <2>1. output' \in Seq(Emitted')
    BY <1>1, SameCase DEF SInv
  <2>2. phase' \in {"run", "done"} => \A k \in 1..Len(output') : WellFormed(output[k])'
    BY <1>1 DEF SInv, WellFormed, IsFloat
  <2> QED
    BY <2>1, <2>2
<1>4. OthersKept'
  BY <1>1, SameCase DEF SInv, OthersKept, Where
<1> QED
  BY <1>2, <1>3, <1>4 DEF SInv

\* The inductive invariant.
LEMMA StateKept == Spec => []SInv
<1>1. Init => SInv
  BY InitKept
<1>2. SInv /\ [Next]_vars => SInv'
  BY ScanOperandStep, ScanResultStep, ScanOtherStep, AssembleStep, ExecuteStep,
     FallThroughStep, StutterStep DEF Next
<1> QED
  BY <1>1, <1>2, PTL DEF Spec

\* The generator and the machine keep their types: rs1 and rs2 hold registers
\* or nothing, and every register and slot a word of W bits.
THEOREM TypeCorrect == Spec => []TypeOK
<1>1. SInv => TypeOK
  BY DEF SInv
<1> QED
  BY <1>1, StateKept, PTL

\* At no moment does the code of binarygen or cmpgen disturb a value other than
\* the result and the operand whose register the result takes over.
THEOREM OthersUntouched == Spec => []OthersKept
<1>1. SInv => OthersKept
  BY DEF SInv
<1> QED
  BY <1>1, StateKept, PTL

-----------------------------------------------------------------------------
(***************************************************************************)
(* The values: for the covered instructions the code is accepted and       *)
(* computes what the instruction means.                                    *)
(***************************************************************************)

\* The operands that are values; the first, or only, one is x.
Ops == {ins.l, ins.r} \ {"con"}

\* The scratch register of an operand, and the register it is read from.
Sc(v)    == OperandScratch(IsFirst(v))
Place(v) == Fetched(v, Sc(v))

\* The loop has passed the entry of v.
Seen(v) == \E k \in 1..(pos - 1) : ins.list[k] = v

\* The code that brings the operand v to its scratch register, if it is not read
\* where it is, and that i is this code.
FetchOf(v)   == Fetch(v, Sc(v))
Brings(i, v) == FetchOf(v) = <<i>>

\* The first n instructions bring operands, and all of those seen that are not
\* where they are read from.
Brought(n) ==
  /\ \A k \in 1..n : \E v \in Ops : Brings(output[k], v)
  /\ \A v \in Ops : /\ Seen(v) /\ FetchOf(v) # <<>>
                    => \E k \in 1..n : Brings(output[k], v)

\* The number of instructions before those of the result.
Base == Len(output) - Len(ResultCode)

\* The cases of Covered.
LEMMA CoveredFacts ==
  ASSUME IsCase(ins), Covered(ins)
  PROVE  /\ HasConst => Ops = {"x"} /\ IsFirst("x")
         /\ HasConst => \/ ins.l = "con" /\ ins.r = "x"
                        \/ ins.l = "x" /\ ins.r = "con"
         /\ ~HasConst => /\ ins.l = "x" /\ ins.r = "y" /\ Ops = {"x", "y"}
                         /\ IsFirst("x") /\ ~IsFirst("y")
         /\ SetsFirst("x") /\ (~HasConst => ~SetsFirst("y"))
         /\ ~(NeedsRegister /\ D = Spilled)
         /\ ins.op # "GT"
         /\ ins.op \in CmpOp => D # Spilled
         /\ ins.op \in {"mul", "sdiv"} => D # Spilled
         /\ IsFloat /\ ~HasConst => Home("x") # Spilled /\ Home("y") # Spilled /\ D # Spilled
<1>1. <<ins.l, ins.r>> \in {<<"x", "y">>, <<"x", "con">>, <<"con", "x">>}
  BY DEF Covered
<1>2. \/ ins.l = "x" /\ ins.r = "y"
      \/ ins.l = "x" /\ ins.r = "con"
      \/ ins.l = "con" /\ ins.r = "x"
  BY <1>1
<1>3. /\ HasConst => Ops = {"x"} /\ IsFirst("x")
      /\ HasConst => \/ ins.l = "con" /\ ins.r = "x"
                     \/ ins.l = "x" /\ ins.r = "con"
      /\ ~HasConst => /\ ins.l = "x" /\ ins.r = "y" /\ Ops = {"x", "y"}
                      /\ IsFirst("x") /\ ~IsFirst("y")
  BY <1>2 DEF HasConst, Ops, IsFirst
<1>4. /\ ins.op \in CmpOp => D # Spilled
      /\ ins.op \in {"mul", "sdiv"} => D # Spilled
      /\ ins.op # "GT"
  BY DEF Covered, HasCode, D, Home, CmpOp, FloatOp
<1>5. IsFloat /\ ~HasConst => Home("x") # Spilled /\ Home("y") # Spilled /\ D # Spilled
  BY <1>3 DEF Covered, HasCode, D, Home, FloatOp, IsFloat, HasConst
<1>6. SetsFirst("x") /\ (~HasConst => ~SetsFirst("y"))
  <2>1. ~HasConst /\ ins.op = "GE" => Home("y") # Spilled
    BY <1>3 DEF Covered, HasCode, Home, FloatOp, HasConst
  <2> QED
    BY <1>3, <2>1 DEF SetsFirst
<1> QED
  BY <1>3, <1>4, <1>5, <1>6 DEF NeedsRegister

\* Where the operands are read from.  Two operands have different scratch
\* registers.
LEMMA PlaceFacts ==
  ASSUME IsCase(ins), Covered(ins)
  PROVE  /\ \A v \in Ops : Sc(v) \in {"r23", "r24", "ft9"}
         /\ "y" \in Ops => Sc("x") = "r23" /\ Sc("y") = "r24" /\ ~HasConst
         /\ HasConst => Sc("x") \in {"r23", "ft9"}
         /\ "x" \in Ops /\ Ops \subseteq {"x", "y"}
         /\ \A v \in Ops : /\ FetchOf(v) = <<>> => Place(v) = Home(v) /\ Home(v) # Spilled
                           /\ FetchOf(v) # <<>> => Place(v) = Sc(v)
                           /\ Place(v) \in Machine
         /\ ins.op \in CmpOp /\ (ins.op = "EQ" => ~HasConst) => \A v \in Ops : Place(v) = Sc(v)
         /\ IsFloat => \A v \in Ops : Place(v) \notin Scratch
<1>1. /\ HasConst => Ops = {"x"} /\ IsFirst("x")
      /\ ~HasConst => Ops = {"x", "y"} /\ IsFirst("x") /\ ~IsFirst("y")
      /\ IsFloat /\ ~HasConst => Home("x") # Spilled /\ Home("y") # Spilled
  BY CoveredFacts
<1>2. /\ \A v \in Ops : Sc(v) \in {"r23", "r24", "ft9"}
      /\ "y" \in Ops => Sc("x") = "r23" /\ Sc("y") = "r24" /\ ~HasConst
      /\ HasConst => Sc("x") \in {"r23", "ft9"}
      /\ "x" \in Ops /\ Ops \subseteq {"x", "y"}
      /\ HasConst /\ IsFloat => Sc("x") = "ft9"
  BY <1>1 DEF Sc, OperandScratch
<1>3. \A v \in Ops : /\ FetchOf(v) = <<>> => Place(v) = Home(v) /\ Home(v) # Spilled
                     /\ FetchOf(v) # <<>> => Place(v) = Sc(v)
  BY DEF FetchOf, Fetch, Place, Fetched
<1>4. \A v \in Ops : Home(v) = Spilled \/ Home(v) \in Machine \ Scratch
  <2>1. Ops \subseteq Value
    BY <1>2 DEF Value
  <2>2. \A v \in Ops : Home(v) = Spilled \/ Home(v) \in Regs
    BY <2>1, RegisterFacts
  <2>3. Regs \cap Scratch = {}
    BY InstrSelectAssumption
  <2> QED
    BY <2>2, <2>3 DEF Machine
<1>5. \A v \in Ops : Place(v) \in Machine
  BY <1>2, <1>4 DEF Place, Fetched, Machine, Scratch, FScratch
<1>6. ins.op \in CmpOp /\ (ins.op = "EQ" => ~HasConst) => \A v \in Ops : Place(v) = Sc(v)
  BY DEF Place, Fetched, CopiesOperand
<1>7. ASSUME IsFloat, NEW v \in Ops PROVE Place(v) \notin Scratch
  <2>1. ~CopiesOperand
    BY <1>7 DEF CopiesOperand, IsFloat, FloatOp, CmpOp
  <2>2. CASE HasConst
    BY <1>1, <1>2, <1>4, <1>7, <2>1, <2>2 DEF Place, Fetched, Scratch
  <2>3. CASE ~HasConst
    BY <1>1, <1>4, <1>7, <2>1, <2>3 DEF Place, Fetched
  <2> QED
    BY <2>2, <2>3
<1> QED
  BY <1>2, <1>3, <1>5, <1>6, <1>7

-----------------------------------------------------------------------------
(***************************************************************************)
(* The code of binarygen has one shape: the constant is loaded, unless it  *)
(* is an immediate, the operation follows, and the result is stored.       *)
(***************************************************************************)
IsBinary == ins.op \notin CmpOp

\* The operation takes the constant as an immediate.
Immediate == HasConst /\ ins.op \in {"add", "sub"} /\ Small

\* The register the constant is loaded into.
ConReg == IF IsFloat THEN "ft8"
          ELSE IF ins.op \in {"mul", "sdiv"} THEN IF Small THEN D ELSE "r21"
          ELSE "r24"

Load ==
  IF ~HasConst \/ Immediate THEN <<>>
  ELSE IF IsFloat
       THEN <<Rri("la", "r21", "zero", 0), Rri("fld", "ft8", "zero", ins.con)>>
  ELSE IF Small THEN <<Rri("ori", D, "zero", ins.con)>>
  ELSE LoadCon(ConReg)

MainDest == IF D # Spilled THEN D ELSE IF IsFloat THEN "ft8" ELSE "r21"
MainOp   == IF ins.op = "sdiv" THEN "div" ELSE ins.op

\* The constant is the left operand of the operation.
ConLeft == ins.l = "con" /\ ins.op \in {"sub", "sdiv"}

Main ==
  IF ~HasConst THEN Rrr(MainOp, MainDest, rs1, rs2)
  ELSE IF Immediate
       THEN Rri("addi", MainDest, rs1, IF ins.op = "add" THEN ins.con ELSE -ins.con)
  ELSE IF ConLeft THEN Rrr(MainOp, MainDest, ConReg, rs1)
  ELSE Rrr(MainOp, MainDest, rs1, ConReg)

Back == IF D # Spilled THEN <<>>
        ELSE <<Mem(IF IsFloat THEN "fst" ELSE "st", MainDest, "d")>>

\* The bounds of an immediate.
LEMMA PowerFacts == ImmMax \in Nat /\ Low = 2 * (ImmMax + 1)
<1>1. 2^(I - 1) \in Nat \ {0} /\ 2^I = 2 * 2^(I - 1)
  BY InstrSelectAssumption
<1> QED
  BY <1>1 DEF ImmMax, Low

\* Joining short sequences.
LEMMA JoinFacts ==
  /\ \A a : <<>> \o <<a>> = <<a>> /\ <<a>> \o <<>> = <<a>>
  /\ \A a, b : <<a>> \o <<b>> = <<a, b>> /\ <<a, b>> \o <<>> = <<a, b>>
  /\ \A a, b, c : <<a, b>> \o <<c>> = <<a, b, c>> /\ <<a, b, c>> \o <<>> = <<a, b, c>>
  /\ \A a, b, c, d : <<a, b, c>> \o <<d>> = <<a, b, c, d>>
<1>0. ASSUME NEW a, NEW b, NEW c
      PROVE  /\ <<>> \o <<a>> = <<a>> /\ <<a>> \o <<>> = <<a>>
             /\ <<a>> \o <<b>> = <<a, b>> /\ <<a, b>> \o <<>> = <<a, b>>
             /\ <<a, b>> \o <<c>> = <<a, b, c>>
             /\ <<a, b, c>> \o <<>> = <<a, b, c>>
  <2> DEFINE S == {a, b, c}
  <2>0. a \in S /\ b \in S /\ c \in S
    OBVIOUS
  <2> HIDE DEF S
  <2>1. /\ <<a>> \in Seq(S) /\ <<b>> \in Seq(S) /\ <<c>> \in Seq(S)
        /\ <<a, b>> \in Seq(S) /\ <<a, b, c>> \in Seq(S)
    BY <2>0
  <2>2. <<>> \o <<a>> = <<a>> /\ <<a>> \o <<>> = <<a>>
    BY <2>1, ConcatEmptySeq
  <2>3. <<a, b>> \o <<>> = <<a, b>> /\ <<a, b, c>> \o <<>> = <<a, b, c>>
    BY <2>1, ConcatEmptySeq
  <2>4. <<a>> \o <<b>> = <<a, b>>
    <3>1. <<a>> \o <<b>> \in Seq(S) /\ Len(<<a>> \o <<b>>) = Len(<<a, b>>)
      BY <2>1
    <3>2. \A i \in 1..2 : (<<a>> \o <<b>>)[i] = <<a, b>>[i]
      BY <2>1
    <3> QED
      BY <2>1, <3>1, <3>2, SeqEqual
  <2>5. <<a, b>> \o <<c>> = <<a, b, c>>
    <3>1. <<a, b>> \o <<c>> \in Seq(S) /\ Len(<<a, b>> \o <<c>>) = Len(<<a, b, c>>)
      BY <2>1
    <3>2. \A i \in 1..3 : (<<a, b>> \o <<c>>)[i] = <<a, b, c>>[i]
      BY <2>1
    <3> QED
      BY <2>1, <3>1, <3>2, SeqEqual
  <2> QED
    BY <2>2, <2>3, <2>4, <2>5
<1>1. \A a : <<>> \o <<a>> = <<a>> /\ <<a>> \o <<>> = <<a>>
  BY <1>0
<1>2. \A a, b : <<a>> \o <<b>> = <<a, b>> /\ <<a, b>> \o <<>> = <<a, b>>
  BY <1>0
<1>3. \A a, b, c : <<a, b>> \o <<c>> = <<a, b, c>> /\ <<a, b, c>> \o <<>> = <<a, b, c>>
  BY <1>0
<1>4. ASSUME NEW a, NEW b, NEW c, NEW d PROVE <<a, b, c>> \o <<d>> = <<a, b, c, d>>
  <2> DEFINE S == {a, b, c, d}
  <2>0. a \in S /\ b \in S /\ c \in S /\ d \in S
    OBVIOUS
  <2> HIDE DEF S
  <2>1. <<d>> \in Seq(S) /\ <<a, b, c>> \in Seq(S) /\ <<a, b, c, d>> \in Seq(S)
    BY <2>0
  <2>2. <<a, b, c>> \o <<d>> \in Seq(S) /\ Len(<<a, b, c>> \o <<d>>) = Len(<<a, b, c, d>>)
    BY <2>1
  <2>3. \A i \in 1..4 : (<<a, b, c>> \o <<d>>)[i] = <<a, b, c, d>>[i]
    BY <2>1
  <2> QED
    BY <2>1, <2>2, <2>3, SeqEqual
<1> QED
  BY <1>1, <1>2, <1>3, <1>4

\* The shape.
LEMMA BinaryShape ==
  ASSUME IsCase(ins), Covered(ins), IsBinary
  PROVE  ResultCode = Load \o <<Main>> \o Back
<1>1. /\ HasConst => \/ ins.l = "con" /\ ins.r = "x"
                     \/ ins.l = "x" /\ ins.r = "con"
      /\ ins.op \in {"mul", "sdiv"} => D # Spilled
      /\ IsFloat /\ ~HasConst => D # Spilled
      /\ ins.op \in IntOp \cup FloatOp
  BY CoveredFacts DEF IsCase, IsBinary
<1>2. HasConst /\ ins.op = "sub" /\ ins.l = "con" => ~Small
  BY DEF Covered, Small
<1>3. /\ Dest = IF D = Spilled THEN "r21" ELSE D
      /\ StoreBack = IF D = Spilled THEN <<Mem("st", "r21", "d")>> ELSE <<>>
  BY DEF Dest, StoreBack
<1>4. CASE ins.op = "add"
  <2>1. ResultCode = AddCode /\ ~IsFloat
    BY <1>4 DEF ResultCode, IsFloat, FloatOp
  <2> QED
    BY <1>1, <1>3, <1>4, <2>1, JoinFacts
       DEF AddCode, Load, Main, Back, MainDest, MainOp, ConLeft, ConReg, Immediate, LoadCon
<1>5. CASE ins.op = "sub"
  <2>1. ResultCode = SubCode /\ ~IsFloat
    BY <1>5 DEF ResultCode, IsFloat, FloatOp
  <2> QED
    BY <1>1, <1>2, <1>3, <1>5, <2>1, JoinFacts
       DEF SubCode, Load, Main, Back, MainDest, MainOp, ConLeft, ConReg, Immediate, LoadCon
<1>6. CASE ins.op = "mul"
  <2>1. ResultCode = MulCode /\ ~IsFloat
    BY <1>6 DEF ResultCode, IsFloat, FloatOp
  <2>2. D # Spilled /\ Dest = D /\ Back = <<>> /\ MainDest = D /\ ~Immediate
    BY <1>1, <1>3, <1>6 DEF Back, MainDest, Immediate
  <2>3. CASE ~HasConst
    BY <1>6, <2>1, <2>2, <2>3, JoinFacts DEF MulCode, Load, Main, MainOp
  <2>4. CASE HasConst /\ Small
    BY <1>1, <1>6, <2>1, <2>2, <2>4, JoinFacts
       DEF MulCode, Load, Main, MainOp, ConLeft, ConReg
  <2>5. CASE HasConst /\ ~Small
    BY <1>1, <1>6, <2>1, <2>2, <2>5, JoinFacts
       DEF MulCode, Load, Main, MainOp, ConLeft, ConReg, LoadCon
  <2> QED
    BY <2>3, <2>4, <2>5
<1>7. CASE ins.op = "sdiv"
  <2>1. ResultCode = DivCode /\ ~IsFloat
    BY <1>7 DEF ResultCode, IsFloat, FloatOp
  <2>2. D # Spilled /\ Dest = D /\ Back = <<>> /\ MainDest = D /\ ~Immediate
    BY <1>1, <1>3, <1>7 DEF Back, MainDest, Immediate
  <2>3. CASE ~HasConst
    BY <1>7, <2>1, <2>2, <2>3, JoinFacts DEF DivCode, Load, Main, MainOp
  <2>4. CASE HasConst /\ Small
    BY <1>1, <1>7, <2>1, <2>2, <2>4, JoinFacts
       DEF DivCode, Load, Main, MainOp, ConLeft, ConReg
  <2>5. CASE HasConst /\ ~Small
    BY <1>1, <1>7, <2>1, <2>2, <2>5, JoinFacts
       DEF DivCode, Load, Main, MainOp, ConLeft, ConReg, LoadCon
  <2> QED
    BY <2>3, <2>4, <2>5
<1>8. CASE ins.op \in FloatOp
  <2>1. ResultCode = FloatCode(ins.op) /\ IsFloat
    BY <1>8 DEF ResultCode, IsFloat, FloatOp, FAddCode, FSubCode, FMulCode, FDivCode
  <2> QED
    BY <1>1, <1>3, <1>8, <2>1, JoinFacts
       DEF FloatCode, FloatOp, Load, Main, Back, MainDest, MainOp, ConLeft, ConReg, Immediate
<1> QED
  BY <1>1, <1>4, <1>5, <1>6, <1>7, <1>8 DEF IntOp

\* Its instructions.
LEMMA BinaryCode ==
  ASSUME IsCase(ins), Covered(ins), IsBinary
  PROVE  /\ Len(Load) \in 0..2
         /\ Len(ResultCode) = Len(Load) + 1 + Len(Back)
         /\ Len(Back) = IF D # Spilled THEN 0 ELSE 1
         /\ \A k \in 1..Len(Load) : ResultCode[k] = Load[k]
         /\ ResultCode[Len(Load) + 1] = Main
         /\ D = Spilled => ResultCode[Len(Load) + 2]
                           = Mem(IF IsFloat THEN "fst" ELSE "st", MainDest, "d")
<1> DEFINE st == Mem(IF IsFloat THEN "fst" ELSE "st", MainDest, "d")
<1>1. \/ Load = <<>> \/ (\E a : Load = <<a>>) \/ \E a, b : Load = <<a, b>>
  BY DEF Load, LoadCon
<1>2. Back = IF D # Spilled THEN <<>> ELSE <<st>>
  BY DEF Back
<1> HIDE DEF st
<1>3. ResultCode = Load \o <<Main>> \o Back
  BY BinaryShape
<1>4. CASE Load = <<>>
  BY <1>2, <1>3, <1>4, JoinFacts DEF st
<1>5. CASE \E a : Load = <<a>>
  <2>1. PICK a : Load = <<a>>
    BY <1>5
  <2>2. ResultCode = IF D # Spilled THEN <<a, Main>> ELSE <<a, Main, st>>
    BY <1>2, <1>3, <2>1, JoinFacts
  <2> QED
    BY <1>2, <2>1, <2>2 DEF st
<1>6. CASE \E a, b : Load = <<a, b>>
  <2>1. PICK a, b : Load = <<a, b>>
    BY <1>6
  <2>2. ResultCode = IF D # Spilled THEN <<a, b, Main>> ELSE <<a, b, Main, st>>
    BY <1>2, <1>3, <2>1, JoinFacts
  <2> QED
    BY <1>2, <2>1, <2>2 DEF st
<1> QED
  BY <1>1, <1>4, <1>5, <1>6

\* A word wraps around to itself.
LEMMA WrapSame == \A n \in Word : Wrap(n) = n
<1>1. /\ 2^(W - 1) \in Nat /\ 2^(W - 1) > 0 /\ 2^W = 2 * 2^(W - 1)
  BY InstrSelectAssumption
<1> DEFINE H == 2^(W - 1)
<1> HIDE DEF H
<1>2. H \in Nat /\ H > 0 /\ 2^W = 2 * H
  BY <1>1 DEF H
<1> SUFFICES ASSUME NEW n \in Word PROVE Wrap(n) = n
  OBVIOUS
<1>3. n \in (-H)..(H - 1)
  BY DEF Word, H
<1>4. Wrap(n) = ((n + H) % (2 * H)) - H
  BY <1>2 DEF Wrap, H
<1>5. ASSUME NEW a \in Nat, NEW m \in Nat, a < m PROVE a % m = a
  BY <1>5
<1>6. n + H \in Nat /\ 2 * H \in Nat /\ n + H < 2 * H
  BY <1>2, <1>3
<1>7. (n + H) % (2 * H) = n + H
  BY <1>5, <1>6
<1> QED
  BY <1>2, <1>3, <1>4, <1>7

\* The halves of a constant that lu12i.w and ori put together.
LEMMA Halves ==
  ASSUME NEW n \in Word, n > ImmMax
  PROVE  /\ n % Low \in 0..(Low - 1) /\ n - (n % Low) \in Word
         /\ Wrap(Wrap(n - (n % Low)) + (n % Low)) = n
<1>1. ImmMax \in Nat /\ Low \in Nat /\ Low > 0
  BY PowerFacts
<1>2. n \in Nat
  <2>1. n \in Int
    BY WordFacts
  <2> QED
    BY <1>1, <2>1
<1>3. n % Low \in 0..(Low - 1)
  BY <1>1, <1>2
<1>4. n % Low <= n
  <2>1. CASE n < Low
    BY <1>1, <1>2, <2>1
  <2>2. CASE n >= Low
    BY <1>1, <1>2, <1>3, <2>2
  <2> QED
    BY <1>1, <1>2, <2>1, <2>2
<1>5. n - (n % Low) \in Word
  <2> DEFINE m == n % Low
  <2>1. m \in Nat /\ m <= n
    BY <1>1, <1>3, <1>4
  <2> HIDE DEF m
  <2>2. 2^(W - 1) \in Nat
    BY InstrSelectAssumption
  <2>3. n - m \in Word
    BY <1>2, <2>1, <2>2 DEF Word
  <2> QED
    BY <2>3 DEF m
<1>6. Wrap(n - (n % Low)) = n - (n % Low)
  BY <1>5, WrapSame
<1>7. (n - (n % Low)) + (n % Low) = n
  BY <1>1, <1>2, <1>3
<1> QED
  BY <1>3, <1>5, <1>6, <1>7, WrapSame

-----------------------------------------------------------------------------
(***************************************************************************)
(* The run of the code of binarygen.  r and s are registers and slots, j   *)
(* is the instruction of ResultCode to run next.                           *)
(***************************************************************************)
OperandsIn(r) == r[rs1] = start["x"] /\ (~HasConst => r[rs2] = start["y"])

Loaded(j, r) ==
  /\ j = Len(Load) + 1 /\ HasConst /\ ~Immediate => r[ConReg] = ins.con
  /\ j = 2 /\ Len(Load) = 2 /\ ~IsFloat => r[ConReg] = ins.con - (ins.con % Low)

BinProg(j, r, s) ==
  /\ j <= Len(Load) + 1 => OperandsIn(r) /\ Loaded(j, r)
  /\ j = Len(Load) + 2 => r[MainDest] = Meaning
  /\ j = Len(ResultCode) + 1 => (IF D = Spilled THEN s["d"] ELSE r[D]) = Meaning

\* The code for the operands has run.
Placed == rs1 = Place("x") /\ ("y" \in Ops => rs2 = Place("y"))

\* What the operation computes.
LEMMA MainValue ==
  ASSUME IsCase(ins), Covered(ins), IsBinary, reg \in [Machine -> Word],
         start \in [Value \ {"d"} -> Word], Placed, OperandsIn(reg),
         HasConst /\ ~Immediate => reg[ConReg] = ins.con
  PROVE  Alu(Main) = Meaning
<1>1. /\ HasConst => \/ ins.l = "con" /\ ins.r = "x"
                     \/ ins.l = "x" /\ ins.r = "con"
      /\ ~HasConst => ins.l = "x" /\ ins.r = "y" /\ "y" \in Ops
      /\ ins.op \in {"mul", "sdiv"} => D # Spilled
      /\ ins.op \in IntOp \cup FloatOp
  BY CoveredFacts DEF IsCase, IsBinary
<1>2. rs1 \in Machine /\ (~HasConst => rs2 \in Machine)
  BY <1>1, PlaceFacts DEF Placed
<1>3. ConReg \in Machine /\ "zero" \notin Machine
  BY <1>1, RegisterFacts DEF ConReg
<1>4. Src(rs1) = start["x"] /\ (~HasConst => Src(rs2) = start["y"])
  BY <1>2, <1>3 DEF Src, OperandsIn
<1>5. HasConst /\ ~Immediate => Src(ConReg) = ins.con
  BY <1>3 DEF Src
<1>6. start["x"] \in Int /\ start["y"] \in Int /\ ins.con \in Int
  <2>1. start["x"] \in Word /\ start["y"] \in Word /\ ins.con \in Word
    BY DEF Value, IsCase
  <2> QED
    BY <2>1, WordFacts
<1> DEFINE a == Operand(ins.l)
           b == Operand(ins.r)
<1>7. a \in Int /\ b \in Int
  BY <1>1, <1>6 DEF Operand
<1>8. CASE Immediate
  <2>1. HasConst /\ ins.op \in {"add", "sub"} /\ Small
    BY <1>8 DEF Immediate
  <2>2. ins.op = "sub" => ins.l = "x" /\ ins.r = "con"
    <3>1. ~(ins.op = "sub" /\ ins.l = "con")
      BY <2>1 DEF Covered, Small
    <3> QED
      BY <1>1, <2>1, <3>1
  <2> DEFINE n == IF ins.op = "add" THEN ins.con ELSE -ins.con
  <2>3. Alu(Main) = Wrap(start["x"] + n)
    BY <1>4, <1>8, <2>1 DEF Main, Alu, Rri
  <2>4. CASE ins.op = "add"
    <3>1. Meaning = Wrap(a + b)
      BY <2>4 DEF Meaning
    <3>2. a + b = start["x"] + ins.con
      BY <1>1, <1>6, <2>1 DEF Operand
    <3> QED
      BY <2>3, <2>4, <3>1, <3>2
  <2>5. CASE ins.op = "sub"
    <3>1. Meaning = Wrap(a - b)
      BY <2>5 DEF Meaning
    <3>2. a - b = start["x"] + (-ins.con)
      BY <1>6, <2>2, <2>5 DEF Operand
    <3> QED
      BY <2>3, <2>5, <3>1, <3>2
  <2> QED
    BY <2>1, <2>4, <2>5
<1>9. CASE ~Immediate
  <2> DEFINE p == IF HasConst /\ ConLeft THEN ins.con ELSE start["x"]
             q == IF ~HasConst THEN start["y"] ELSE IF ConLeft THEN start["x"] ELSE ins.con
  <2>1. /\ Alu(Main) = CASE MainOp \in {"add", "fadd"} -> Wrap(p + q)
                         [] MainOp \in {"sub", "fsub"} -> Wrap(p - q)
                         [] MainOp \in {"mul", "fmul"} -> Wrap(p * q)
                         [] MainOp \in {"div", "fdiv"} -> Wrap(Quot(p, q))
    <3>1. Main.o = MainOp /\ Src(Main.a) = p /\ Src(Main.b) = q
      BY <1>4, <1>5, <1>9 DEF Main, Rrr
    <3>2. MainOp \in {"add", "fadd", "sub", "fsub", "mul", "fmul", "div", "fdiv"}
      BY <1>1 DEF MainOp, IntOp, FloatOp
    <3> HIDE DEF p, q
    <3> QED
      BY <3>1, <3>2 DEF Alu
  <2>2. p \in Int /\ q \in Int
    BY <1>6
  <2>3. CASE ins.op \in {"sub", "fsub", "sdiv", "fdiv"}
    <3>1. HasConst /\ ins.op \in {"fsub", "fdiv"} => ins.l = "x" /\ ins.r = "con"
      BY <1>1 DEF Covered, HasConst, FloatOp
    <3>2. p = a /\ q = b
      BY <1>1, <2>3, <3>1 DEF Operand, ConLeft, HasConst
    <3> HIDE DEF p, q, a, b
    <3>3. Meaning = IF ins.op \in {"sub", "fsub"} THEN Wrap(a - b) ELSE Wrap(Quot(a, b))
      BY <2>3 DEF Meaning, a, b
    <3> QED
      BY <2>1, <2>3, <3>2, <3>3 DEF MainOp
  <2>4. CASE ins.op \in {"add", "fadd", "mul", "fmul"}
    <3>1. \/ p = a /\ q = b
          \/ p = b /\ q = a
      BY <1>1, <2>4 DEF Operand, ConLeft, HasConst
    <3> HIDE DEF p, q, a, b
    <3>2. p + q = a + b /\ p * q = a * b
      BY <1>7, <2>2, <3>1
    <3>3. Meaning = IF ins.op \in {"add", "fadd"} THEN Wrap(a + b) ELSE Wrap(a * b)
      BY <2>4 DEF Meaning, a, b
    <3> QED
      BY <2>1, <2>4, <3>2, <3>3 DEF MainOp
  <2> QED
    BY <1>1, <2>3, <2>4 DEF IntOp, FloatOp
<1> QED
  BY <1>8, <1>9

\* The registers the load of the constant writes are none of an operand.
LEMMA LoadFacts ==
  ASSUME IsCase(ins), Covered(ins), IsBinary, Placed, NEW k \in 1..Len(Load)
  PROVE  /\ HasConst /\ ~Immediate /\ Load[k].o \in Operations
         /\ Load[k].d \in Machine \ {rs1} /\ ConReg \in Machine
         /\ Len(Load) = 1 => Load[1] = Rri("ori", ConReg, "zero", ins.con)
         /\ Len(Load) = 2 /\ IsFloat => Load[2] = Rri("fld", ConReg, "zero", ins.con)
         /\ Len(Load) = 2 /\ ~IsFloat =>
              /\ ins.con > ImmMax
              /\ Load[1] = Rri("lu12i", ConReg, "zero", ins.con - (ins.con % Low))
              /\ Load[2] = Rri("ori", ConReg, ConReg, ins.con % Low)
<1>1. HasConst /\ ~Immediate
  BY DEF Load
<1>2. /\ Ops = {"x"} /\ rs1 = Place("x") /\ rs1 \in {"r23", "ft9", Home("x")}
      /\ rs1 = Home("x") \/ rs1 \in {"r23", "ft9"}
  BY <1>1, CoveredFacts, PlaceFacts DEF Placed
<1>3. Home("x") = Spilled \/ Home("x") \in Regs
  BY RegisterFacts DEF Value
<1>4. rs1 \notin {"r21", "r24", "ft8"}
  BY <1>2, <1>3, InstrSelectAssumption DEF Scratch, FScratch, Spilled
<1>5. {"r21", "r24", "ft8"} \subseteq Machine
  BY DEF Machine, Scratch, FScratch
<1>6. CASE IsFloat
  <2>1. /\ Load = <<Rri("la", "r21", "zero", 0), Rri("fld", "ft8", "zero", ins.con)>>
        /\ ConReg = "ft8"
    BY <1>1, <1>6 DEF Load, ConReg
  <2>2. /\ Len(Load) = 2 /\ Load[1] = Rri("la", "r21", "zero", 0)
        /\ Load[2] = Rri("fld", "ft8", "zero", ins.con)
    BY <2>1
  <2>3. k \in {1, 2}
    BY <2>2
  <2> QED
    BY <1>1, <1>4, <1>5, <1>6, <2>1, <2>2, <2>3 DEF Rri, Operations
<1>7. CASE ~IsFloat /\ Small
  <2>1. ins.op \in {"mul", "sdiv"}
    BY <1>1, <1>7 DEF IsCase, IsBinary, IsFloat, Immediate, IntOp
  <2>2. D # Spilled /\ D # Home("x") /\ D \in Machine
    <3>1. D # Spilled
      BY <2>1, CoveredFacts
    <3>2. D # Home("x")
      BY <1>1, <1>7, <2>1, <3>1 DEF Covered, D, Home, HasConst, Small
    <3> QED
      BY <3>1, <3>2, RegisterFacts
  <2>3. Load = <<Rri("ori", D, "zero", ins.con)>> /\ ConReg = D
    BY <1>1, <1>7, <2>1 DEF Load, ConReg
  <2>4. Len(Load) = 1 /\ Load[1] = Rri("ori", D, "zero", ins.con) /\ k = 1
    BY <2>3
  <2>5. D \notin {"r23", "ft9"}
    <3>1. D \in Regs
      BY <2>2, RegisterFacts DEF Value, D
    <3> QED
      BY <3>1, InstrSelectAssumption DEF Scratch, FScratch
  <2> QED
    BY <1>1, <1>2, <1>7, <2>2, <2>3, <2>4, <2>5 DEF Rri, Operations
<1>8. CASE ~IsFloat /\ ~Small
  <2>1. Load = LoadCon(ConReg) /\ ConReg \in {"r21", "r24"}
    BY <1>1, <1>8 DEF Load, ConReg
  <2>2. /\ Len(Load) = 2
        /\ Load[1] = Rri("lu12i", ConReg, "zero", ins.con - (ins.con % Low))
        /\ Load[2] = Rri("ori", ConReg, ConReg, ins.con % Low)
    BY <2>1 DEF LoadCon
  <2>3. k \in {1, 2}
    BY <2>2
  <2>4. ins.con > ImmMax
    <3>1. ins.con \in Int
      BY WordFacts DEF IsCase
    <3> QED
      BY <1>8, <3>1, PowerFacts DEF Small
  <2> QED
    BY <1>1, <1>4, <1>5, <1>8, <2>1, <2>2, <2>3, <2>4 DEF Rri, Operations
<1> QED
  BY <1>6, <1>7, <1>8

\* The operation, and where it puts the result.
LEMMA MainFacts ==
  ASSUME IsCase(ins), Covered(ins), IsBinary
  PROVE  /\ Main.o \in Operations /\ Main.d = MainDest /\ MainDest \in Machine
         /\ D # Spilled => MainDest = D
<1>1. /\ ins.op \in IntOp \cup FloatOp
  BY DEF IsCase, IsBinary
<1>2. Main.o \in Operations /\ Main.d = MainDest
  BY <1>1 DEF Main, Rrr, Rri, MainOp, IntOp, FloatOp, Operations
<1> QED
  BY <1>2, RegisterFacts DEF MainDest

\* One instruction.
LEMMA BinStep ==
  ASSUME IsCase(ins), Covered(ins), IsBinary, reg \in [Machine -> Word],
         slot \in [Value -> Word], start \in [Value \ {"d"} -> Word], Placed,
         NEW j \in 1..Len(ResultCode), BinProg(j, reg, slot), NEW r, NEW s,
         \/ /\ ResultCode[j].o \in Stores /\ r = reg
            /\ s = [slot EXCEPT ![ResultCode[j].v] = reg[ResultCode[j].d]]
         \/ /\ ResultCode[j].o \notin Branches \cup Stores /\ s = slot
            /\ r = [reg EXCEPT ![ResultCode[j].d] = Alu(ResultCode[j])]
  PROVE  BinProg(j + 1, r, s)
<1> DEFINE L == Len(Load)
<1>1. /\ L \in 0..2
      /\ Len(ResultCode) = L + 1 + (IF D # Spilled THEN 0 ELSE 1)
      /\ \A k \in 1..L : ResultCode[k] = Load[k]
      /\ ResultCode[L + 1] = Main
      /\ D = Spilled => ResultCode[L + 2] = Mem(IF IsFloat THEN "fst" ELSE "st", MainDest, "d")
  BY BinaryCode
<1>2. j \in 1..(L + 2) /\ (j = L + 2 => D = Spilled)
  BY <1>1
<1>3. Operations \cap (Branches \cup Stores) = {}
  BY DEF Operations, Branches, Stores
<1>4. CASE j \in 1..L
  <2>1. ResultCode[j] = Load[j]
    BY <1>1, <1>4
  <2> DEFINE i == Load[j]
  <2>2. /\ HasConst /\ ~Immediate /\ i.o \in Operations
        /\ i.d \in Machine \ {rs1} /\ ConReg \in Machine
        /\ L = 1 => Load[1] = Rri("ori", ConReg, "zero", ins.con)
        /\ L = 2 /\ IsFloat => Load[2] = Rri("fld", ConReg, "zero", ins.con)
        /\ L = 2 /\ ~IsFloat =>
              /\ ins.con > ImmMax
              /\ Load[1] = Rri("lu12i", ConReg, "zero", ins.con - (ins.con % Low))
              /\ Load[2] = Rri("ori", ConReg, ConReg, ins.con % Low)
    BY <1>4, LoadFacts
  <2> HIDE DEF i
  <2>3. r = [reg EXCEPT ![i.d] = Alu(i)]
    BY <1>3, <2>1, <2>2 DEF i
  <2>4. OperandsIn(r)
    <3>1. OperandsIn(reg)
      BY <1>1, <1>4 DEF BinProg
    <3>2. rs1 \in Machine
      BY PlaceFacts DEF Placed
    <3>3. r[rs1] = reg[rs1]
      BY <2>2, <2>3, <3>2
    <3> QED
      BY <2>2, <3>1, <3>3 DEF OperandsIn
  <2>5. ins.con \in Word /\ ins.con \in Int /\ Wrap(ins.con) = ins.con
    <3>1. ins.con \in Word
      BY DEF IsCase
    <3>2. ins.con \in Int
      BY <3>1, WordFacts
    <3> QED
      BY <3>1, <3>2, WrapSame
  <2>6. Loaded(j + 1, r)
    <3>1. CASE L = 1
      <4>1. j = 1 /\ i = Rri("ori", ConReg, "zero", ins.con)
        BY <1>4, <2>2, <3>1 DEF i
      <4>2. i.d = ConReg /\ Alu(i) = Wrap(0 + ins.con)
        BY <4>1 DEF Rri, Alu, Src
      <4>3. r[ConReg] = ins.con
        BY <2>2, <2>3, <2>5, <4>2
      <4> QED
        BY <3>1, <4>1, <4>3 DEF Loaded
    <3>2. CASE L = 2 /\ IsFloat
      <4>1. ASSUME j = 2 PROVE r[ConReg] = ins.con
        <5>1. i = Rri("fld", ConReg, "zero", ins.con)
          BY <2>2, <3>2, <4>1 DEF i
        <5>2. i.d = ConReg /\ Alu(i) = Wrap(ins.con)
          BY <5>1 DEF Rri, Alu
        <5> QED
          BY <2>2, <2>3, <2>5, <5>2
      <4> QED
        BY <1>4, <3>2, <4>1 DEF Loaded
    <3>3. CASE L = 2 /\ ~IsFloat
      <4>1. /\ ins.con % Low \in Int /\ ins.con - (ins.con % Low) \in Word
            /\ Wrap(Wrap(ins.con - (ins.con % Low)) + (ins.con % Low)) = ins.con
        BY <2>2, <2>5, <3>3, Halves, PowerFacts
      <4>2. ASSUME j = 1 PROVE r[ConReg] = ins.con - (ins.con % Low)
        <5>1. i = Rri("lu12i", ConReg, "zero", ins.con - (ins.con % Low))
          BY <2>2, <3>3, <4>2 DEF i
        <5>2. i.d = ConReg /\ Alu(i) = Wrap(ins.con - (ins.con % Low))
          BY <5>1 DEF Rri, Alu
        <5> QED
          BY <2>2, <2>3, <4>1, <5>2, WrapSame
      <4>3. ASSUME j = 2 PROVE r[ConReg] = ins.con
        <5>1. i = Rri("ori", ConReg, ConReg, ins.con % Low)
          BY <2>2, <3>3, <4>3 DEF i
        <5>2. reg[ConReg] = ins.con - (ins.con % Low)
          BY <1>1, <3>3, <4>3 DEF BinProg, Loaded
        <5>3. ConReg # "zero"
          BY <2>2, RegisterFacts
        <5>4. i.d = ConReg /\ Alu(i) = Wrap((ins.con - (ins.con % Low)) + (ins.con % Low))
          BY <5>1, <5>2, <5>3 DEF Rri, Alu, Src
        <5> QED
          BY <2>2, <2>3, <4>1, <5>4, WrapSame
      <4> QED
        BY <1>4, <3>3, <4>2, <4>3 DEF Loaded
    <3> QED
      BY <1>1, <1>4, <3>1, <3>2, <3>3
  <2> QED
    BY <1>1, <1>4, <2>4, <2>6 DEF BinProg
<1>5. CASE j = L + 1
  <2>1. ResultCode[j] = Main /\ Main.o \in Operations /\ Main.d = MainDest /\ MainDest \in Machine
    BY <1>1, <1>5, MainFacts
  <2>2. r = [reg EXCEPT ![MainDest] = Alu(Main)]
    BY <1>3, <2>1
  <2>3. OperandsIn(reg) /\ (HasConst /\ ~Immediate => reg[ConReg] = ins.con)
    BY <1>1, <1>5 DEF BinProg, Loaded
  <2>4. Alu(Main) = Meaning
    BY <2>3, MainValue
  <2>5. r[MainDest] = Meaning
    BY <2>1, <2>2, <2>4
  <2>6. D # Spilled => r[D] = Meaning
    BY <2>5, MainFacts
  <2> QED
    BY <1>1, <1>5, <2>5, <2>6 DEF BinProg
<1>6. CASE j = L + 2
  <2>1. D = Spilled /\ ResultCode[j] = Mem(IF IsFloat THEN "fst" ELSE "st", MainDest, "d")
    BY <1>1, <1>2, <1>6
  <2>2. s = [slot EXCEPT !["d"] = reg[MainDest]]
    BY <2>1 DEF Mem, Stores
  <2>3. reg[MainDest] = Meaning /\ "d" \in Value
    BY <1>6 DEF BinProg, Value
  <2>4. s["d"] = Meaning
    BY <2>2, <2>3
  <2> QED
    BY <1>1, <1>6, <2>1, <2>4 DEF BinProg
<1> QED
  BY <1>1, <1>2, <1>4, <1>5, <1>6

-----------------------------------------------------------------------------
(***************************************************************************)
(* The code of cmpgen: the constant is loaded, the result set to 1, one or *)
(* two branches tried, the result set to 0, and the last jump taken.       *)
(***************************************************************************)
BrSeq == CASE ins.op = "EQ" -> <<"beq">>        [] ins.op = "NE" -> <<"bne">>
           [] ins.op = "GE" -> <<"bge", "beq">> [] ins.op = "LT" -> <<"blt">>
           [] ins.op = "LE" -> <<"blt", "beq">>

\* EQ with a constant compares the constant with the operand, in this order.
Turned == ins.op = "EQ" /\ HasConst
Lft    == IF Turned THEN "r21" ELSE CmpLeft
Rgt    == IF Turned THEN rs1 ELSE CmpRight
LftVal == IF Turned THEN ins.con ELSE Operand(ins.l)
RgtVal == IF Turned THEN start["x"] ELSE Operand(ins.r)

\* A branch is taken.
Holds(b, x, y) == \/ b = "beq" /\ x = y
                  \/ b = "bne" /\ x # y
                  \/ b = "bge" /\ x >= y
                  \/ b = "blt" /\ x < y

Lead == IF HasConst THEN 1 ELSE 0

CmpProg(j, r) ==
  /\ j <= Lead + Len(BrSeq) + 3
  /\ j <= Lead + Len(BrSeq) + 1 =>
       OperandsIn(r) /\ (HasConst /\ j > 1 => r["r21"] = ins.con)
  /\ j >= Lead + 2 /\ j <= Lead + Len(BrSeq) + 2 => r[D] = 1
  /\ \A k \in 1..Len(BrSeq) : j > Lead + 1 + k => ~Holds(BrSeq[k], LftVal, RgtVal)
  /\ j = Lead + Len(BrSeq) + 3 => r[D] = 0

\* The elements of a sequence in four parts.
LEMMA FourParts ==
  ASSUME NEW S, NEW p \in Seq(S), NEW q \in S, NEW t \in Seq(S), NEW u \in S, NEW w \in S
  PROVE  /\ Len(p \o <<q>> \o t \o <<u, w>>) = Len(p) + Len(t) + 3
         /\ \A k \in 1..Len(p) : (p \o <<q>> \o t \o <<u, w>>)[k] = p[k]
         /\ (p \o <<q>> \o t \o <<u, w>>)[Len(p) + 1] = q
         /\ \A k \in 1..Len(t) : (p \o <<q>> \o t \o <<u, w>>)[Len(p) + 1 + k] = t[k]
         /\ (p \o <<q>> \o t \o <<u, w>>)[Len(p) + Len(t) + 2] = u
         /\ (p \o <<q>> \o t \o <<u, w>>)[Len(p) + Len(t) + 3] = w
<1>1. /\ p \o <<q>> \in Seq(S) /\ Len(p \o <<q>>) = Len(p) + 1
      /\ \A k \in 1..Len(p) : (p \o <<q>>)[k] = p[k]
      /\ (p \o <<q>>)[Len(p) + 1] = q
  OBVIOUS
<1> DEFINE a == p \o <<q>>
<1> HIDE DEF a
<1>2. /\ a \in Seq(S) /\ Len(a) = Len(p) + 1
      /\ \A k \in 1..Len(p) : a[k] = p[k]
      /\ a[Len(p) + 1] = q
  BY <1>1 DEF a
<1>3. /\ a \o t \in Seq(S) /\ Len(a \o t) = Len(a) + Len(t)
      /\ \A k \in 1..Len(a) : (a \o t)[k] = a[k]
      /\ \A k \in 1..Len(t) : (a \o t)[Len(a) + k] = t[k]
  BY <1>2
<1> DEFINE b == a \o t
<1> HIDE DEF b
<1>4. /\ b \in Seq(S) /\ Len(b) = Len(p) + 1 + Len(t) /\ Len(p) \in Nat /\ Len(t) \in Nat
      /\ \A k \in 1..Len(p) : b[k] = p[k]
      /\ b[Len(p) + 1] = q
      /\ \A k \in 1..Len(t) : b[Len(p) + 1 + k] = t[k]
  <2>1. Len(p) \in Nat /\ Len(t) \in Nat
    OBVIOUS
  <2>2. b \in Seq(S) /\ Len(b) = Len(p) + 1 + Len(t)
    BY <1>2, <1>3 DEF b
  <2>3. \A k \in 1..Len(p) : b[k] = p[k]
    BY <1>2, <1>3, <2>1 DEF b
  <2>4. b[Len(p) + 1] = q
    BY <1>2, <1>3, <2>1 DEF b
  <2>5. \A k \in 1..Len(t) : b[Len(p) + 1 + k] = t[k]
    BY <1>2, <1>3, <2>1 DEF b
  <2> QED
    BY <2>1, <2>2, <2>3, <2>4, <2>5
<1>5. /\ <<u, w>> \in Seq(S) /\ Len(<<u, w>>) = 2 /\ <<u, w>>[1] = u /\ <<u, w>>[2] = w
  OBVIOUS
<1> DEFINE e == <<u, w>>
<1> HIDE DEF e
<1>6. e \in Seq(S) /\ Len(e) = 2 /\ e[1] = u /\ e[2] = w
  BY <1>5 DEF e
<1>7. /\ Len(b \o e) = Len(b) + 2
      /\ \A k \in 1..Len(b) : (b \o e)[k] = b[k]
      /\ (b \o e)[Len(b) + 1] = u /\ (b \o e)[Len(b) + 2] = w
  <2>1. Len(b) \in Nat
    BY <1>4
  <2>2. /\ Len(b \o e) = Len(b) + 2
        /\ \A k \in 1..(Len(b) + 2) :
             (b \o e)[k] = IF k <= Len(b) THEN b[k] ELSE e[k - Len(b)]
    <3>1. b \in Seq(S) /\ e \in Seq(S)
      BY <1>4, <1>6
    <3>2. /\ Len(b \o e) = Len(b) + Len(e)
          /\ \A k \in 1..(Len(b) + Len(e)) :
               (b \o e)[k] = IF k <= Len(b) THEN b[k] ELSE e[k - Len(b)]
      BY <3>1, ConcatProperties
    <3> QED
      BY <1>6, <3>2
  <2>3. /\ Len(b) + 1 \in 1..(Len(b) + 2) /\ ~(Len(b) + 1 <= Len(b)) /\ Len(b) + 1 - Len(b) = 1
        /\ Len(b) + 2 \in 1..(Len(b) + 2) /\ ~(Len(b) + 2 <= Len(b)) /\ Len(b) + 2 - Len(b) = 2
    BY <2>1
  <2>4. (b \o e)[Len(b) + 1] = u /\ (b \o e)[Len(b) + 2] = w
    BY <1>6, <2>2, <2>3
  <2>5. \A k \in 1..Len(b) : (b \o e)[k] = b[k]
    BY <2>1, <2>2
  <2> QED
    BY <2>2, <2>4, <2>5
<1> DEFINE c == b \o e
<1> HIDE DEF c
<1>8. /\ Len(c) = Len(p) + Len(t) + 3
      /\ \A k \in 1..Len(p) : c[k] = p[k]
      /\ c[Len(p) + 1] = q
      /\ \A k \in 1..Len(t) : c[Len(p) + 1 + k] = t[k]
      /\ c[Len(p) + Len(t) + 2] = u
      /\ c[Len(p) + Len(t) + 3] = w
  <2>1. /\ Len(c) = Len(b) + 2
        /\ \A k \in 1..Len(b) : c[k] = b[k]
        /\ c[Len(b) + 1] = u /\ c[Len(b) + 2] = w
    BY <1>7 DEF c
  <2>2. \A k \in 1..Len(p) : c[k] = p[k]
    BY <1>4, <2>1
  <2>3. c[Len(p) + 1] = q
    BY <1>4, <2>1
  <2>4. \A k \in 1..Len(t) : c[Len(p) + 1 + k] = t[k]
    BY <1>4, <2>1
  <2>5. Len(b) + 1 = Len(p) + Len(t) + 2 /\ Len(b) + 2 = Len(p) + Len(t) + 3
    BY <1>4
  <2> QED
    BY <2>1, <2>2, <2>3, <2>4, <2>5
<1>9. p \o <<q>> \o t \o <<u, w>> = c
  BY DEF a, b, c, e
<1> QED
  BY <1>8, <1>9

\* The instructions of a compare.
LEMMA CmpInstrs ==
  ASSUME IsCase(ins), Covered(ins), ~IsBinary
  PROVE  /\ Len(BrSeq) \in {1, 2} /\ \A k \in 1..Len(BrSeq) : BrSeq[k] \in Branches \ {"b"}
         /\ Len(ResultCode) = Lead + Len(BrSeq) + 3
         /\ HasConst => ResultCode[1] = Rri("addi", "r21", "zero", ins.con)
         /\ ResultCode[Lead + 1] = Rri("ori", D, "zero", 1)
         /\ \A k \in 1..Len(BrSeq) : ResultCode[Lead + 1 + k] = Jump(BrSeq[k], Lft, Rgt)
         /\ ResultCode[Lead + Len(BrSeq) + 2] = Rri("ori", D, "zero", 0)
         /\ ResultCode[Lead + Len(BrSeq) + 3] = Jump("b", "zero", "zero")
<1>1. ins.op \in {"EQ", "NE", "GE", "LT", "LE"}
  BY CoveredFacts DEF IsBinary, CmpOp
<1>2. /\ BrSeq \in Seq({"beq", "bne", "bge", "blt"}) /\ Len(BrSeq) \in {1, 2}
  <2>1. /\ <<"beq">> \in Seq({"beq", "bne", "bge", "blt"})
        /\ <<"bne">> \in Seq({"beq", "bne", "bge", "blt"})
        /\ <<"blt">> \in Seq({"beq", "bne", "bge", "blt"})
        /\ <<"bge", "beq">> \in Seq({"beq", "bne", "bge", "blt"})
        /\ <<"blt", "beq">> \in Seq({"beq", "bne", "bge", "blt"})
    BY Joined
  <2>2. CASE ins.op \in {"EQ", "NE", "LT"}
    <3>1. BrSeq = <<"beq">> \/ BrSeq = <<"bne">> \/ BrSeq = <<"blt">>
      BY <2>2 DEF BrSeq
    <3> QED
      BY <2>1, <3>1
  <2>3. CASE ins.op \in {"GE", "LE"}
    <3>1. BrSeq = <<"bge", "beq">> \/ BrSeq = <<"blt", "beq">>
      BY <2>3 DEF BrSeq
    <3> QED
      BY <2>1, <3>1
  <2> QED
    BY <1>1, <2>2, <2>3
<1>3. /\ \A k \in 1..Len(BrSeq) : BrSeq[k] \in Branches \ {"b"}
  BY <1>2 DEF Branches
<1>4. ResultCode = CmpCode(BrSeq, Lft, Rgt)
  <2>1. CASE ins.op = "EQ"
    <3>1. ~HasConst => CmpLeft = rs1 /\ CmpRight = rs2
      BY DEF HasConst, CmpLeft, CmpRight
    <3> QED
      BY <2>1, <3>1 DEF ResultCode, EqCode, BrSeq, Lft, Rgt, Turned
  <2>2. CASE ins.op # "EQ"
    BY <1>1, <2>2 DEF ResultCode, NeCode, GeCode, LtCode, LeCode, BrSeq, Lft, Rgt, Turned
  <2> QED
    BY <2>1, <2>2
<1> DEFINE taken == [k \in 1..Len(BrSeq) |-> Jump(BrSeq[k], Lft, Rgt)]
           con   == IF HasConst THEN <<Rri("addi", "r21", "zero", ins.con)>> ELSE <<>>
           one   == Rri("ori", D, "zero", 1)
           nil   == Rri("ori", D, "zero", 0)
           last  == Jump("b", "zero", "zero")
           S     == {Rri("addi", "r21", "zero", ins.con), one, nil, last}
                      \cup {Jump(BrSeq[k], Lft, Rgt) : k \in 1..Len(BrSeq)}
<1>5. /\ taken \in Seq(S) /\ Len(taken) = Len(BrSeq)
      /\ \A k \in 1..Len(BrSeq) : taken[k] = Jump(BrSeq[k], Lft, Rgt)
  <2>1. Len(BrSeq) \in Nat
    BY <1>2
  <2>2. \A k \in 1..Len(BrSeq) : Jump(BrSeq[k], Lft, Rgt) \in S
    OBVIOUS
  <2> HIDE DEF S
  <2> QED
    BY <2>1, <2>2
<1>6. one \in S /\ nil \in S /\ last \in S /\ Rri("addi", "r21", "zero", ins.con) \in S
  OBVIOUS
<1> HIDE DEF S, one, nil, last
<1>7. con \in Seq(S) /\ Len(con) = Lead /\ (HasConst => con[1] = Rri("addi", "r21", "zero", ins.con))
  BY <1>6 DEF Lead
<1>8. ResultCode = con \o <<one>> \o taken \o <<nil, last>>
  BY <1>4 DEF CmpCode, one, nil, last
<1> HIDE DEF con, taken
<1>9. /\ Len(ResultCode) = Len(con) + Len(taken) + 3
      /\ \A k \in 1..Len(con) : ResultCode[k] = con[k]
      /\ ResultCode[Len(con) + 1] = one
      /\ \A k \in 1..Len(taken) : ResultCode[Len(con) + 1 + k] = taken[k]
      /\ ResultCode[Len(con) + Len(taken) + 2] = nil
      /\ ResultCode[Len(con) + Len(taken) + 3] = last
  <2> DEFINE R == con \o <<one>> \o taken \o <<nil, last>>
  <2>1. /\ Len(R) = Len(con) + Len(taken) + 3
        /\ \A k \in 1..Len(con) : R[k] = con[k]
        /\ R[Len(con) + 1] = one
        /\ \A k \in 1..Len(taken) : R[Len(con) + 1 + k] = taken[k]
        /\ R[Len(con) + Len(taken) + 2] = nil
        /\ R[Len(con) + Len(taken) + 3] = last
    <3>1. con \in Seq(S) /\ one \in S /\ taken \in Seq(S) /\ nil \in S /\ last \in S
      BY <1>5, <1>6, <1>7
    <3> QED
      BY <3>1, FourParts, SMTT(30)
  <2>2. ResultCode = R
    BY <1>8
  <2> HIDE DEF R
  <2> QED
    BY <2>1, <2>2
<1>10. HasConst => ResultCode[1] = Rri("addi", "r21", "zero", ins.con)
  BY <1>7, <1>9 DEF Lead
<1> QED
  BY <1>2, <1>3, <1>5, <1>7, <1>9, <1>10 DEF one, nil, last

\* The two sides of the compare are where the branches look for them, and the
\* result and the constant are elsewhere.
LEMMA CmpPlaces ==
  ASSUME IsCase(ins), Covered(ins), ~IsBinary, Placed
  PROVE  /\ rs1 \in Machine /\ rs1 # D /\ rs1 # "r21" /\ D \in Machine /\ D # "r21"
         /\ "r21" \in Machine
         /\ ~HasConst => rs2 \in Machine /\ rs2 # D
         /\ Lft \in Machine /\ Rgt \in Machine
<1>1. /\ HasConst => Ops = {"x"}
      /\ HasConst => ins.l = "con" \/ ins.r = "con"
      /\ ~HasConst => "y" \in Ops /\ ins.l = "x" /\ ins.r = "y"
      /\ D # Spilled
      /\ ins.op \in CmpOp
  BY CoveredFacts DEF IsBinary
<1>2. D \in Regs /\ D \notin Scratch \cup FScratch /\ D \in Machine
  <2>1. D \in Regs
    BY <1>1, RegisterFacts DEF D, Value
  <2> QED
    BY <2>1, InstrSelectAssumption DEF Machine
<1>3. "r21" \in Machine /\ D # "r21"
  BY <1>2 DEF Machine, Scratch
<1>4. rs1 \in Machine /\ rs1 # D /\ rs1 # "r21"
  <2>1. CASE ins.op = "EQ" /\ HasConst
    <3>1. D # Home("x")
      BY <1>1, <2>1 DEF Covered, HasCode, D, Home, HasConst, CmpOp
    <3>2. Home("x") = Spilled \/ Home("x") \in Regs
      BY RegisterFacts DEF Value
    <3>3. rs1 \in {"r23", "ft9"} \/ (rs1 = Home("x") /\ Home("x") # Spilled)
      <4>1. /\ "x" \in Ops /\ Sc("x") \in {"r23", "ft9"} /\ rs1 = Place("x")
            /\ \A v \in Ops :
                 /\ FetchOf(v) = <<>> => Place(v) = Home(v) /\ Home(v) # Spilled
                 /\ FetchOf(v) # <<>> => Place(v) = Sc(v)
        BY <2>1, PlaceFacts DEF Placed
      <4> QED
        BY <4>1
    <3>4. "r21" \notin Regs
      BY InstrSelectAssumption DEF Scratch
    <3>5. rs1 \in Machine
      BY PlaceFacts DEF Placed
    <3> QED
      BY <1>2, <3>1, <3>2, <3>3, <3>4, <3>5 DEF Scratch, FScratch
  <2>2. CASE ~(ins.op = "EQ" /\ HasConst)
    <3>1. rs1 = Sc("x") /\ Sc("x") \in {"r23", "r24", "ft9"}
      BY <1>1, <2>2, PlaceFacts DEF Placed
    <3> QED
      BY <1>2, <3>1 DEF Machine, Scratch, FScratch
  <2> QED
    BY <2>1, <2>2
<1>5. ~HasConst => rs2 \in Machine /\ rs2 # D
  <2> SUFFICES ASSUME ~HasConst PROVE rs2 \in Machine /\ rs2 # D
    OBVIOUS
  <2>1. rs2 = Sc("y") /\ Sc("y") = "r24"
    BY <1>1, PlaceFacts DEF Placed
  <2> QED
    BY <1>2, <2>1 DEF Machine, Scratch
<1>6. Lft \in Machine /\ Rgt \in Machine
  BY <1>1, <1>3, <1>4, <1>5 DEF Lft, Rgt, CmpLeft, CmpRight, HasConst
<1> QED
  BY <1>2, <1>3, <1>4, <1>5, <1>6

\* The sides as the branches read them.
LEMMA CmpSides ==
  ASSUME IsCase(ins), Covered(ins), ~IsBinary, Placed, OperandsIn(reg),
         HasConst => reg["r21"] = ins.con
  PROVE  Src(Lft) = LftVal /\ Src(Rgt) = RgtVal
<1>1. Lft \in Machine /\ Rgt \in Machine
  BY CmpPlaces
<1>2. "zero" \notin Machine
  BY RegisterFacts
<1>3. Src(Lft) = reg[Lft] /\ Src(Rgt) = reg[Rgt]
  BY <1>1, <1>2 DEF Src
<1>4. /\ HasConst => \/ ins.l = "con" /\ ins.r = "x"
                     \/ ins.l = "x" /\ ins.r = "con"
      /\ ~HasConst => ins.l = "x" /\ ins.r = "y"
  BY CoveredFacts
<1>5. reg[Lft] = LftVal /\ reg[Rgt] = RgtVal
  BY <1>4 DEF Lft, Rgt, CmpLeft, CmpRight, LftVal, RgtVal, Turned, Operand, OperandsIn
<1> QED
  BY <1>3, <1>5

\* The compare holds exactly when one of the branches does.
LEMMA CmpMeaning ==
  ASSUME IsCase(ins), Covered(ins), ~IsBinary, start \in [Value \ {"d"} -> Word]
  PROVE  Meaning = IF \E k \in 1..Len(BrSeq) : Holds(BrSeq[k], LftVal, RgtVal) THEN 1 ELSE 0
<1>1. ins.op \in {"EQ", "NE", "GE", "LT", "LE"}
  BY CoveredFacts DEF IsBinary, CmpOp
<1> DEFINE a == Operand(ins.l)
           b == Operand(ins.r)
<1>2. a \in Int /\ b \in Int
  <2>1. start["x"] \in Word /\ start["y"] \in Word /\ ins.con \in Word
    BY DEF Value, IsCase
  <2>2. ins.l \in {"x", "y", "con"} /\ ins.r \in {"x", "y", "con"}
    BY DEF IsCase
  <2> QED
    BY <2>1, <2>2, WordFacts DEF Operand
<1>3. /\ Turned => (LftVal = b /\ RgtVal = a) \/ (LftVal = a /\ RgtVal = b)
      /\ ~Turned => LftVal = a /\ RgtVal = b
  BY CoveredFacts DEF Turned, LftVal, RgtVal, Operand
<1> HIDE DEF a, b
<1>4. CASE ins.op = "EQ"
  <2>1. BrSeq = <<"beq">> /\ Meaning = IF a = b THEN 1 ELSE 0
    BY <1>4 DEF BrSeq, Meaning, a, b
  <2>2. Len(BrSeq) = 1 /\ BrSeq[1] = "beq"
    BY <2>1
  <2>3. Holds("beq", LftVal, RgtVal) <=> a = b
    BY <1>3 DEF Holds
  <2> QED
    BY <2>1, <2>2, <2>3
<1>5. CASE ins.op \in {"NE", "LT"}
  <2>1. LftVal = a /\ RgtVal = b
    BY <1>3, <1>5 DEF Turned
  <2>2. /\ BrSeq = <<IF ins.op = "NE" THEN "bne" ELSE "blt">>
        /\ Meaning = IF ins.op = "NE" THEN (IF a # b THEN 1 ELSE 0) ELSE (IF a < b THEN 1 ELSE 0)
    BY <1>5 DEF BrSeq, Meaning, a, b
  <2>3. Len(BrSeq) = 1 /\ BrSeq[1] = IF ins.op = "NE" THEN "bne" ELSE "blt"
    BY <2>2
  <2>4. (Holds("bne", a, b) <=> a # b) /\ (Holds("blt", a, b) <=> a < b)
    BY DEF Holds
  <2> QED
    BY <1>5, <2>1, <2>2, <2>3, <2>4
<1>6. CASE ins.op \in {"GE", "LE"}
  <2>1. LftVal = a /\ RgtVal = b
    BY <1>3, <1>6 DEF Turned
  <2>2. /\ BrSeq = <<IF ins.op = "GE" THEN "bge" ELSE "blt", "beq">>
        /\ Meaning = IF ins.op = "GE" THEN (IF a >= b THEN 1 ELSE 0) ELSE (IF a <= b THEN 1 ELSE 0)
    BY <1>6 DEF BrSeq, Meaning, a, b
  <2>3. /\ Len(BrSeq) = 2 /\ BrSeq[1] = IF ins.op = "GE" THEN "bge" ELSE "blt"
        /\ BrSeq[2] = "beq"
    BY <2>2
  <2>4. /\ Holds("bge", a, b) <=> a >= b
        /\ Holds("blt", a, b) <=> a < b
        /\ Holds("beq", a, b) <=> a = b
    BY DEF Holds
  <2>5. (a >= b <=> a >= b \/ a = b) /\ (a <= b <=> a < b \/ a = b)
    BY <1>2
  <2> QED
    BY <1>6, <2>1, <2>2, <2>3, <2>4, <2>5
<1> QED
  BY <1>1, <1>4, <1>5, <1>6

\* One instruction of a compare: a branch ends the run at the right block, with
\* the right result; anything else brings it one further.
LEMMA CmpStep ==
  ASSUME IsCase(ins), Covered(ins), ~IsBinary, reg \in [Machine -> Word],
         start \in [Value \ {"d"} -> Word], Placed,
         NEW j \in 1..Len(ResultCode), CmpProg(j, reg)
  PROVE  LET i == ResultCode[j] IN
         /\ i.o \notin Stores
         /\ i.o \in Branches /\ Taken(i) =>
              /\ Meaning = (IF i.o = "b" THEN 0 ELSE 1)
              /\ reg[D] = Meaning
         /\ i.o \in Branches /\ ~Taken(i) => CmpProg(j + 1, reg)
         /\ i.o \notin Branches \cup Stores => CmpProg(j + 1, [reg EXCEPT ![i.d] = Alu(i)])
<1> DEFINE n == Len(BrSeq)
           h == Lead
           i == ResultCode[j]
<1>1. /\ n \in {1, 2} /\ \A k \in 1..n : BrSeq[k] \in Branches \ {"b"}
      /\ Len(ResultCode) = h + n + 3
      /\ HasConst => ResultCode[1] = Rri("addi", "r21", "zero", ins.con)
      /\ ResultCode[h + 1] = Rri("ori", D, "zero", 1)
      /\ \A k \in 1..n : ResultCode[h + 1 + k] = Jump(BrSeq[k], Lft, Rgt)
      /\ ResultCode[h + n + 2] = Rri("ori", D, "zero", 0)
      /\ ResultCode[h + n + 3] = Jump("b", "zero", "zero")
  BY CmpInstrs
<1>2. h \in {0, 1} /\ (h = 1 <=> HasConst)
  BY DEF Lead
<1>3. /\ rs1 \in Machine /\ rs1 # D /\ rs1 # "r21" /\ D \in Machine /\ D # "r21"
      /\ "r21" \in Machine
      /\ ~HasConst => rs2 \in Machine /\ rs2 # D
  BY CmpPlaces
<1>4. Meaning = IF \E k \in 1..n : Holds(BrSeq[k], LftVal, RgtVal) THEN 1 ELSE 0
  BY CmpMeaning
<1>5. /\ j <= h + n + 1 => OperandsIn(reg) /\ (HasConst /\ j > 1 => reg["r21"] = ins.con)
      /\ j >= h + 2 /\ j <= h + n + 2 => reg[D] = 1
      /\ \A k \in 1..n : j > h + 1 + k => ~Holds(BrSeq[k], LftVal, RgtVal)
      /\ j = h + n + 3 => reg[D] = 0
  BY DEF CmpProg
<1>6. \A m : CmpProg(j + 1, m) <=>
        /\ j + 1 <= h + n + 3
        /\ j + 1 <= h + n + 1 => OperandsIn(m) /\ (HasConst /\ j + 1 > 1 => m["r21"] = ins.con)
        /\ j + 1 >= h + 2 /\ j + 1 <= h + n + 2 => m[D] = 1
        /\ \A k \in 1..n : j + 1 > h + 1 + k => ~Holds(BrSeq[k], LftVal, RgtVal)
        /\ j + 1 = h + n + 3 => m[D] = 0
  BY DEF CmpProg
<1> HIDE DEF n, h, i
<1>7. /\ Wrap(0 + 0) = 0 /\ Wrap(0 + 1) = 1 /\ Wrap(0 + ins.con) = ins.con
  <2>1. 0 \in Word /\ 1 \in Word /\ ins.con \in Word
    BY WordFacts DEF IsCase
  <2>2. 0 + 0 = 0 /\ 0 + 1 = 1 /\ 0 + ins.con = ins.con
    <3>1. ins.con \in Int
      BY <2>1, WordFacts
    <3> QED
      BY <3>1
  <2> QED
    BY <2>1, <2>2, WrapSame
<1>8. "addi" \notin Branches \cup Stores /\ "ori" \notin Branches \cup Stores
      /\ Branches \cap Stores = {} /\ "b" \in Branches
  BY DEF Branches, Stores
<1>9. CASE j = 1 /\ h = 1
  <2>1. i = Rri("addi", "r21", "zero", ins.con)
    BY <1>1, <1>2, <1>9 DEF i
  <2>2. i.o = "addi" /\ i.d = "r21" /\ Alu(i) = ins.con
    BY <1>7, <2>1 DEF Rri, Alu, Src
  <2> DEFINE m == [reg EXCEPT !["r21"] = ins.con]
  <2>3. m["r21"] = ins.con /\ OperandsIn(m)
    <3>1. OperandsIn(reg) /\ HasConst
      BY <1>1, <1>2, <1>5, <1>9
    <3> QED
      BY <1>3, <3>1 DEF OperandsIn
  <2> HIDE DEF m
  <2>4. CmpProg(j + 1, m)
    BY <1>1, <1>2, <1>6, <1>9, <2>3
  <2> QED
    BY <1>8, <2>2, <2>4 DEF i, m
<1>10. CASE j = h + 1
  <2>1. i = Rri("ori", D, "zero", 1)
    BY <1>1, <1>10 DEF i
  <2>2. i.o = "ori" /\ i.d = D /\ Alu(i) = 1
    BY <1>7, <2>1 DEF Rri, Alu, Src
  <2> DEFINE m == [reg EXCEPT ![D] = 1]
  <2>3. m[D] = 1 /\ OperandsIn(m) /\ (HasConst => m["r21"] = ins.con)
    <3>1. OperandsIn(reg) /\ (HasConst => reg["r21"] = ins.con)
      BY <1>1, <1>2, <1>5, <1>10
    <3> QED
      BY <1>3, <3>1 DEF OperandsIn
  <2> HIDE DEF m
  <2>4. CmpProg(j + 1, m)
    BY <1>1, <1>2, <1>6, <1>10, <2>3
  <2> QED
    BY <1>8, <2>2, <2>4 DEF i, m
<1>11. ASSUME NEW k \in 1..n, j = h + 1 + k
       PROVE  /\ i.o \in Branches \ {"b"}
              /\ Taken(i) => Meaning = 1 /\ reg[D] = 1
              /\ ~Taken(i) => CmpProg(j + 1, reg)
  <2>1. i = Jump(BrSeq[k], Lft, Rgt) /\ BrSeq[k] \in Branches \ {"b"}
    BY <1>1, <1>11 DEF i
  <2>2. OperandsIn(reg) /\ (HasConst => reg["r21"] = ins.con) /\ reg[D] = 1
    BY <1>1, <1>2, <1>5, <1>11
  <2>3. Src(Lft) = LftVal /\ Src(Rgt) = RgtVal
    BY <2>2, CmpSides
  <2>4. i.o \in Branches \ {"b"} /\ (Taken(i) <=> Holds(BrSeq[k], LftVal, RgtVal))
    <3>1. i.o = BrSeq[k] /\ i.a = Lft /\ i.b = Rgt
      BY <2>1 DEF Jump
    <3> QED
      BY <2>1, <2>3, <3>1 DEF Taken, Holds, Branches
  <2>5. Taken(i) => Meaning = 1
    BY <1>4, <2>4
  <2>6. ASSUME ~Taken(i) PROVE CmpProg(j + 1, reg)
    <3>1. \A q \in 1..n : j + 1 > h + 1 + q => ~Holds(BrSeq[q], LftVal, RgtVal)
      <4> SUFFICES ASSUME NEW q \in 1..n, j + 1 > h + 1 + q
                   PROVE  ~Holds(BrSeq[q], LftVal, RgtVal)
        OBVIOUS
      <4>1. q = k \/ j > h + 1 + q
        BY <1>1, <1>2, <1>11
      <4> QED
        BY <1>5, <2>4, <2>6, <4>1
    <3>2. /\ j + 1 <= h + n + 3 /\ j + 1 # h + n + 3
      BY <1>1, <1>2, <1>11
    <3> QED
      BY <1>6, <2>2, <3>1, <3>2
  <2> QED
    BY <2>2, <2>4, <2>5, <2>6
<1>12. CASE \E k \in 1..n : j = h + 1 + k
  <2>1. PICK k \in 1..n : j = h + 1 + k
    BY <1>12
  <2>2. /\ i.o \in Branches \ {"b"}
        /\ Taken(i) => Meaning = 1 /\ reg[D] = 1
        /\ ~Taken(i) => CmpProg(j + 1, reg)
    BY <1>11, <2>1
  <2> QED
    BY <1>8, <2>2 DEF i
<1>13. CASE j = h + n + 2
  <2>1. i = Rri("ori", D, "zero", 0)
    BY <1>1, <1>13 DEF i
  <2>2. i.o = "ori" /\ i.d = D /\ Alu(i) = 0
    BY <1>7, <2>1 DEF Rri, Alu, Src
  <2> DEFINE m == [reg EXCEPT ![D] = 0]
  <2>3. m[D] = 0
    BY <1>3
  <2> HIDE DEF m
  <2>4. \A q \in 1..n : ~Holds(BrSeq[q], LftVal, RgtVal)
    BY <1>1, <1>2, <1>5, <1>13
  <2>5. CmpProg(j + 1, m)
    BY <1>1, <1>2, <1>6, <1>13, <2>3, <2>4
  <2> QED
    BY <1>8, <2>2, <2>5 DEF i, m
<1>14. CASE j = h + n + 3
  <2>1. i = Jump("b", "zero", "zero")
    BY <1>1, <1>14 DEF i
  <2>2. i.o = "b" /\ Taken(i)
    BY <2>1 DEF Jump, Taken
  <2>3. \A q \in 1..n : ~Holds(BrSeq[q], LftVal, RgtVal)
    BY <1>1, <1>2, <1>5, <1>14
  <2>4. Meaning = 0 /\ reg[D] = 0
    BY <1>4, <1>5, <1>14, <2>3
  <2> QED
    BY <1>8, <2>2, <2>4 DEF i
<1>15. \/ j = 1 /\ h = 1
       \/ j = h + 1
       \/ \E k \in 1..n : j = h + 1 + k
       \/ j = h + n + 2
       \/ j = h + n + 3
  <2>1. j \in 1..(h + n + 3)
    BY <1>1
  <2>2. CASE j > h + 1 /\ j < h + n + 2
    <3>1. j - h - 1 \in 1..n /\ j = h + 1 + (j - h - 1)
      BY <1>1, <1>2, <2>1, <2>2
    <3> QED
      BY <3>1
  <2> QED
    BY <1>1, <1>2, <2>1, <2>2
<1> QED
  BY <1>9, <1>10, <1>12, <1>13, <1>14, <1>15

-----------------------------------------------------------------------------
(***************************************************************************)
(* The invariant.                                                          *)
(***************************************************************************)

\* What the loop over duChain_list_ has done.
GenInv ==
  /\ IsCase(ins) /\ Covered(ins) /\ InOrder(ins)
  /\ phase \in {"select", "run", "done"}
  /\ phase \in {"run", "done"} => pos = Len(ins.list) + 1
  /\ Seen("x") => rs1 = Place("x")
  /\ "y" \in Ops /\ Seen("y") => rs2 = Place("y")
  /\ ~Seen("d") => Brought(Len(output))
  /\ Seen("d") => /\ Base \in Nat /\ Brought(Base)
                  /\ \A k \in 1..Len(ResultCode) : output[Base + k] = ResultCode[k]

\* In the registers r and slots s all values but the result are in their places,
\* and the operands that the first n instructions bring have arrived.
UntouchedIn(r, s) ==
  \A v \in Value \ {"d"} : (IF Home(v) = Spilled THEN s[v] ELSE r[Home(v)]) = start[v]
ArrivedIn(r, n) ==
  \A v \in Ops : (\E k \in 1..n : Brings(output[k], v)) => r[Sc(v)] = start[v]

Prog(j, r, s) == IF IsBinary THEN BinProg(j, r, s) ELSE CmpProg(j, r)

\* What the machine has done.
ExecInv ==
  /\ phase = "select" => ip = 1
  /\ phase = "select" \/ ip <= Base + 1 => UntouchedIn(reg, slot) /\ ArrivedIn(reg, ip - 1)
  /\ phase = "run" /\ ip > Base => Prog(ip - Base, reg, slot)
  /\ phase = "done" => ValueComputed /\ BranchRight

VInv == SInv /\ GenInv /\ ExecInv

\* The operands come before the result.
LEMMA SeenFacts ==
  ASSUME IsCase(ins), InOrder(ins), pos \in 1..(Len(ins.list) + 1)
  PROVE  /\ Seen("d") => \A v \in Ops : Seen(v)
         /\ pos = Len(ins.list) + 1 => Seen("d")
<1>1. Len(ins.list) \in Nat
  BY ListLength
<1>2. \A v \in Ops : \E k \in 1..Len(ins.list) : ins.list[k] = v
  BY DEF IsCase, Ops
<1>3. \E k \in 1..Len(ins.list) : ins.list[k] = "d"
  BY DEF IsCase
<1>4. ASSUME Seen("d"), NEW v \in Ops PROVE Seen(v)
  <2>1. PICK k \in 1..(pos - 1) : ins.list[k] = "d"
    BY <1>4 DEF Seen
  <2>2. PICK j \in 1..Len(ins.list) : ins.list[j] = v
    BY <1>2, <1>4
  <2>3. k \in 1..Len(ins.list) /\ ins.list[j] \in {ins.l, ins.r}
    BY <1>1, <2>1, <2>2 DEF Ops
  <2>4. j < k
    BY <2>1, <2>2, <2>3 DEF InOrder
  <2>5. j \in 1..(pos - 1)
    BY <1>1, <2>1, <2>2, <2>4
  <2> QED
    BY <2>2, <2>5 DEF Seen
<1>5. pos = Len(ins.list) + 1 => Seen("d")
  <2> SUFFICES ASSUME pos = Len(ins.list) + 1 PROVE Seen("d")
    OBVIOUS
  <2>1. pos - 1 = Len(ins.list)
    BY <1>1
  <2> QED
    BY <1>3, <2>1 DEF Seen
<1> QED
  BY <1>4, <1>5

\* When the operands have been brought the code of the result can start.
LEMMA StartProg ==
  ASSUME IsCase(ins), Covered(ins), Placed, Brought(Base), Base \in Nat, \A v \in Ops : Seen(v),
         NEW r, NEW s, UntouchedIn(r, s), ArrivedIn(r, Base)
  PROVE  Prog(1, r, s) /\ Len(ResultCode) >= 1
<1>1. ASSUME NEW v \in Ops PROVE r[Place(v)] = start[v]
  <2>1. v \in Value \ {"d"}
    BY PlaceFacts DEF Value
  <2>2. CASE FetchOf(v) = <<>>
    <3>1. Place(v) = Home(v) /\ Home(v) # Spilled
      BY <2>2, PlaceFacts
    <3> QED
      BY <2>1, <3>1 DEF UntouchedIn
  <2>3. CASE FetchOf(v) # <<>>
    <3>1. Place(v) = Sc(v)
      BY <2>3, PlaceFacts
    <3>2. \E k \in 1..Base : Brings(output[k], v)
      BY <2>3 DEF Brought
    <3> QED
      BY <3>1, <3>2 DEF ArrivedIn
  <2> QED
    BY <2>2, <2>3
<1>2. OperandsIn(r)
  <2>1. "x" \in Ops /\ (~HasConst => "y" \in Ops)
    BY PlaceFacts, CoveredFacts
  <2> QED
    BY <1>1, <2>1 DEF OperandsIn, Placed
<1>3. CASE IsBinary
  <2>1. Len(Load) \in 0..2 /\ Len(ResultCode) = Len(Load) + 1 + (IF D # Spilled THEN 0 ELSE 1)
    BY <1>3, BinaryCode
  <2>2. HasConst /\ ~Immediate => Len(Load) # 0
    BY DEF Load, LoadCon
  <2>3. Loaded(1, r)
    BY <2>1, <2>2 DEF Loaded
  <2>4. BinProg(1, r, s)
    BY <1>2, <2>1, <2>3 DEF BinProg
  <2> QED
    BY <1>3, <2>1, <2>4 DEF Prog
<1>4. CASE ~IsBinary
  <2>1. Len(BrSeq) \in {1, 2} /\ Len(ResultCode) = Lead + Len(BrSeq) + 3 /\ Lead \in {0, 1}
    BY <1>4, CmpInstrs DEF Lead
  <2>2. CmpProg(1, r)
    BY <1>2, <2>1 DEF CmpProg
  <2> QED
    BY <1>4, <2>1, <2>2 DEF Prog
<1> QED
  BY <1>3, <1>4

\* An instruction that brings an operand.
LEMMA BringStep ==
  ASSUME IsCase(ins), Covered(ins), reg \in [Machine -> Word], slot \in [Value -> Word],
         NEW n \in Nat, \E v \in Ops : Brings(output[n + 1], v),
         UntouchedIn(reg, slot), ArrivedIn(reg, n)
  PROVE  LET i == output[n + 1]
             r == [reg EXCEPT ![i.d] = Alu(i)]
         IN  /\ i.o \notin Branches \cup Stores
             /\ UntouchedIn(r, slot) /\ ArrivedIn(r, n + 1)
<1> DEFINE i == output[n + 1]
           r == [reg EXCEPT ![i.d] = Alu(i)]
<1>1. ASSUME NEW v \in Ops, Brings(i, v)
      PROVE  i.o \in {"ld", "or"} /\ i.d = Sc(v) /\ Alu(i) = start[v]
  <2>1. \/ Home(v) = Spilled /\ i = Mem("ld", Sc(v), v)
        \/ Home(v) # Spilled /\ i = Rrr("or", Sc(v), "zero", Home(v))
    BY <1>1 DEF Brings, FetchOf, Fetch
  <2>2. v \in Value \ {"d"}
    BY PlaceFacts DEF Value
  <2>3. Home(v) # "zero"
    <3>1. Home(v) = Spilled \/ Home(v) \in Machine
      BY <2>2, RegisterFacts
    <3>2. "zero" # Spilled /\ "zero" \notin Machine
      BY RegisterFacts DEF Spilled
    <3> QED
      BY <3>1, <3>2
  <2>4. CASE Home(v) = Spilled /\ i = Mem("ld", Sc(v), v)
    <3>1. i.o = "ld" /\ i.d = Sc(v) /\ i.v = v
      BY <2>4 DEF Mem
    <3>2. Alu(i) = slot[v]
      BY <3>1 DEF Alu
    <3> QED
      BY <2>2, <2>4, <3>1, <3>2 DEF UntouchedIn
  <2>5. CASE Home(v) # Spilled /\ i = Rrr("or", Sc(v), "zero", Home(v))
    <3>1. i.o = "or" /\ i.d = Sc(v) /\ i.b = Home(v)
      BY <2>5 DEF Rrr
    <3>2. Alu(i) = reg[Home(v)]
      BY <2>3, <3>1 DEF Alu, Src
    <3> QED
      BY <2>2, <2>5, <3>1, <3>2 DEF UntouchedIn
  <2> QED
    BY <2>1, <2>4, <2>5
<1>2. PICK v \in Ops : Brings(i, v)
  OBVIOUS
<1>3. i.o \in {"ld", "or"} /\ i.d = Sc(v) /\ Alu(i) = start[v]
  BY <1>1, <1>2
<1>4. Sc(v) \in {"r23", "r24", "ft9"} /\ Sc(v) \in Machine /\ Sc(v) \notin Regs
  <2>1. Sc(v) \in {"r23", "r24", "ft9"}
    BY PlaceFacts
  <2> QED
    BY <2>1, InstrSelectAssumption DEF Machine, Scratch, FScratch
<1> HIDE DEF i
<1>5. /\ r[Sc(v)] = start[v]
      /\ \A q \in Machine : q # Sc(v) => r[q] = reg[q]
  BY <1>3, <1>4
<1> HIDE DEF r
<1>6. UntouchedIn(r, slot)
  <2>1. \A u \in Value : Home(u) # Spilled => Home(u) \in Regs /\ Home(u) \in Machine
    BY RegisterFacts DEF Machine
  <2>2. \A u \in Value : Home(u) # Spilled => r[Home(u)] = reg[Home(u)]
    BY <1>4, <1>5, <2>1
  <2> QED
    BY <2>2 DEF UntouchedIn
<1>7. ArrivedIn(r, n + 1)
  <2> SUFFICES ASSUME NEW u \in Ops, NEW k \in 1..(n + 1), Brings(output[k], u)
               PROVE  r[Sc(u)] = start[u]
    BY DEF ArrivedIn
  <2>1. CASE k = n + 1
    <3>1. Sc(u) = Sc(v) /\ start[u] = start[v]
      <4>1. i.d = Sc(u) /\ Alu(i) = start[u]
        BY <1>1, <2>1 DEF i
      <4> QED
        BY <1>3, <4>1
    <3> QED
      BY <1>5, <3>1
  <2>2. CASE k # n + 1
    <3>1. k \in 1..n
      BY <2>2
    <3>2. reg[Sc(u)] = start[u]
      BY <3>1 DEF ArrivedIn
    <3>3. CASE u = v
      BY <1>5, <3>3
    <3>4. CASE u # v
      <4>1. u \in {"x", "y"} /\ v \in {"x", "y"} /\ "y" \in Ops
        BY <3>4, PlaceFacts
      <4>2. Sc("x") = "r23" /\ Sc("y") = "r24"
        BY <4>1, PlaceFacts
      <4>3. Sc(u) # Sc(v) /\ Sc(u) \in Machine
        BY <3>4, <4>1, <4>2 DEF Machine, Scratch
      <4> QED
        BY <1>5, <3>2, <4>3
    <3> QED
      BY <3>3, <3>4
  <2> QED
    BY <2>1, <2>2
<1>8. i.o \notin Branches \cup Stores
  BY <1>3 DEF Branches, Stores
<1> QED
  BY <1>6, <1>7, <1>8 DEF i, r

-----------------------------------------------------------------------------
\* What depends on the instruction alone.
LEMMA SameIns ==
  ASSUME ins' = ins, start' = start
  PROVE  /\ HasConst' = HasConst /\ IsFloat' = IsFloat /\ IsBinary' = IsBinary /\ Ops' = Ops
         /\ D' = D /\ Meaning' = Meaning /\ \A v : Home(v)' = Home(v)
         /\ \A v : Sc(v)' = Sc(v) /\ Place(v)' = Place(v) /\ FetchOf(v)' = FetchOf(v)
         /\ Covered(ins)' = Covered(ins) /\ InOrder(ins)' = InOrder(ins)
<1>1. /\ HasConst' = HasConst /\ IsFloat' = IsFloat /\ IsBinary' = IsBinary /\ Ops' = Ops
      /\ D' = D /\ \A v : Home(v)' = Home(v)
  BY DEF HasConst, IsFloat, IsBinary, Ops, D, Home
<1>2. Operand(ins.l)' = Operand(ins.l) /\ Operand(ins.r)' = Operand(ins.r)
  BY DEF Operand
<1>3. Meaning' = Meaning
  BY <1>2 DEF Meaning
<1>4. CopiesOperand' = CopiesOperand
  BY <1>1 DEF CopiesOperand
<1>5. \A v : Sc(v)' = Sc(v)
  BY <1>1 DEF Sc, OperandScratch, IsFirst
<1>6. \A v : Place(v)' = Place(v) /\ FetchOf(v)' = FetchOf(v)
  BY <1>1, <1>4, <1>5 DEF Place, Fetched, FetchOf, Fetch
<1>7. Covered(ins)' = Covered(ins) /\ InOrder(ins)' = InOrder(ins)
  OBVIOUS
<1> QED
  BY <1>1, <1>3, <1>5, <1>6, <1>7

\* What depends on the instruction and the places of its operands.
LEMMA SameCode ==
  ASSUME ins' = ins, start' = start, rs1' = rs1, rs2' = rs2
  PROVE  /\ Immediate' = Immediate /\ ConReg' = ConReg /\ Load' = Load /\ MainDest' = MainDest
         /\ ResultCode' = ResultCode
         /\ BrSeq' = BrSeq /\ Lead' = Lead /\ LftVal' = LftVal /\ RgtVal' = RgtVal
<1>1. /\ HasConst' = HasConst /\ IsFloat' = IsFloat /\ D' = D
  BY SameIns
<1>2. Small' = Small
  BY DEF Small
<1>3. /\ Immediate' = Immediate /\ ConReg' = ConReg /\ MainDest' = MainDest
      /\ BrSeq' = BrSeq /\ Lead' = Lead
  BY <1>1, <1>2 DEF Immediate, ConReg, MainDest, BrSeq, Lead
<1>4. LftVal' = LftVal /\ RgtVal' = RgtVal
  BY <1>1 DEF LftVal, RgtVal, Turned, Operand
<1>5. \A r : LoadCon(r)' = LoadCon(r)
  BY DEF LoadCon
<1>6. Load' = Load
  <2>1. LoadCon(ConReg)' = LoadCon(ConReg)
    BY <1>3 DEF LoadCon
  <2> QED
    BY <1>1, <1>2, <1>3, <2>1 DEF Load
<1>7. Dest' = Dest /\ StoreBack' = StoreBack
  BY <1>1 DEF Dest, StoreBack
<1>8. AddCode' = AddCode /\ SubCode' = SubCode
  BY <1>1, <1>2, <1>5, <1>7 DEF AddCode, SubCode
<1>9. MulCode' = MulCode /\ DivCode' = DivCode
  BY <1>1, <1>2, <1>5, <1>7 DEF MulCode, DivCode
<1>10. /\ FAddCode' = FAddCode /\ FSubCode' = FSubCode
       /\ FMulCode' = FMulCode /\ FDivCode' = FDivCode
  BY <1>1, <1>7 DEF FAddCode, FSubCode, FMulCode, FDivCode, FloatCode
<1>11. CmpLeft' = CmpLeft /\ CmpRight' = CmpRight
  BY DEF CmpLeft, CmpRight
<1>12. EqCode' = EqCode /\ NeCode' = NeCode /\ GtCode' = GtCode
  BY <1>1, <1>11 DEF EqCode, NeCode, GtCode, CmpCode
<1>13. GeCode' = GeCode /\ LtCode' = LtCode /\ LeCode' = LeCode
  BY <1>1, <1>11 DEF GeCode, LtCode, LeCode, CmpCode
<1>14. ResultCode' = ResultCode
  BY <1>8, <1>9, <1>10, <1>12, <1>13 DEF ResultCode
<1> QED
  BY <1>3, <1>4, <1>6, <1>14

\* The start.
LEMMA InitValues == Init /\ Covered(ins) => VInv
<1> SUFFICES ASSUME Init, Covered(ins) PROVE VInv
  OBVIOUS
<1>1. SInv
  BY InitKept
<1>2. Covered(ins) /\ InOrder(ins)
  BY DEF Covered, HasCode
<1>3. pos = 1 /\ phase = "select" /\ output = <<>> /\ ip = 1
  BY DEF Init
<1>4. \A v : ~Seen(v)
  BY <1>3 DEF Seen
<1>5. Brought(Len(output))
  BY <1>3, <1>4 DEF Brought
<1>6. GenInv
  BY <1>1, <1>2, <1>3, <1>4, <1>5 DEF GenInv, SInv, TypeOK
<1>7. UntouchedIn(reg, slot)
  BY InitPlaces DEF UntouchedIn, Where
<1>8. ArrivedIn(reg, ip - 1)
  BY <1>3 DEF ArrivedIn
<1>9. ExecInv
  BY <1>3, <1>7, <1>8 DEF ExecInv
<1> QED
  BY <1>1, <1>6, <1>9 DEF VInv

\* While code is generated the machine stands still.
LEMMA SelectExec ==
  ASSUME ExecInv, phase = "select", phase' = "select", ins' = ins, start' = start,
         reg' = reg, slot' = slot, ip' = ip
  PROVE  ExecInv'
<1>1. ip = 1 /\ UntouchedIn(reg, slot)
  BY DEF ExecInv
<1>2. UntouchedIn(reg, slot)'
  BY <1>1, SameIns DEF UntouchedIn
<1>3. ArrivedIn(reg, ip - 1)'
  BY <1>1 DEF ArrivedIn
<1> QED
  BY <1>1, <1>2, <1>3 DEF ExecInv

\* What the loop sees next.
LEMMA SeenNext ==
  ASSUME pos \in Nat \ {0}, pos' = pos + 1, ins' = ins
  PROVE  \A v : Seen(v)' <=> Seen(v) \/ v = ins.list[pos]
<1> SUFFICES ASSUME NEW v PROVE Seen(v)' <=> Seen(v) \/ v = ins.list[pos]
  OBVIOUS
<1>1. pos' - 1 = pos
  OBVIOUS
<1>2. Seen(v)' <=> \E k \in 1..pos : ins.list[k] = v
  BY <1>1 DEF Seen
<1>3. 1..pos = (1..(pos - 1)) \cup {pos}
  OBVIOUS
<1> QED
  BY <1>2, <1>3 DEF Seen

\* An entry for an operand.
LEMMA OperandValues == VInv /\ ScanOperand => VInv'
<1> SUFFICES ASSUME VInv, ScanOperand PROVE VInv'
  OBVIOUS
<1>1. SInv'
  BY ScanOperandStep DEF VInv
<1> DEFINE v == ins.list[pos]
<1>2. /\ phase = "select" /\ phase' = phase /\ pos' = pos + 1 /\ pos <= Len(ins.list)
      /\ output' = output \o FetchOf(v)
      /\ rs1' = IF SetsFirst(v) THEN Place(v) ELSE rs1
      /\ rs2' = IF SetsFirst(v) THEN rs2 ELSE Place(v)
      /\ v # "d" /\ v \in {ins.l, ins.r}
      /\ ins' = ins /\ start' = start /\ reg' = reg /\ slot' = slot /\ ip' = ip
  BY DEF ScanOperand, NextEntry, FetchOf, Place, Sc
<1>3. /\ IsCase(ins) /\ Covered(ins) /\ InOrder(ins) /\ pos \in 1..(Len(ins.list) + 1)
      /\ output \in Seq(Emitted)
  BY DEF VInv, SInv, TypeOK, GenInv
<1>4. pos \in 1..Len(ins.list) /\ pos \in Nat \ {0} /\ v \in Value
  <2>1. Len(ins.list) \in Nat /\ ins.list \in Seq(Value)
    BY <1>3, ListLength DEF IsCase
  <2> QED
    BY <1>2, <1>3, <2>1
<1>5. v \in Ops
  BY <1>2, <1>4 DEF Ops, Value
<1> HIDE DEF v
<1>6. \A u : Seen(u)' <=> Seen(u) \/ u = v
  BY <1>2, <1>4, SeenNext DEF v
<1>7. ~Seen("d") /\ ~Seen("d")'
  <2>1. ~Seen("d")
    <3> SUFFICES ASSUME Seen("d") PROVE FALSE
      OBVIOUS
    <3>1. PICK k \in 1..(pos - 1) : ins.list[k] = "d"
      BY DEF Seen
    <3>2. k \in 1..Len(ins.list) /\ k < pos
      BY <1>3, <1>4, <3>1, ListLength
    <3>3. pos < k
      BY <1>2, <1>3, <1>4, <3>1, <3>2 DEF InOrder, v
    <3> QED
      BY <1>4, <3>2, <3>3
  <2> QED
    BY <1>2, <1>6, <2>1
<1>8. /\ \A u : Place(u)' = Place(u) /\ FetchOf(u)' = FetchOf(u)
      /\ Ops' = Ops /\ Covered(ins)' /\ InOrder(ins)' /\ IsCase(ins)'
  BY <1>2, <1>3, SameIns
<1>9. /\ Seen("x")' => rs1' = Place("x")'
      /\ "y" \in Ops' /\ Seen("y")' => rs2' = Place("y")'
  <2>1. /\ Seen("x") => rs1 = Place("x")
        /\ "y" \in Ops /\ Seen("y") => rs2 = Place("y")
    BY DEF VInv, GenInv
  <2>2. CASE v = "x"
    <3>1. SetsFirst("x")
      BY <1>3, CoveredFacts
    <3> QED
      BY <1>2, <1>6, <1>8, <2>1, <2>2, <3>1
  <2>3. CASE v = "y"
    <3>1. ~SetsFirst("y")
      BY <1>3, <1>5, <2>3, CoveredFacts
    <3> QED
      BY <1>2, <1>6, <1>8, <2>1, <2>3, <3>1
  <2> QED
    BY <1>3, <1>5, <2>2, <2>3, PlaceFacts
<1>10. Brought(Len(output))'
  <2>1. /\ \A k \in 1..Len(output) : \E u \in Ops : FetchOf(u) = <<output[k]>>
        /\ \A u \in Ops : /\ Seen(u) /\ FetchOf(u) # <<>>
                          => \E k \in 1..Len(output) : FetchOf(u) = <<output[k]>>
    BY <1>7 DEF VInv, GenInv, Brought, Brings
  <2>2. FetchOf(v) = <<>> \/ \E i \in Emitted : FetchOf(v) = <<i>>
    <3>1. Sc(v) \in Scratch \cup FScratch
      BY <1>3, <1>5, PlaceFacts DEF Scratch, FScratch
    <3>2. FetchOf(v) \in Seq(Emitted)
      BY <1>3, <1>4, <3>1, FetchEmitted DEF FetchOf
    <3>3. FetchOf(v) = <<>> \/ \E i : FetchOf(v) = <<i>>
      BY DEF FetchOf, Fetch
    <3> HIDE DEF Emitted
    <3>4. ASSUME NEW i, FetchOf(v) = <<i>> PROVE i \in Emitted
      <4>1. <<i>> \in Seq(Emitted) /\ Len(<<i>>) = 1 /\ <<i>>[1] = i
        BY <3>2, <3>4
      <4> QED
        BY <4>1, ElementOfSeq
    <3> QED
      BY <3>3, <3>4
  <2> HIDE DEF Emitted
  <2>3. /\ \A k \in 1..Len(output') : \E u \in Ops : FetchOf(u) = <<output'[k]>>
        /\ \A u \in Ops : /\ (Seen(u) \/ u = v) /\ FetchOf(u) # <<>>
                          => \E k \in 1..Len(output') : FetchOf(u) = <<output'[k]>>
    <3>1. CASE FetchOf(v) = <<>>
      <4>1. output' = output
        BY <1>2, <1>3, <3>1
      <4> QED
        BY <2>1, <3>1, <4>1
    <3>2. CASE \E i \in Emitted : FetchOf(v) = <<i>>
      <4>1. PICK i \in Emitted : FetchOf(v) = <<i>>
        BY <3>2
      <4>2. /\ Len(output') = Len(output) + 1 /\ Len(output) \in Nat
            /\ \A k \in 1..Len(output) : output'[k] = output[k]
            /\ output'[Len(output) + 1] = i
        <5>1. output' = output \o <<i>>
          BY <1>2, <4>1
        <5> QED
          BY <1>3, <5>1
      <4>3. ASSUME NEW k \in 1..Len(output') PROVE \E u \in Ops : FetchOf(u) = <<output'[k]>>
        <5>1. k \in 1..Len(output) \/ k = Len(output) + 1
          BY <4>2
        <5> QED
          BY <1>5, <2>1, <4>1, <4>2, <5>1
      <4>4. ASSUME NEW u \in Ops, Seen(u) \/ u = v, FetchOf(u) # <<>>
            PROVE  \E k \in 1..Len(output') : FetchOf(u) = <<output'[k]>>
        <5>1. CASE u = v
          <6>1. Len(output) + 1 \in 1..Len(output') /\ FetchOf(u) = <<output'[Len(output) + 1]>>
            BY <4>1, <4>2, <5>1
          <6> QED
            BY <6>1
        <5>2. CASE Seen(u)
          <6>1. PICK k \in 1..Len(output) : FetchOf(u) = <<output[k]>>
            BY <2>1, <4>4, <5>2
          <6>2. k \in 1..Len(output') /\ FetchOf(u) = <<output'[k]>>
            BY <4>2, <6>1
          <6> QED
            BY <6>2
        <5> QED
          BY <4>4, <5>1, <5>2
      <4> QED
        BY <4>3, <4>4
    <3> QED
      BY <2>2, <3>1, <3>2
  <2> QED
    BY <1>6, <1>8, <2>3 DEF Brought, Brings
<1>11. GenInv'
  BY <1>2, <1>7, <1>8, <1>9, <1>10 DEF GenInv
<1>12. ExecInv'
  BY <1>2, SelectExec DEF VInv
<1> QED
  BY <1>1, <1>11, <1>12 DEF VInv

\* The account of the run is the same in terms of the next state.
LEMMA SameProg ==
  ASSUME ins' = ins, start' = start, rs1' = rs1, rs2' = rs2, output' = output
  PROVE  /\ Base' = Base
         /\ Prog(ip - Base, reg, slot)' = Prog(ip' - Base, reg', slot')
<1>1. /\ HasConst' = HasConst /\ IsFloat' = IsFloat /\ IsBinary' = IsBinary
      /\ D' = D /\ Meaning' = Meaning
  BY SameIns
<1>2. /\ Immediate' = Immediate /\ ConReg' = ConReg /\ Load' = Load /\ MainDest' = MainDest
      /\ ResultCode' = ResultCode
      /\ BrSeq' = BrSeq /\ Lead' = Lead /\ LftVal' = LftVal /\ RgtVal' = RgtVal
  BY SameCode
<1>3. Base' = Base
  BY <1>2 DEF Base
<1>4. BinProg(ip - Base, reg, slot)' = BinProg(ip' - Base, reg', slot')
  BY <1>1, <1>2, <1>3 DEF BinProg, OperandsIn, Loaded
<1>5. CmpProg(ip - Base, reg)' = CmpProg(ip' - Base, reg')
  BY <1>1, <1>2, <1>3 DEF CmpProg, OperandsIn
<1> QED
  BY <1>1, <1>3, <1>4, <1>5 DEF Prog

\* The entry for the result.
LEMMA ResultValues == VInv /\ ScanResult => VInv'
<1> SUFFICES ASSUME VInv, ScanResult PROVE VInv'
  OBVIOUS
<1>1. SInv'
  BY ScanResultStep DEF VInv
<1>2. /\ IsCase(ins) /\ Covered(ins) /\ InOrder(ins) /\ pos \in 1..(Len(ins.list) + 1)
      /\ output \in Seq(Emitted) /\ {rs1, rs2} \subseteq Machine \cup {None}
  BY DEF VInv, SInv, TypeOK, GenInv
<1>3. ~(NeedsRegister /\ D = Spilled)
  BY <1>2, CoveredFacts
<1>4. /\ phase = "select" /\ phase' = phase /\ pos' = pos + 1 /\ pos <= Len(ins.list)
      /\ ins.list[pos] = "d" /\ output' = output \o ResultCode
      /\ ins' = ins /\ start' = start /\ rs1' = rs1 /\ rs2' = rs2
      /\ reg' = reg /\ slot' = slot /\ ip' = ip
  BY <1>3 DEF ScanResult, NextEntry
<1>5. pos \in 1..Len(ins.list) /\ pos \in Nat \ {0}
  BY <1>2, <1>4, ListLength
<1>6. \A u : Seen(u)' <=> Seen(u) \/ u = "d"
  BY <1>4, <1>5, SeenNext
<1>7. ~Seen("d")
  <2> SUFFICES ASSUME Seen("d") PROVE FALSE
    OBVIOUS
  <2>1. PICK k \in 1..(pos - 1) : ins.list[k] = "d"
    BY DEF Seen
  <2>2. k \in 1..Len(ins.list) /\ k # pos
    BY <1>2, <1>5, <2>1, ListLength
  <2> QED
    BY <1>2, <1>4, <1>5, <2>1, <2>2 DEF IsCase
<1>8. /\ \A u : Place(u)' = Place(u) /\ FetchOf(u)' = FetchOf(u)
      /\ Ops' = Ops /\ Covered(ins)' /\ InOrder(ins)' /\ IsCase(ins)'
      /\ ResultCode' = ResultCode
  BY <1>2, <1>4, SameIns, SameCode
<1>9. "d" # "x" /\ "d" # "y" /\ "d" \notin Ops
  BY <1>2, PlaceFacts
<1>10. /\ Seen("x")' => rs1' = Place("x")'
       /\ "y" \in Ops' /\ Seen("y")' => rs2' = Place("y")'
  BY <1>4, <1>6, <1>8, <1>9 DEF VInv, GenInv
<1>11. /\ Base' = Len(output) /\ Len(output) \in Nat
       /\ \A k \in 1..Len(output) : output'[k] = output[k]
       /\ \A k \in 1..Len(ResultCode) : output'[Len(output) + k] = ResultCode[k]
  <2>1. rs1 \in Source /\ rs2 \in Source
    BY <1>2 DEF Source
  <2>2. ResultCode \in Seq(Emitted)
    BY <1>2, <1>3, <2>1, ResultEmitted
  <2> HIDE DEF Emitted
  <2>3. /\ Len(output') = Len(output) + Len(ResultCode)
        /\ Len(output) \in Nat /\ Len(ResultCode) \in Nat
        /\ \A k \in 1..Len(output) : output'[k] = output[k]
        /\ \A k \in 1..Len(ResultCode) : output'[Len(output) + k] = ResultCode[k]
    BY <1>2, <1>4, <2>2
  <2> QED
    BY <1>8, <2>3 DEF Base
<1>12. Brought(Base)'
  <2>1. /\ \A k \in 1..Len(output) : \E u \in Ops : FetchOf(u) = <<output[k]>>
        /\ \A u \in Ops : /\ Seen(u) /\ FetchOf(u) # <<>>
                          => \E k \in 1..Len(output) : FetchOf(u) = <<output[k]>>
    BY <1>7 DEF VInv, GenInv, Brought, Brings
  <2>2. /\ \A k \in 1..Base' : \E u \in Ops : FetchOf(u) = <<output'[k]>>
        /\ \A u \in Ops : /\ Seen(u) /\ FetchOf(u) # <<>>
                          => \E k \in 1..Base' : FetchOf(u) = <<output'[k]>>
    BY <1>11, <2>1
  <2> QED
    BY <1>6, <1>8, <1>9, <2>2 DEF Brought, Brings
<1>13. \A k \in 1..Len(ResultCode') : output'[Base' + k] = ResultCode'[k]
  BY <1>8, <1>11
<1>14. GenInv'
  BY <1>4, <1>6, <1>8, <1>10, <1>11, <1>12, <1>13 DEF GenInv
<1>15. ExecInv'
  BY <1>4, SelectExec DEF VInv
<1> QED
  BY <1>1, <1>14, <1>15 DEF VInv

\* What has been done when neither the code nor the places change and nothing that
\* matters is seen.
LEMMA GenSame ==
  ASSUME GenInv, ins' = ins, start' = start, rs1' = rs1, rs2' = rs2, output' = output,
         \A u \in Ops \cup {"d"} : Seen(u)' <=> Seen(u),
         phase' \in {"select", "run", "done"},
         phase' \in {"run", "done"} => pos' = Len(ins.list) + 1
  PROVE  GenInv'
<1>1. /\ \A u : Place(u)' = Place(u) /\ FetchOf(u)' = FetchOf(u)
      /\ Ops' = Ops /\ Covered(ins)' /\ InOrder(ins)' /\ IsCase(ins)'
      /\ ResultCode' = ResultCode
  BY SameIns, SameCode DEF GenInv
<1>2. Base' = Base
  BY <1>1 DEF Base
<1>3. "x" \in Ops
  BY PlaceFacts DEF GenInv
<1>4. /\ Seen("x")' => rs1' = Place("x")'
      /\ "y" \in Ops' /\ Seen("y")' => rs2' = Place("y")'
  BY <1>1, <1>3 DEF GenInv
<1>5. ~Seen("d")' => Brought(Len(output))'
  BY <1>1 DEF GenInv, Brought, Brings
<1>6. Seen("d")' => /\ Base' \in Nat /\ Brought(Base)'
                    /\ \A k \in 1..Len(ResultCode') : output'[Base' + k] = ResultCode'[k]
  BY <1>1, <1>2 DEF GenInv, Brought, Brings
<1> QED
  BY <1>1, <1>4, <1>5, <1>6 DEF GenInv

\* Any other entry.
LEMMA OtherValues == VInv /\ ScanOther => VInv'
<1> SUFFICES ASSUME VInv, ScanOther PROVE VInv'
  OBVIOUS
<1>1. SInv'
  BY ScanOtherStep DEF VInv
<1>2. /\ phase = "select" /\ phase' = phase /\ pos' = pos + 1 /\ pos <= Len(ins.list)
      /\ ins.list[pos] \notin {"d", ins.l, ins.r} /\ output' = output
      /\ ins' = ins /\ start' = start /\ rs1' = rs1 /\ rs2' = rs2
      /\ reg' = reg /\ slot' = slot /\ ip' = ip
  BY DEF ScanOther, NextEntry
<1>3. pos \in Nat \ {0}
  <2>1. IsCase(ins) /\ pos \in 1..(Len(ins.list) + 1)
    BY DEF VInv, SInv, TypeOK
  <2> QED
    BY <2>1, ListLength
<1>4. \A u \in Ops \cup {"d"} : Seen(u)' <=> Seen(u)
  <2>1. \A u : Seen(u)' <=> Seen(u) \/ u = ins.list[pos]
    BY <1>2, <1>3, SeenNext
  <2>2. ins.list[pos] \notin Ops \cup {"d"}
    BY <1>2 DEF Ops
  <2> QED
    BY <2>1, <2>2
<1>5. GenInv'
  BY <1>2, <1>4, GenSame DEF VInv
<1>6. ExecInv'
  BY <1>2, SelectExec DEF VInv
<1> QED
  BY <1>1, <1>5, <1>6 DEF VInv

\* What holds when the code is complete.
LEMMA Complete ==
  ASSUME VInv, pos = Len(ins.list) + 1
  PROVE  /\ IsCase(ins) /\ Covered(ins) /\ Placed /\ \A v \in Ops : Seen(v)
         /\ Base \in Nat /\ Brought(Base) /\ Len(output) = Base + Len(ResultCode)
         /\ Len(ResultCode) \in Nat
         /\ \A k \in 1..Len(ResultCode) : output[Base + k] = ResultCode[k]
<1>1. /\ IsCase(ins) /\ Covered(ins) /\ InOrder(ins) /\ pos \in 1..(Len(ins.list) + 1)
      /\ output \in Seq(Emitted)
  BY DEF VInv, SInv, TypeOK, GenInv
<1>2. Seen("d") /\ \A v \in Ops : Seen(v)
  BY <1>1, SeenFacts
<1>3. Placed
  <2>1. "x" \in Ops
    BY <1>1, PlaceFacts
  <2> QED
    BY <1>2, <2>1 DEF VInv, GenInv, Placed
<1>4. /\ Base \in Nat /\ Brought(Base)
      /\ \A k \in 1..Len(ResultCode) : output[Base + k] = ResultCode[k]
  BY <1>2 DEF VInv, GenInv
<1>5. Len(ResultCode) \in Nat
  <2>1. CASE IsBinary
    BY <1>1, <2>1, BinaryCode
  <2>2. CASE ~IsBinary
    BY <1>1, <2>2, CmpInstrs DEF Lead
  <2> QED
    BY <2>1, <2>2
<1>6. Len(output) = Base + Len(ResultCode)
  <2>1. Len(output) \in Nat
    BY <1>1
  <2> QED
    BY <1>5, <2>1 DEF Base
<1> QED
  BY <1>1, <1>2, <1>3, <1>4, <1>5, <1>6

\* The assembler accepts the code, which by Accepted is all it can do.
LEMMA AssembleValues == VInv /\ Assemble /\ Accepted' => VInv'
<1> SUFFICES ASSUME VInv, Assemble, Accepted' PROVE VInv'
  OBVIOUS
<1>1. SInv'
  BY AssembleStep DEF VInv
<1>2. pos = Len(ins.list) + 1
  <2>1. IsCase(ins) /\ pos \in 1..(Len(ins.list) + 1) /\ pos > Len(ins.list)
    BY DEF VInv, SInv, TypeOK, Assemble
  <2> QED
    BY <2>1, ListLength
<1>3. /\ IsCase(ins) /\ Covered(ins) /\ Placed /\ \A v \in Ops : Seen(v)
      /\ Base \in Nat /\ Brought(Base) /\ Len(output) = Base + Len(ResultCode)
      /\ Len(ResultCode) \in Nat
      /\ \A k \in 1..Len(ResultCode) : output[Base + k] = ResultCode[k]
  BY <1>2, Complete
<1>4. phase' = "run"
  <2>1. phase' \in {"run", "rejected"} /\ ins' = ins
    BY DEF Assemble
  <2>2. HasCode(ins)
    BY <1>3 DEF Covered
  <2> QED
    BY <2>1, <2>2 DEF Accepted
<1>5. /\ ins' = ins /\ start' = start /\ rs1' = rs1 /\ rs2' = rs2 /\ pos' = pos
      /\ output' = output /\ ip' = ip /\ reg' = reg /\ slot' = slot
      /\ phase = "select" /\ phase' = "run"
  BY <1>4 DEF Assemble
<1>6. \A u : Seen(u)' <=> Seen(u)
  BY <1>5 DEF Seen
<1>7. GenInv'
  BY <1>2, <1>5, <1>6, GenSame DEF VInv
<1>8. /\ Base' = Base /\ Ops' = Ops /\ \A u : FetchOf(u)' = FetchOf(u) /\ Sc(u)' = Sc(u)
      /\ \A u : Home(u)' = Home(u)
  BY <1>5, SameIns, SameCode DEF Base
<1>9. ip = 1 /\ UntouchedIn(reg, slot) /\ ArrivedIn(reg, ip - 1)
  BY <1>5 DEF VInv, ExecInv
<1>10. UntouchedIn(reg, slot)' /\ ArrivedIn(reg, ip - 1)'
  BY <1>5, <1>8, <1>9 DEF UntouchedIn, ArrivedIn, Brings
<1>11. ip > Base => Prog(ip - Base, reg, slot)
  <2> SUFFICES ASSUME ip > Base PROVE Prog(ip - Base, reg, slot)
    OBVIOUS
  <2>1. Base = 0 /\ ip - Base = 1 /\ ip - 1 = Base
    BY <1>3, <1>9
  <2>2. Prog(1, reg, slot)
    BY <1>3, <1>9, <2>1, StartProg
  <2> QED
    BY <2>1, <2>2
<1>12. ip' > Base' => Prog(ip - Base, reg, slot)'
  BY <1>5, <1>8, <1>11, SameProg
<1>13. ExecInv'
  BY <1>5, <1>10, <1>12 DEF ExecInv
<1> QED
  BY <1>1, <1>7, <1>13 DEF VInv

\* binarygen emits no branch.
LEMMA BinNoBranch ==
  ASSUME IsCase(ins), Covered(ins), IsBinary, Placed, NEW j \in 1..Len(ResultCode)
  PROVE  ResultCode[j].o \notin Branches
<1> DEFINE L == Len(Load)
<1>1. /\ L \in 0..2
      /\ Len(ResultCode) = L + 1 + (IF D # Spilled THEN 0 ELSE 1)
      /\ \A k \in 1..L : ResultCode[k] = Load[k]
      /\ ResultCode[L + 1] = Main
      /\ D = Spilled => ResultCode[L + 2] = Mem(IF IsFloat THEN "fst" ELSE "st", MainDest, "d")
  BY BinaryCode
<1>2. Operations \cap Branches = {} /\ "st" \notin Branches /\ "fst" \notin Branches
  BY DEF Operations, Branches
<1>3. CASE j \in 1..L
  BY <1>1, <1>2, <1>3, LoadFacts
<1>4. CASE j = L + 1
  BY <1>1, <1>2, <1>4, MainFacts
<1>5. CASE j = L + 2 /\ D = Spilled
  BY <1>1, <1>2, <1>5 DEF Mem
<1> QED
  BY <1>1, <1>3, <1>4, <1>5

\* The code of the result is not empty.
LEMMA SomeCode ==
  ASSUME IsCase(ins), Covered(ins)
  PROVE  Len(ResultCode) \in Nat \ {0}
<1>1. CASE IsBinary
  BY <1>1, BinaryCode
<1>2. CASE ~IsBinary
  BY <1>2, CmpInstrs DEF Lead
<1> QED
  BY <1>1, <1>2

\* One instruction.
LEMMA ExecuteValues == VInv /\ Execute => VInv'
<1> SUFFICES ASSUME VInv, Execute PROVE VInv'
  OBVIOUS
<1>1. SInv'
  BY ExecuteStep DEF VInv
<1> DEFINE i == output[ip]
<1>2. /\ ins' = ins /\ start' = start /\ pos' = pos /\ rs1' = rs1 /\ rs2' = rs2
      /\ output' = output /\ ip' = ip + 1 /\ phase = "run" /\ ip <= Len(output)
  BY DEF Execute
<1>3. \/ /\ i.o \in Branches /\ reg' = reg /\ slot' = slot
         /\ IF Taken(i)
            THEN target' = (IF i.o = "b" THEN "false" ELSE "true") /\ phase' = "done"
            ELSE phase' = "run"
      \/ /\ i.o \in Stores /\ reg' = reg
         /\ slot' = [slot EXCEPT ![i.v] = reg[i.d]] /\ phase' = "run"
      \/ /\ i.o \notin Branches \cup Stores /\ slot' = slot
         /\ reg' = [reg EXCEPT ![i.d] = Alu(i)] /\ phase' = "run"
  BY <1>2 DEF Execute, Stores
<1>4. pos = Len(ins.list) + 1
  BY <1>2 DEF VInv, GenInv
<1>5. /\ IsCase(ins) /\ Covered(ins) /\ Placed /\ \A v \in Ops : Seen(v)
      /\ Base \in Nat /\ Brought(Base) /\ Len(output) = Base + Len(ResultCode)
      /\ Len(ResultCode) \in Nat
      /\ \A k \in 1..Len(ResultCode) : output[Base + k] = ResultCode[k]
  BY <1>4, Complete
<1>6. /\ reg \in [Machine -> Word] /\ slot \in [Value -> Word]
      /\ start \in [Value \ {"d"} -> Word] /\ ip \in Nat \ {0}
  <2>1. /\ reg \in [Machine -> Word] /\ slot \in [Value -> Word]
        /\ start \in [Value \ {"d"} -> Word] /\ ip \in 1..(Len(output) + 1)
    BY DEF VInv, SInv, TypeOK
  <2> QED
    BY <1>5, <2>1
<1>7. \A u : Seen(u)' <=> Seen(u)
  BY <1>2 DEF Seen
<1>8. GenInv'
  <2>1. phase' \in {"run", "done"}
    BY <1>3
  <2> QED
    BY <1>2, <1>4, <1>7, <2>1, GenSame DEF VInv
<1>9. /\ Base' = Base
      /\ Prog(ip - Base, reg, slot)' = Prog(ip' - Base, reg', slot')
  BY <1>2, SameProg
<1>10. /\ Ops' = Ops /\ \A u : FetchOf(u)' = FetchOf(u) /\ Sc(u)' = Sc(u)
       /\ \A u : Home(u)' = Home(u)
       /\ D' = D /\ Meaning' = Meaning /\ IsBinary' = IsBinary
  BY <1>2, SameIns
<1> HIDE DEF i
<1>11. CASE ip <= Base
  <2>1. UntouchedIn(reg, slot) /\ ArrivedIn(reg, ip - 1)
    BY <1>5, <1>6, <1>11 DEF VInv, ExecInv
  <2>2. \E v \in Ops : Brings(output[(ip - 1) + 1], v)
    <3>1. (ip - 1) + 1 = ip /\ ip \in 1..Base
      BY <1>5, <1>6, <1>11
    <3> QED
      BY <1>5, <3>1 DEF Brought
  <2>3. /\ i.o \notin Branches \cup Stores
        /\ UntouchedIn([reg EXCEPT ![i.d] = Alu(i)], slot)
        /\ ArrivedIn([reg EXCEPT ![i.d] = Alu(i)], ip)
    <3>1. ip - 1 \in Nat /\ (ip - 1) + 1 = ip
      BY <1>6
    <3> DEFINE m == ip - 1
               e == output[m + 1]
    <3> HIDE DEF m
    <3>2. /\ m \in Nat /\ m + 1 = ip /\ (\E v \in Ops : Brings(output[m + 1], v))
          /\ ArrivedIn(reg, m)
      BY <2>1, <2>2, <3>1 DEF m
    <3>3. /\ e.o \notin Branches \cup Stores
          /\ UntouchedIn([reg EXCEPT ![e.d] = Alu(e)], slot)
          /\ ArrivedIn([reg EXCEPT ![e.d] = Alu(e)], m + 1)
      BY <1>5, <1>6, <2>1, <3>2, BringStep
    <3> QED
      BY <3>2, <3>3 DEF i
  <2>4. /\ reg' = [reg EXCEPT ![i.d] = Alu(i)] /\ slot' = slot /\ phase' = "run"
    BY <1>3, <2>3
  <2>5. UntouchedIn(reg', slot') /\ ArrivedIn(reg', ip)
    BY <2>3, <2>4
  <2>6. UntouchedIn(reg, slot)' /\ ArrivedIn(reg, ip - 1)'
    <3>1. ip' - 1 = ip
      BY <1>2, <1>6
    <3>2. UntouchedIn(reg, slot)'
      BY <1>2, <1>10, <2>5 DEF UntouchedIn
    <3>3. ArrivedIn(reg, ip - 1)'
      BY <1>2, <1>10, <2>5, <3>1 DEF ArrivedIn, Brings
    <3> QED
      BY <3>2, <3>3
  <2>7. ip' > Base' => Prog(ip - Base, reg, slot)'
    <3> SUFFICES ASSUME ip' > Base' PROVE Prog(ip - Base, reg, slot)'
      OBVIOUS
    <3>1. ip = Base /\ ip' - Base = 1
      BY <1>2, <1>5, <1>6, <1>9, <1>11
    <3>2. Prog(1, reg', slot')
      BY <1>5, <2>5, <3>1, StartProg
    <3> QED
      BY <1>9, <3>1, <3>2
  <2>8. ExecInv'
    BY <2>4, <2>6, <2>7 DEF ExecInv
  <2> QED
    BY <1>1, <1>8, <2>8 DEF VInv
<1>12. CASE ip > Base
  <2> DEFINE j == ip - Base
  <2>1. /\ j \in 1..Len(ResultCode) /\ ip = Base + j /\ ip' - Base = j + 1
        /\ ~(ip' <= Base' + 1)
    BY <1>2, <1>5, <1>6, <1>9, <1>12
  <2>2. i = ResultCode[j]
    BY <1>5, <2>1 DEF i
  <2>3. Prog(j, reg, slot)
    BY <1>2, <1>12 DEF VInv, ExecInv
  <2> HIDE DEF j
  <2>4. CASE IsBinary
    <3>1. BinProg(j, reg, slot)
      BY <2>3, <2>4 DEF Prog
    <3>2. i.o \notin Branches
      BY <1>5, <2>1, <2>2, <2>4, BinNoBranch
    <3>3. /\ phase' = "run"
          /\ \/ i.o \in Stores /\ reg' = reg /\ slot' = [slot EXCEPT ![i.v] = reg[i.d]]
             \/ /\ i.o \notin Branches \cup Stores /\ slot' = slot
                /\ reg' = [reg EXCEPT ![i.d] = Alu(i)]
      BY <1>3, <3>2
    <3>4. BinProg(j + 1, reg', slot')
      BY <1>5, <1>6, <2>1, <2>2, <2>4, <3>1, <3>3, BinStep
    <3>5. Prog(ip - Base, reg, slot)'
      BY <1>9, <2>1, <2>4, <3>4 DEF Prog
    <3>6. ExecInv'
      BY <2>1, <3>3, <3>5 DEF ExecInv
    <3> QED
      BY <1>1, <1>8, <3>6 DEF VInv
  <2>5. CASE ~IsBinary
    <3>1. CmpProg(j, reg)
      BY <2>3, <2>5 DEF Prog
    <3>2. /\ i.o \notin Stores
          /\ i.o \in Branches /\ Taken(i) =>
              /\ Meaning = (IF i.o = "b" THEN 0 ELSE 1)
              /\ reg[D] = Meaning
          /\ i.o \in Branches /\ ~Taken(i) => CmpProg(j + 1, reg)
          /\ i.o \notin Branches \cup Stores => CmpProg(j + 1, [reg EXCEPT ![i.d] = Alu(i)])
      BY <1>5, <1>6, <2>1, <2>2, <2>5, <3>1, CmpStep
    <3>3. CASE i.o \in Branches /\ Taken(i)
      <4>1. /\ reg' = reg /\ phase' = "done"
            /\ target' = (IF i.o = "b" THEN "false" ELSE "true")
        BY <1>3, <3>3 DEF Branches, Stores
      <4>2. D # Spilled /\ ins.op \in CmpOp
        BY <1>5, <2>5, CoveredFacts DEF IsBinary
      <4>3. Where("d")' = reg[D]
        BY <1>2, <1>10, <4>1, <4>2 DEF Where, D
      <4>4. BranchRight' /\ ValueComputed'
        BY <1>2, <1>10, <3>2, <3>3, <4>1, <4>2, <4>3 DEF BranchRight, ValueComputed
      <4>5. ExecInv'
        BY <2>1, <4>1, <4>4 DEF ExecInv
      <4> QED
        BY <1>1, <1>8, <4>5 DEF VInv
    <3>4. CASE ~(i.o \in Branches /\ Taken(i))
      <4>1. phase' = "run" /\ CmpProg(j + 1, reg')
        BY <1>3, <3>2, <3>4
      <4>2. Prog(ip - Base, reg, slot)'
        BY <1>9, <2>1, <2>5, <4>1 DEF Prog
      <4>3. ExecInv'
        BY <2>1, <4>1, <4>2 DEF ExecInv
      <4> QED
        BY <1>1, <1>8, <4>3 DEF VInv
    <3> QED
      BY <3>3, <3>4
  <2> QED
    BY <2>4, <2>5
<1> QED
  BY <1>5, <1>6, <1>11, <1>12

\* The end of the code.
LEMMA FallThroughValues == VInv /\ FallThrough => VInv'
<1> SUFFICES ASSUME VInv, FallThrough PROVE VInv'
  OBVIOUS
<1>1. SInv'
  BY FallThroughStep DEF VInv
<1>2. /\ ins' = ins /\ start' = start /\ pos' = pos /\ rs1' = rs1 /\ rs2' = rs2
      /\ output' = output /\ ip' = ip /\ reg' = reg /\ slot' = slot
      /\ phase = "run" /\ phase' = "done" /\ ip > Len(output)
  BY DEF FallThrough
<1>3. pos = Len(ins.list) + 1
  BY <1>2 DEF VInv, GenInv
<1>4. /\ IsCase(ins) /\ Covered(ins) /\ Base \in Nat /\ Len(output) = Base + Len(ResultCode)
      /\ Len(ResultCode) \in Nat \ {0}
  BY <1>3, Complete, SomeCode
<1>5. ip \in 1..(Len(output) + 1)
  BY DEF VInv, SInv, TypeOK
<1>6. ip - Base = Len(ResultCode) + 1 /\ ip > Base /\ ~(ip <= Base + 1)
  BY <1>2, <1>4, <1>5
<1>7. Prog(Len(ResultCode) + 1, reg, slot)
  BY <1>2, <1>6 DEF VInv, ExecInv
<1>8. IsBinary
  <2> SUFFICES ASSUME ~IsBinary PROVE FALSE
    OBVIOUS
  <2>1. CmpProg(Len(ResultCode) + 1, reg)
    BY <1>7 DEF Prog
  <2>2. Len(ResultCode) = Lead + Len(BrSeq) + 3 /\ Len(BrSeq) \in {1, 2} /\ Lead \in {0, 1}
    BY <1>4, CmpInstrs DEF Lead
  <2> QED
    BY <2>1, <2>2 DEF CmpProg
<1>9. Where("d") = Meaning
  <2>1. BinProg(Len(ResultCode) + 1, reg, slot)
    BY <1>7, <1>8 DEF Prog
  <2> QED
    BY <2>1 DEF BinProg, Where, D
<1>10. /\ Base' = Base /\ D' = D /\ Meaning' = Meaning /\ \A u : Home(u)' = Home(u)
  BY <1>2, SameIns, SameProg
<1>11. Where("d")' = Meaning'
  BY <1>2, <1>9, <1>10 DEF Where
<1>12. ExecInv'
  <2>1. ValueComputed' /\ BranchRight'
    BY <1>2, <1>8, <1>11 DEF ValueComputed, BranchRight, IsBinary
  <2> QED
    BY <1>2, <1>6, <1>10, <2>1 DEF ExecInv
<1>13. \A u : Seen(u)' <=> Seen(u)
  BY <1>2 DEF Seen
<1>14. GenInv'
  BY <1>2, <1>3, <1>13, GenSame DEF VInv
<1> QED
  BY <1>1, <1>12, <1>14 DEF VInv

\* Nothing changes.
LEMMA StutterValues == VInv /\ UNCHANGED vars => VInv'
<1> SUFFICES ASSUME VInv, UNCHANGED vars PROVE VInv'
  OBVIOUS
<1>1. SInv'
  BY StutterStep DEF VInv
<1>2. /\ ins' = ins /\ start' = start /\ pos' = pos /\ rs1' = rs1 /\ rs2' = rs2
      /\ output' = output /\ ip' = ip /\ reg' = reg /\ slot' = slot /\ phase' = phase
      /\ target' = target
  BY DEF vars
<1>3. \A u : Seen(u)' <=> Seen(u)
  BY <1>2 DEF Seen
<1>4. GenInv'
  BY <1>2, <1>3, GenSame DEF VInv, GenInv
<1>5. /\ Base' = Base
      /\ Prog(ip - Base, reg, slot)' = Prog(ip' - Base, reg', slot')
  BY <1>2, SameProg
<1>6. /\ Ops' = Ops /\ \A u : FetchOf(u)' = FetchOf(u) /\ Sc(u)' = Sc(u)
      /\ \A u : Home(u)' = Home(u)
      /\ D' = D /\ Meaning' = Meaning
  BY <1>2, SameIns
<1>7. UntouchedIn(reg, slot)' = UntouchedIn(reg, slot)
  BY <1>2, <1>6 DEF UntouchedIn
<1>8. ArrivedIn(reg, ip - 1)' = ArrivedIn(reg, ip - 1)
  BY <1>2, <1>6 DEF ArrivedIn, Brings
<1>9. ValueComputed' = ValueComputed /\ BranchRight' = BranchRight
  BY <1>2, <1>6 DEF ValueComputed, BranchRight, Where
<1>10. ExecInv'
  BY <1>2, <1>5, <1>7, <1>8, <1>9 DEF VInv, ExecInv
<1> QED
  BY <1>1, <1>4, <1>10 DEF VInv

-----------------------------------------------------------------------------
(***************************************************************************)
(* Which instructions have code.                                           *)
(***************************************************************************)

\* All instructions of s are accepted.
AllWellFormed(s) == \A k \in 1..Len(s) : WellFormed(s[k])

\* The operand v can be brought: a floating-point instruction of two values
\* would load it into an integer register.
Fetchable(v) == ~(IsFloat /\ ~HasConst /\ Home(v) = Spilled)

\* The constant fits the field it is put into.
Least == IF ins.op = "sub" /\ ins.l # "con" THEN -ImmMax ELSE -(ImmMax + 1)
ConstantFits ==
  HasConst => /\ ins.op \in {"add", "sub"} => ins.con >= Least
              /\ ins.op \in {"mul", "sdiv"} /\ Small => ins.con >= 0
              /\ ins.op \in CmpOp => Small /\ ins.con >= Least

\* The result of a floating-point instruction of two values is in a register.
ResultPlaced == IsFloat /\ ~HasConst => D # Spilled

\* The operand v is listed before the result.
Before(v) ==
  \E j, k \in 1..Len(ins.list) : ins.list[j] = v /\ ins.list[k] = "d" /\ j < k

\* Code for the result: the strings it reads are set, and the rest fits.
Emits ==
  /\ \E v \in Ops : Before(v) /\ SetsFirst(v)
  /\ HasConst \/ \E v \in Ops : Before(v) /\ ~SetsFirst(v)
  /\ ConstantFits
  /\ ResultPlaced

\* A string is set when an operand that sets it has been seen.  The output is
\* well formed so far when the operands seen could be brought and, once the
\* result is met, there is code for it.
ScanInv ==
  /\ rs1 # None <=> \E v \in Ops : Seen(v) /\ SetsFirst(v)
  /\ rs2 # None <=> \E v \in Ops : Seen(v) /\ ~SetsFirst(v)
  /\ IsFloat /\ (\A v \in Ops : Seen(v) => Fetchable(v)) => {rs1, rs2} \cap Scratch = {}
  /\ Seen("d") => ~(NeedsRegister /\ D = Spilled)
  /\ AllWellFormed(output) <=> /\ \A v \in Ops : Seen(v) => Fetchable(v)
                               /\ Seen("d") => Emits

AInv ==
  /\ SInv
  /\ phase = "select" => ScanInv
  /\ Accepted

\* HasCode, in terms of the steps of the loop.
LEMMA HasCodeParts ==
  ASSUME IsCase(ins)
  PROVE  HasCode(ins) <=> /\ ~(NeedsRegister /\ D = Spilled)
                          /\ \A v \in Ops : Fetchable(v)
                          /\ Emits
<1>1. /\ \A v \in Ops : \E j \in 1..Len(ins.list) : ins.list[j] = v
      /\ \E k \in 1..Len(ins.list) : ins.list[k] = "d"
      /\ \A j, k \in 1..Len(ins.list) : ins.list[j] = ins.list[k] => j = k
      /\ Len(ins.list) \in Nat
  BY ListLength DEF IsCase, Ops
<1>2. (\A v \in Ops : Before(v)) <=> InOrder(ins)
  <2>1. ASSUME \A v \in Ops : Before(v) PROVE InOrder(ins)
    <3> SUFFICES ASSUME NEW j \in 1..Len(ins.list), NEW k \in 1..Len(ins.list),
                        ins.list[j] \in {ins.l, ins.r}, ins.list[k] = "d"
                 PROVE  j < k
      BY DEF InOrder
    <3>1. ins.list[j] \in Ops
      <4>1. ins.list \in Seq(Value)
        BY DEF IsCase
      <4>2. ins.list[j] \in Value
        BY <4>1, ElementOfSeq
      <4> QED
        BY <4>2 DEF Ops, Value
    <3>2. PICK i, h \in 1..Len(ins.list) :
                 ins.list[i] = ins.list[j] /\ ins.list[h] = "d" /\ i < h
      BY <2>1, <3>1 DEF Before
    <3>3. i = j /\ h = k
      BY <1>1, <3>2
    <3> QED
      BY <3>2, <3>3
  <2>2. ASSUME InOrder(ins), NEW v \in Ops PROVE Before(v)
    <3>1. PICK j \in 1..Len(ins.list) : ins.list[j] = v
      BY <1>1
    <3>2. PICK k \in 1..Len(ins.list) : ins.list[k] = "d"
      BY <1>1
    <3>3. j < k
      BY <2>2, <3>1, <3>2 DEF InOrder, Ops
    <3> QED
      BY <3>1, <3>2, <3>3 DEF Before
  <2> QED
    BY <2>1, <2>2
<1>3. ins.l # ins.r /\ HasConst =>
        \E x \in Ops : Ops = {x} /\ SetsFirst(x)
  BY DEF Ops, HasConst, SetsFirst, IsFirst
<1>4. ~HasConst => Ops = {ins.l, ins.r} /\ SetsFirst(ins.l)
  BY DEF Ops, HasConst, SetsFirst, IsFirst
<1>5. ins.l # ins.r /\ ~HasConst =>
        (SetsFirst(ins.r) <=> ins.op = "GE" /\ Home(ins.r) = Spilled)
  BY DEF SetsFirst, IsFirst
<1>6. ins.l = ins.r =>
        /\ HasConst => Ops = {}
        /\ ~HasConst => \A v \in Ops : SetsFirst(v)
  BY DEF Ops, HasConst, SetsFirst, IsFirst
<1>7. (/\ \E v \in Ops : Before(v) /\ SetsFirst(v)
       /\ HasConst \/ \E v \in Ops : Before(v) /\ ~SetsFirst(v))
      <=> /\ ins.l # ins.r /\ InOrder(ins)
          /\ ins.op = "GE" /\ ~HasConst => Home(ins.r) # Spilled
  <2>1. CASE ins.l = ins.r
    BY <1>6, <2>1
  <2>2. CASE ins.l # ins.r /\ HasConst
    BY <1>2, <1>3, <2>2
  <2>3. CASE ins.l # ins.r /\ ~HasConst
    BY <1>2, <1>4, <1>5, <2>3
  <2> QED
    BY <2>1, <2>2, <2>3
<1>8. ins.op \in IntOp \cup FloatOp \cup CmpOp
  BY DEF IsCase
<1>9. ASSUME ins.l # ins.r
      PROVE  /\ ~(NeedsRegister /\ D = Spilled)
             /\ ConstantFits
             /\ \A v \in Ops : Fetchable(v)
             /\ ResultPlaced
             <=> LET const == "con" \in {ins.l, ins.r}
                     inReg == ins.home["d"] # Spilled
                     small == ins.con <= ImmMax
                     least == IF ins.op = "sub" /\ ins.r = "con" THEN -ImmMax
                              ELSE -(ImmMax + 1)
                 IN  /\ ins.op \in {"add", "sub"} => (const => ins.con >= least)
                     /\ ins.op \in {"mul", "sdiv"} =>
                          IF const /\ small THEN ins.con >= 0 ELSE inReg
                     /\ ins.op \in CmpOp => inReg /\ (const => small /\ ins.con >= least)
                     /\ ins.op \in FloatOp /\ ~const =>
                          Spilled \notin {ins.home[v] : v \in {ins.l, ins.r, "d"}}
  <2>1. HasConst <=> "con" \in {ins.l, ins.r}
    BY DEF HasConst
  <2>2. HasConst => (ins.r = "con" <=> ins.l # "con")
    BY <1>9 DEF HasConst
  <2>3. CASE ins.op \in IntOp
    <3>1. ins.op \notin CmpOp /\ ins.op \notin FloatOp /\ ~IsFloat
      BY <2>3 DEF IntOp, CmpOp, FloatOp, IsFloat
    <3>2. ins.op \in {"add", "sub"} \/ ins.op \in {"mul", "sdiv"}
      BY <2>3 DEF IntOp
    <3>3. ~(ins.op \in {"add", "sub"} /\ ins.op \in {"mul", "sdiv"})
      OBVIOUS
    <3>4. HasConst => Least = IF ins.op = "sub" /\ ins.r = "con" THEN -ImmMax
                              ELSE -(ImmMax + 1)
      BY <2>2 DEF Least
    <3> QED
      BY <2>1, <2>2, <3>1, <3>2, <3>3, <3>4
         DEF NeedsRegister, D, Home, ConstantFits, Fetchable, ResultPlaced, Small
  <2>4. CASE ins.op \in FloatOp
    <3>1. ins.op \notin CmpOp /\ ins.op \notin {"add", "sub", "mul", "sdiv"} /\ IsFloat
      BY <2>4 DEF CmpOp, FloatOp, IsFloat
    <3>2. ~HasConst => Ops = {ins.l, ins.r}
      BY <1>4
    <3> QED
      BY <2>1, <2>4, <3>1, <3>2
         DEF NeedsRegister, D, Home, ConstantFits, Fetchable, ResultPlaced
  <2>5. CASE ins.op \in CmpOp
    <3>1. ins.op \notin FloatOp /\ ins.op \notin {"add", "sub", "mul", "sdiv"} /\ ~IsFloat
      BY <2>5 DEF CmpOp, FloatOp, IsFloat
    <3>2. ins.op # "sub"
      BY <3>1
    <3> QED
      BY <2>1, <2>5, <3>1, <3>2
         DEF NeedsRegister, D, Home, ConstantFits, Fetchable, ResultPlaced, Small, Least
  <2> QED
    BY <1>8, <2>3, <2>4, <2>5
<1>10. HasCode(ins) => ins.l # ins.r
  BY DEF HasCode
<1>11. CASE ins.l = ins.r
  BY <1>7, <1>10, <1>11 DEF Emits
<1>12. CASE ins.l # ins.r
  <2>1. (ins.op = "GE" /\ ~HasConst => Home(ins.r) # Spilled)
        <=> (ins.op = "GE" /\ ~("con" \in {ins.l, ins.r}) => ins.home[ins.r] # Spilled)
    BY DEF HasConst, Home
  <2> QED
    BY <1>7, <1>9, <1>12, <2>1 DEF Emits, HasCode
<1> QED
  BY <1>11, <1>12

\* What does not depend on the state of the loop.
LEMMA SameKinds ==
  ASSUME ins' = ins
  PROVE  /\ Ops' = Ops /\ Emits' = Emits
         /\ \A v : SetsFirst(v)' = SetsFirst(v) /\ Fetchable(v)' = Fetchable(v)
         /\ (NeedsRegister /\ D = Spilled)' = (NeedsRegister /\ D = Spilled)
         /\ HasCode(ins)' = HasCode(ins) /\ IsFloat' = IsFloat
<1>1. Ops' = Ops /\ HasConst' = HasConst /\ IsFloat' = IsFloat /\ D' = D /\ Small' = Small
  BY DEF Ops, HasConst, IsFloat, D, Home, Small
<1>2. \A v : /\ SetsFirst(v)' = SetsFirst(v) /\ Fetchable(v)' = Fetchable(v)
             /\ Before(v)' = Before(v)
  BY <1>1 DEF SetsFirst, IsFirst, Fetchable, Before, Home
<1>3. ConstantFits' = ConstantFits /\ ResultPlaced' = ResultPlaced
  BY <1>1 DEF ConstantFits, ResultPlaced, Least
<1>4. Emits' = Emits
  BY <1>1, <1>2, <1>3 DEF Emits
<1> QED
  BY <1>1, <1>2, <1>4 DEF NeedsRegister

\* Joined code is accepted if its parts are.
LEMMA WellFormedJoin ==
  ASSUME NEW S, NEW s \in Seq(S), NEW t \in Seq(S)
  PROVE  AllWellFormed(s \o t) <=> AllWellFormed(s) /\ AllWellFormed(t)
<1>1. /\ Len(s) \in Nat /\ Len(t) \in Nat /\ Len(s \o t) = Len(s) + Len(t)
      /\ \A k \in 1..Len(s) : (s \o t)[k] = s[k]
      /\ \A k \in 1..Len(t) : (s \o t)[Len(s) + k] = t[k]
  OBVIOUS
<1>2. ASSUME AllWellFormed(s \o t) PROVE AllWellFormed(s) /\ AllWellFormed(t)
  <2>1. \A k \in 1..Len(s) : k \in 1..Len(s \o t)
    BY <1>1
  <2>2. \A k \in 1..Len(t) : Len(s) + k \in 1..Len(s \o t)
    BY <1>1
  <2> QED
    BY <1>1, <1>2, <2>1, <2>2 DEF AllWellFormed
<1>3. ASSUME AllWellFormed(s), AllWellFormed(t), NEW k \in 1..Len(s \o t)
      PROVE  WellFormed((s \o t)[k])
  <2>1. CASE k \in 1..Len(s)
    BY <1>1, <1>3, <2>1 DEF AllWellFormed
  <2>2. CASE k \notin 1..Len(s)
    <3>1. k - Len(s) \in 1..Len(t) /\ Len(s) + (k - Len(s)) = k
      BY <1>1, <2>2
    <3>2. (s \o t)[k] = t[k - Len(s)]
      BY <1>1, <3>1
    <3> QED
      BY <1>3, <3>1, <3>2 DEF AllWellFormed
  <2> QED
    BY <2>1, <2>2
<1> QED
  BY <1>2, <1>3 DEF AllWellFormed

\* Short pieces of code.
LEMMA WellFormedShort ==
  /\ AllWellFormed(<<>>)
  /\ \A a : AllWellFormed(<<a>>) <=> WellFormed(a)
  /\ \A a, b : AllWellFormed(<<a, b>>) <=> WellFormed(a) /\ WellFormed(b)
  /\ \A a, b, c : AllWellFormed(<<a, b, c>>) <=>
                    WellFormed(a) /\ WellFormed(b) /\ WellFormed(c)
<1>1. AllWellFormed(<<>>)
  BY DEF AllWellFormed
<1>2. ASSUME NEW a PROVE AllWellFormed(<<a>>) <=> WellFormed(a)
  <2>1. Len(<<a>>) = 1 /\ <<a>>[1] = a /\ 1..1 = {1}
    OBVIOUS
  <2> QED
    BY <2>1 DEF AllWellFormed
<1>3. ASSUME NEW a, NEW b PROVE AllWellFormed(<<a, b>>) <=> WellFormed(a) /\ WellFormed(b)
  <2>1. Len(<<a, b>>) = 2 /\ <<a, b>>[1] = a /\ <<a, b>>[2] = b /\ 1..2 = {1, 2}
    OBVIOUS
  <2> QED
    BY <2>1 DEF AllWellFormed
<1>4. ASSUME NEW a, NEW b, NEW c
      PROVE  AllWellFormed(<<a, b, c>>) <=> WellFormed(a) /\ WellFormed(b) /\ WellFormed(c)
  <2>1. /\ Len(<<a, b, c>>) = 3 /\ 1..3 = {1, 2, 3}
        /\ <<a, b, c>>[1] = a /\ <<a, b, c>>[2] = b /\ <<a, b, c>>[3] = c
    OBVIOUS
  <2> QED
    BY <2>1 DEF AllWellFormed
<1> QED
  BY <1>1, <1>2, <1>3, <1>4

\* When a single instruction is accepted.
LEMMA WellFormedOne ==
  ASSUME IsCase(ins)
  PROVE  /\ None # "zero" /\ None \notin Machine /\ "zero" \notin Scratch
         /\ \A d \in Written : d # None
         /\ ~IsFloat =>
              /\ \A o \in Operations \ {"addi", "ori"} : \A d \in Written : \A a, b :
                   WellFormed(Rrr(o, d, a, b)) <=> a # None /\ b # None
              /\ \A o \in Branches : \A a, b :
                   WellFormed(Jump(o, a, b)) <=> a # None /\ b # None
              /\ \A d \in Written : \A a, n :
                   /\ WellFormed(Rri("addi", d, a, n)) <=>
                        a # None /\ n \in -(ImmMax + 1)..ImmMax
                   /\ WellFormed(Rri("ori", d, a, n)) <=> a # None /\ n \in 0..(Low - 1)
                   /\ WellFormed(Rri("lu12i", d, a, n)) <=> a # None
              /\ WellFormed(Mem("st", "r21", "d"))
         /\ IsFloat =>
              /\ \A o \in Operations \ {"addi", "ori", "la"} : \A d \in Written : \A a, b :
                   WellFormed(Rrr(o, d, a, b)) <=>
                     a # None /\ b # None /\ {d, a, b} \cap Scratch = {}
              /\ ~WellFormed(Mem("st", "r21", "d")) /\ WellFormed(Mem("fst", "ft8", "d"))
              /\ WellFormed(Rri("la", "r21", "zero", 0))
              /\ \A n : WellFormed(Rri("fld", "ft8", "zero", n))
<1>1. None # "zero" /\ None \notin Machine /\ "zero" \notin Scratch
  BY RegisterFacts DEF None, Scratch
<1>2. \A d \in Written : d # None
  BY <1>1, RegisterFacts
<1>3. ~IsFloat =>
        /\ \A o \in Operations \ {"addi", "ori"} : \A d \in Written : \A a, b :
             WellFormed(Rrr(o, d, a, b)) <=> a # None /\ b # None
        /\ \A o \in Branches : \A a, b :
             WellFormed(Jump(o, a, b)) <=> a # None /\ b # None
  BY <1>1, <1>2 DEF WellFormed, Rrr, Jump, Branches
<1>4. ~IsFloat =>
        /\ \A d \in Written : \A a, n :
             /\ WellFormed(Rri("addi", d, a, n)) <=> a # None /\ n \in -(ImmMax + 1)..ImmMax
             /\ WellFormed(Rri("ori", d, a, n)) <=> a # None /\ n \in 0..(Low - 1)
             /\ WellFormed(Rri("lu12i", d, a, n)) <=> a # None
  BY <1>1, <1>2 DEF WellFormed, Rri
<1>5. "r21" \in Scratch /\ "ft8" \notin Scratch /\ "r21" # None /\ "ft8" # None
  BY DEF Scratch, None
<1>6. ~IsFloat => WellFormed(Mem("st", "r21", "d"))
  BY <1>1, <1>5 DEF WellFormed, Mem
<1>7. IsFloat =>
        \A o \in Operations \ {"addi", "ori", "la"} : \A d \in Written : \A a, b :
           WellFormed(Rrr(o, d, a, b)) <=>
             a # None /\ b # None /\ {d, a, b} \cap Scratch = {}
  BY <1>2 DEF WellFormed, Rrr
<1>8. IsFloat =>
        /\ ~WellFormed(Mem("st", "r21", "d")) /\ WellFormed(Mem("fst", "ft8", "d"))
        /\ WellFormed(Rri("la", "r21", "zero", 0))
        /\ \A n : WellFormed(Rri("fld", "ft8", "zero", n))
  BY <1>1, <1>5 DEF WellFormed, Mem, Rri
<1> QED
  BY <1>1, <1>2, <1>3, <1>4, <1>6, <1>7, <1>8

\* When the code for the result is accepted: the integer operations.
LEMMA BinaryAccepted ==
  ASSUME IsCase(ins), ins.op \in IntOp, rs1 \in Source, rs2 \in Source,
         ~(NeedsRegister /\ D = Spilled)
  PROVE  AllWellFormed(ResultCode) <=>
           rs1 # None /\ (HasConst \/ rs2 # None) /\ ConstantFits
<1> DEFINE CF == HasConst => /\ ins.op \in {"add", "sub"} => ins.con >= Least
                             /\ ins.op \in {"mul", "sdiv"} /\ Small => ins.con >= 0
<1>0. ~IsFloat /\ ins.op \notin CmpOp /\ (ConstantFits <=> CF)
  BY DEF IsFloat, FloatOp, IntOp, CmpOp, ConstantFits
<1>1. /\ ins.con \in Int /\ ImmMax \in Nat /\ Low = 2 * (ImmMax + 1)
      /\ ins.con % Low \in 0..(Low - 1)
      /\ ins.con % Low \in Int /\ ins.con - (ins.con % Low) \in Int /\ -ins.con \in Int
  <2>1. ins.con \in Int /\ ImmMax \in Nat /\ Low = 2 * (ImmMax + 1)
    BY WordFacts, PowerFacts DEF IsCase
  <2>2. Low \in Nat \ {0}
    BY <2>1
  <2> QED
    BY <2>1, <2>2
<1>2. /\ Dest \in Written /\ "r21" \in Written /\ "r24" \in Written
      /\ D # Spilled => D \in Written
      /\ Written \subseteq Machine
  BY RegisterFacts DEF Dest
<1>3. /\ {"zero", "r21", "r24", Dest, rs1, rs2} \subseteq Source
      /\ D # Spilled => D \in Source
  BY <1>2, RegisterFacts DEF Source
<1>4. /\ {"add", "sub", "mul", "div"} \subseteq Operations \ {"addi", "ori"}
      /\ {"addi", "ori", "lu12i"} \subseteq Operations
  BY DEF Operations
<1>5. /\ \A o \in Operations : \A d \in Written : \A a, b \in Source :
           Rrr(o, d, a, b) \in Emitted
      /\ \A o \in Operations : \A d \in Written : \A a \in Source : \A n \in Int :
           Rri(o, d, a, n) \in Emitted
      /\ Mem("st", "r21", "d") \in Emitted
  BY Built
<1>6. /\ "zero" # None /\ \A d \in Written : d # None
      /\ \A o \in Operations \ {"addi", "ori"} : \A d \in Written : \A a, b :
           WellFormed(Rrr(o, d, a, b)) <=> a # None /\ b # None
      /\ \A d \in Written : \A a, n :
           /\ WellFormed(Rri("addi", d, a, n)) <=> a # None /\ n \in -(ImmMax + 1)..ImmMax
           /\ WellFormed(Rri("ori", d, a, n)) <=> a # None /\ n \in 0..(Low - 1)
           /\ WellFormed(Rri("lu12i", d, a, n)) <=> a # None
      /\ WellFormed(Mem("st", "r21", "d"))
  BY <1>0, WellFormedOne
<1> HIDE DEF Emitted, Operations, Source, Written, CF
<1>7. \A s, t \in Seq(Emitted) :
        AllWellFormed(s \o t) <=> AllWellFormed(s) /\ AllWellFormed(t)
  BY WellFormedJoin
<1>8. StoreBack \in Seq(Emitted) /\ AllWellFormed(StoreBack)
  BY <1>5, <1>6, Joined, WellFormedShort DEF StoreBack
<1>9. ASSUME NEW r \in {"r21", "r24"}
      PROVE  LoadCon(r) \in Seq(Emitted) /\ AllWellFormed(LoadCon(r))
  <2>1. /\ Rri("lu12i", r, "zero", ins.con - (ins.con % Low)) \in Emitted
        /\ Rri("ori", r, r, ins.con % Low) \in Emitted
    BY <1>1, <1>2, <1>3, <1>4, <1>5
  <2>2. /\ WellFormed(Rri("lu12i", r, "zero", ins.con - (ins.con % Low)))
        /\ WellFormed(Rri("ori", r, r, ins.con % Low))
    BY <1>1, <1>2, <1>6
  <2> QED
    BY <2>1, <2>2, Joined, WellFormedShort DEF LoadCon
<1>10. CASE ins.op \in {"add", "sub"}
  <2> DEFINE n == IF ins.op = "add" \/ ins.l = "con" THEN ins.con ELSE -ins.con
  <2>1. n \in Int /\ (Small => (n \in -(ImmMax + 1)..ImmMax <=> ins.con >= Least))
    BY <1>1, <1>10 DEF Small, Least
  <2>2. ~Small => ins.con >= Least
    BY <1>1 DEF Small, Least
  <2>3. CF <=> (HasConst => ins.con >= Least)
    BY <1>10 DEF CF
  <2> HIDE DEF n
  <2>4. CASE ~HasConst
    <3>1. ResultCode = <<Rrr(ins.op, Dest, rs1, rs2)>> \o StoreBack
      BY <1>10, <2>4 DEF ResultCode, AddCode, SubCode
    <3>2. <<Rrr(ins.op, Dest, rs1, rs2)>> \in Seq(Emitted)
      BY <1>2, <1>3, <1>4, <1>5, <1>10, Joined
    <3>3. WellFormed(Rrr(ins.op, Dest, rs1, rs2)) <=> rs1 # None /\ rs2 # None
      BY <1>2, <1>4, <1>6, <1>10
    <3> QED
      BY <1>0, <1>7, <1>8, <2>3, <2>4, <3>1, <3>2, <3>3, WellFormedShort
  <2>5. CASE HasConst /\ Small
    <3>1. ResultCode = <<Rri("addi", Dest, rs1, n)>> \o StoreBack
      BY <1>10, <2>5 DEF ResultCode, AddCode, SubCode, n
    <3>2. <<Rri("addi", Dest, rs1, n)>> \in Seq(Emitted)
      BY <1>2, <1>3, <1>4, <1>5, <2>1, Joined
    <3>3. WellFormed(Rri("addi", Dest, rs1, n)) <=> rs1 # None /\ ins.con >= Least
      BY <1>2, <1>6, <2>1, <2>5
    <3> QED
      BY <1>0, <1>7, <1>8, <2>3, <2>5, <3>1, <3>2, <3>3, WellFormedShort
  <2>6. CASE HasConst /\ ~Small
    <3>1. PICK a, b \in {rs1, "r24"} :
             /\ {a, b} = {rs1, "r24"}
             /\ ResultCode = LoadCon("r24") \o <<Rrr(ins.op, Dest, a, b)>> \o StoreBack
      BY <1>10, <2>6 DEF ResultCode, AddCode, SubCode
    <3>2. <<Rrr(ins.op, Dest, a, b)>> \in Seq(Emitted)
      BY <1>2, <1>3, <1>4, <1>5, <1>10, Joined
    <3>3. WellFormed(Rrr(ins.op, Dest, a, b)) <=> rs1 # None
      <4>1. WellFormed(Rrr(ins.op, Dest, a, b)) <=> a # None /\ b # None
        BY <1>2, <1>4, <1>6, <1>10
      <4>2. "r24" # None
        BY <1>2, <1>6
      <4> QED
        BY <3>1, <4>1, <4>2
    <3>4. LoadCon("r24") \o <<Rrr(ins.op, Dest, a, b)>> \in Seq(Emitted)
      BY <1>9, <3>2, Joined
    <3> QED
      BY <1>0, <1>7, <1>8, <1>9, <2>2, <2>3, <2>6, <3>1, <3>2, <3>3, <3>4, WellFormedShort
  <2> QED
    BY <2>4, <2>5, <2>6
<1>11. CASE ins.op \in {"mul", "sdiv"}
  <2> DEFINE o == IF ins.op = "mul" THEN "mul" ELSE "div"
  <2>1. o \in Operations \ {"addi", "ori"} /\ o \in Operations
    BY <1>4
  <2>2. ~(HasConst /\ Small) => D # Spilled /\ D \in Written
    BY <1>2, <1>11 DEF NeedsRegister
  <2>3. CF <=> (HasConst /\ Small => ins.con >= 0)
    BY <1>11 DEF CF
  <2>4. CASE ~HasConst
    <3>1. ResultCode = <<Rrr(o, D, rs1, rs2)>>
      BY <1>11, <2>4 DEF ResultCode, MulCode, DivCode
    <3>2. WellFormed(Rrr(o, D, rs1, rs2)) <=> rs1 # None /\ rs2 # None
      BY <1>6, <2>1, <2>2, <2>4
    <3> QED
      BY <1>0, <2>3, <2>4, <3>1, <3>2, WellFormedShort
  <2>5. CASE HasConst /\ Small
    <3>1. PICK a, b \in {rs1, Dest} :
             /\ {a, b} = {rs1, Dest}
             /\ ResultCode = <<Rri("ori", Dest, "zero", ins.con), Rrr(o, Dest, a, b)>>
      BY <1>11, <2>5 DEF ResultCode, MulCode, DivCode
    <3>2. WellFormed(Rrr(o, Dest, a, b)) <=> rs1 # None
      <4>1. WellFormed(Rrr(o, Dest, a, b)) <=> a # None /\ b # None
        BY <1>2, <1>6, <2>1
      <4>2. Dest # None
        BY <1>2, <1>6
      <4> QED
        BY <3>1, <4>1, <4>2
    <3>3. WellFormed(Rri("ori", Dest, "zero", ins.con)) <=> ins.con >= 0
      <4>1. WellFormed(Rri("ori", Dest, "zero", ins.con)) <=> ins.con \in 0..(Low - 1)
        BY <1>2, <1>6
      <4> QED
        BY <1>1, <2>5, <4>1 DEF Small
    <3> QED
      BY <1>0, <2>3, <2>5, <3>1, <3>2, <3>3, WellFormedShort
  <2>6. CASE HasConst /\ ~Small
    <3>1. PICK a, b \in {rs1, "r21"} :
             /\ {a, b} = {rs1, "r21"}
             /\ ResultCode = LoadCon("r21") \o <<Rrr(o, D, a, b)>>
      BY <1>11, <2>6 DEF ResultCode, MulCode, DivCode
    <3>2. <<Rrr(o, D, a, b)>> \in Seq(Emitted)
      BY <1>3, <1>5, <2>1, <2>2, <2>6, <3>1, Joined
    <3>3. WellFormed(Rrr(o, D, a, b)) <=> rs1 # None
      <4>1. WellFormed(Rrr(o, D, a, b)) <=> a # None /\ b # None
        BY <1>6, <2>1, <2>2, <2>6
      <4>2. "r21" # None
        BY <1>2, <1>6
      <4> QED
        BY <3>1, <4>1, <4>2
    <3> QED
      BY <1>0, <1>7, <1>9, <2>3, <2>6, <3>1, <3>2, <3>3, WellFormedShort
  <2> QED
    BY <2>4, <2>5, <2>6
<1> QED
  BY <1>10, <1>11 DEF IntOp

\* The floating-point operations.
LEMMA FloatAccepted ==
  ASSUME IsCase(ins), ins.op \in FloatOp, rs1 \in Source, rs2 \in Source,
         {rs1, rs2} \cap Scratch = {}
  PROVE  AllWellFormed(ResultCode) <=>
           rs1 # None /\ (HasConst \/ rs2 # None) /\ ResultPlaced
<1> DEFINE dest == IF D = Spilled THEN "ft8" ELSE D
           back == IF D = Spilled THEN <<Mem("fst", "ft8", "d")>> ELSE <<>>
           o    == ins.op
<1>1. IsFloat /\ o \in {"fadd", "fsub", "fmul", "fdiv"}
  BY DEF IsFloat, FloatOp
<1>2. /\ Dest \in Written /\ dest \in Written /\ "r21" \in Written /\ "ft8" \in Written
      /\ Dest \in Scratch <=> D = Spilled
      /\ dest \notin Scratch /\ "ft8" \notin Scratch /\ "ft8" # None
  <2>1. D # Spilled => D \notin Scratch
    <3>1. D # Spilled => D \in Regs
      BY RegisterFacts DEF D, Value
    <3> QED
      BY <3>1, InstrSelectAssumption
  <2>2. "r21" \in Scratch /\ "ft8" \notin Scratch /\ "ft8" # None
    BY DEF Scratch, None
  <2> QED
    BY <2>1, <2>2, RegisterFacts DEF Dest
<1>3. ins.con \in Int /\ {"zero", "ft8", rs1, rs2} \subseteq Source
  <2>1. ins.con \in Int
    BY WordFacts DEF IsCase
  <2>2. "ft8" \in Machine
    BY RegisterFacts
  <2> QED
    BY <2>1, <2>2 DEF Source
<1>4. {"la", "fld"} \subseteq Operations /\ o \in Operations \ {"addi", "ori", "la"}
  BY <1>1 DEF Operations
<1>5. /\ \A p \in Operations : \A d \in Written : \A a, b \in Source :
           Rrr(p, d, a, b) \in Emitted
      /\ \A p \in Operations : \A d \in Written : \A a \in Source : \A n \in Int :
           Rri(p, d, a, n) \in Emitted
      /\ Mem("st", "r21", "d") \in Emitted /\ Mem("fst", "ft8", "d") \in Emitted
  BY Built
<1>6. /\ \A p \in Operations \ {"addi", "ori", "la"} : \A d \in Written : \A a, b :
           WellFormed(Rrr(p, d, a, b)) <=> a # None /\ b # None /\ {d, a, b} \cap Scratch = {}
      /\ ~WellFormed(Mem("st", "r21", "d")) /\ WellFormed(Mem("fst", "ft8", "d"))
      /\ WellFormed(Rri("la", "r21", "zero", 0))
      /\ WellFormed(Rri("fld", "ft8", "zero", ins.con))
  BY <1>1, WellFormedOne
<1>7. ResultCode = FloatCode(o)
  BY <1>1 DEF ResultCode, FAddCode, FSubCode, FMulCode, FDivCode
<1> HIDE DEF Emitted, Operations, Source, Written, dest, back, o
<1>8. \A s, t \in Seq(Emitted) :
        AllWellFormed(s \o t) <=> AllWellFormed(s) /\ AllWellFormed(t)
  BY WellFormedJoin
<1>9. CASE HasConst
  <2> DEFINE main == <<Rri("la", "r21", "zero", 0), Rri("fld", "ft8", "zero", ins.con),
                       Rrr(o, dest, rs1, "ft8")>>
  <2>1. ResultCode = main \o back
    BY <1>7, <1>9 DEF FloatCode, dest, back
  <2>2. main \in Seq(Emitted) /\ back \in Seq(Emitted)
    <3>1. /\ Rri("la", "r21", "zero", 0) \in Emitted
          /\ Rri("fld", "ft8", "zero", ins.con) \in Emitted
          /\ Rrr(o, dest, rs1, "ft8") \in Emitted
      BY <1>2, <1>3, <1>4, <1>5
    <3> QED
      BY <1>5, <3>1, Joined DEF back
  <2>3. AllWellFormed(back)
    BY <1>6, WellFormedShort DEF back
  <2>4. WellFormed(Rrr(o, dest, rs1, "ft8")) <=> rs1 # None
    BY <1>2, <1>4, <1>6
  <2>5. AllWellFormed(main) <=> rs1 # None
    BY <1>6, <2>4, WellFormedShort
  <2>6. AllWellFormed(ResultCode) <=> rs1 # None
    <3> HIDE DEF main
    <3> QED
      BY <1>8, <2>1, <2>2, <2>3, <2>5
  <2> QED
    BY <1>9, <2>6 DEF ResultPlaced
<1>10. CASE ~HasConst
  <2>1. ResultCode = <<Rrr(o, Dest, rs1, rs2)>> \o StoreBack
    BY <1>7, <1>10 DEF FloatCode
  <2>2. <<Rrr(o, Dest, rs1, rs2)>> \in Seq(Emitted) /\ StoreBack \in Seq(Emitted)
    <3>1. Rrr(o, Dest, rs1, rs2) \in Emitted
      BY <1>2, <1>3, <1>4, <1>5
    <3> QED
      BY <1>5, <3>1, Joined DEF StoreBack
  <2>3. AllWellFormed(StoreBack) <=> D # Spilled
    BY <1>6, WellFormedShort DEF StoreBack
  <2>4. WellFormed(Rrr(o, Dest, rs1, rs2)) <=> rs1 # None /\ rs2 # None /\ D # Spilled
    BY <1>2, <1>4, <1>6
  <2> QED
    BY <1>1, <1>8, <1>10, <2>1, <2>2, <2>3, <2>4, WellFormedShort DEF ResultPlaced
<1> QED
  BY <1>9, <1>10

\* The compares.
LEMMA CmpAccepted ==
  ASSUME IsCase(ins), ins.op \in CmpOp, rs1 \in Source, rs2 \in Source, D # Spilled
  PROVE  AllWellFormed(ResultCode) <=>
           rs1 # None /\ (HasConst \/ rs2 # None) /\ ConstantFits
<1>1. ~IsFloat
  BY DEF IsFloat, FloatOp, CmpOp
<1>2. /\ ins.con \in Int /\ ImmMax \in Nat /\ Low = 2 * (ImmMax + 1)
      /\ 0 \in 0..(Low - 1) /\ 1 \in 0..(Low - 1)
      /\ ConstantFits <=> (HasConst => ins.con \in -(ImmMax + 1)..ImmMax)
  <2>1. ins.con \in Int /\ ImmMax \in Nat /\ Low = 2 * (ImmMax + 1)
    BY WordFacts, PowerFacts DEF IsCase
  <2>2. ins.op \notin {"add", "sub", "mul", "sdiv"}
    BY DEF CmpOp
  <2>3. Least = -(ImmMax + 1)
    BY <2>2 DEF Least
  <2> QED
    BY <2>1, <2>2, <2>3 DEF ConstantFits, Small
<1>3. D \in Written /\ "r21" \in Written /\ "zero" \in Source /\ "r21" \in Source
  BY RegisterFacts DEF Source
<1>4. "addi" \in Operations /\ "ori" \in Operations /\ "b" \in Branches
  BY DEF Operations, Branches
<1>5. /\ \A p \in Operations : \A d \in Written : \A c \in Source : \A n \in Int :
           Rri(p, d, c, n) \in Emitted
      /\ \A p \in Branches : \A c, d \in Source : Jump(p, c, d) \in Emitted
  BY Built
<1>6. /\ "zero" # None /\ \A d \in Written : d # None
      /\ \A p \in Branches : \A a, b : WellFormed(Jump(p, a, b)) <=> a # None /\ b # None
      /\ \A d \in Written : \A a, n :
           /\ WellFormed(Rri("addi", d, a, n)) <=> a # None /\ n \in -(ImmMax + 1)..ImmMax
           /\ WellFormed(Rri("ori", d, a, n)) <=> a # None /\ n \in 0..(Low - 1)
  BY <1>1, WellFormedOne
<1> HIDE DEF Emitted, Operations, Source, Written, Branches
<1>7. \A s, t \in Seq(Emitted) :
        AllWellFormed(s \o t) <=> AllWellFormed(s) /\ AllWellFormed(t)
  BY WellFormedJoin
<1>8. ASSUME NEW branches \in Seq(Branches), Len(branches) >= 1, NEW a \in Source, NEW b \in Source
      PROVE  AllWellFormed(CmpCode(branches, a, b)) <=> a # None /\ b # None /\ ConstantFits
  <2> DEFINE con   == IF HasConst THEN <<Rri("addi", "r21", "zero", ins.con)>> ELSE <<>>
             one   == <<Rri("ori", D, "zero", 1)>>
             taken == [k \in 1..Len(branches) |-> Jump(branches[k], a, b)]
             zero  == <<Rri("ori", D, "zero", 0), Jump("b", "zero", "zero")>>
  <2>1. CmpCode(branches, a, b) = con \o one \o taken \o zero
    BY DEF CmpCode
  <2>2. Len(branches) \in Nat /\ \A k \in 1..Len(branches) : branches[k] \in Branches
    OBVIOUS
  <2>3. con \in Seq(Emitted) /\ one \in Seq(Emitted) /\ zero \in Seq(Emitted)
    <3>1. /\ Rri("addi", "r21", "zero", ins.con) \in Emitted
          /\ Rri("ori", D, "zero", 1) \in Emitted /\ Rri("ori", D, "zero", 0) \in Emitted
          /\ Jump("b", "zero", "zero") \in Emitted
      BY <1>2, <1>3, <1>4, <1>5
    <3> QED
      BY <3>1, Joined
  <2>4. taken \in Seq(Emitted) /\ Len(taken) = Len(branches)
    <3>1. \A k \in 1..Len(branches) : Jump(branches[k], a, b) \in Emitted
      BY <1>5, <2>2
    <3> QED
      BY <2>2, <3>1
  <2>5. AllWellFormed(con) <=> ConstantFits
    <3>1. WellFormed(Rri("addi", "r21", "zero", ins.con))
          <=> ins.con \in -(ImmMax + 1)..ImmMax
      BY <1>3, <1>6
    <3> QED
      BY <1>2, <3>1, WellFormedShort
  <2>6. AllWellFormed(one) /\ AllWellFormed(zero)
    <3>1. /\ WellFormed(Rri("ori", D, "zero", 1)) /\ WellFormed(Rri("ori", D, "zero", 0))
          /\ WellFormed(Jump("b", "zero", "zero"))
      BY <1>2, <1>3, <1>4, <1>6
    <3> QED
      BY <3>1, WellFormedShort
  <2>7. AllWellFormed(taken) <=> a # None /\ b # None
    <3>1. \A k \in 1..Len(branches) :
            /\ taken[k] = Jump(branches[k], a, b)
            /\ WellFormed(taken[k]) <=> a # None /\ b # None
      BY <1>6, <2>2
    <3>2. 1 \in 1..Len(branches)
      BY <2>2, <1>8
    <3> HIDE DEF taken
    <3> QED
      BY <2>4, <3>1, <3>2 DEF AllWellFormed
  <2> HIDE DEF con, one, taken, zero
  <2>8. con \o one \in Seq(Emitted) /\ con \o one \o taken \in Seq(Emitted)
    BY <2>3, <2>4, Joined
  <2>9. AllWellFormed(con \o one) <=> ConstantFits
    BY <1>7, <2>3, <2>5, <2>6
  <2>10. AllWellFormed(con \o one \o taken) <=> AllWellFormed(con \o one) /\ AllWellFormed(taken)
    BY <1>7, <2>4, <2>8
  <2>11. AllWellFormed(con \o one \o taken \o zero)
         <=> AllWellFormed(con \o one \o taken) /\ AllWellFormed(zero)
    BY <1>7, <2>3, <2>8
  <2> QED
    BY <2>1, <2>6, <2>7, <2>9, <2>10, <2>11
<1>9. /\ \A p, q : Len(<<p>>) = 1 /\ Len(<<p, q>>) = 2
      /\ <<"beq">> \in Seq(Branches) /\ <<"bne">> \in Seq(Branches)
      /\ <<"bge">> \in Seq(Branches) /\ <<"blt">> \in Seq(Branches)
      /\ <<"bge", "beq">> \in Seq(Branches) /\ <<"blt", "beq">> \in Seq(Branches)
  BY Joined DEF Branches
<1>10. PICK branches \in Seq(Branches) : Len(branches) >= 1 /\
         \E a, b \in Source :
            /\ ResultCode = CmpCode(branches, a, b)
            /\ HasConst => {a, b} = {"r21", rs1}
            /\ ~HasConst => a = rs1 /\ b = rs2
  <2>1. /\ CmpLeft \in Source /\ CmpRight \in Source
        /\ HasConst => {CmpLeft, CmpRight} = {"r21", rs1}
        /\ ~HasConst => CmpLeft = rs1 /\ CmpRight = rs2
    BY <1>3 DEF CmpLeft, CmpRight, HasConst
  <2>2. CASE ins.op = "EQ"
    <3>1. \E a, b \in Source :
            /\ ResultCode = CmpCode(<<"beq">>, a, b)
            /\ HasConst => {a, b} = {"r21", rs1}
            /\ ~HasConst => a = rs1 /\ b = rs2
      BY <1>3, <2>2 DEF ResultCode, EqCode
    <3>2. <<"beq">> \in Seq(Branches) /\ Len(<<"beq">>) >= 1
      BY <1>9
    <3> QED
      BY <3>1, <3>2
  <2>3. CASE ins.op = "NE"
    <3>1. ResultCode = CmpCode(<<"bne">>, CmpLeft, CmpRight)
      BY <2>3 DEF ResultCode, NeCode
    <3>2. <<"bne">> \in Seq(Branches) /\ Len(<<"bne">>) >= 1
      BY <1>9
    <3> QED
      BY <2>1, <3>1, <3>2
  <2>4. CASE ins.op = "GT"
    <3>1. ResultCode = CmpCode(<<"bge">>, CmpLeft, CmpRight)
      BY <2>4 DEF ResultCode, GtCode
    <3>2. <<"bge">> \in Seq(Branches) /\ Len(<<"bge">>) >= 1
      BY <1>9
    <3> QED
      BY <2>1, <3>1, <3>2
  <2>5. CASE ins.op = "GE"
    <3>1. ResultCode = CmpCode(<<"bge", "beq">>, CmpLeft, CmpRight)
      BY <2>5 DEF ResultCode, GeCode
    <3>2. <<"bge", "beq">> \in Seq(Branches) /\ Len(<<"bge", "beq">>) >= 1
      BY <1>9
    <3> QED
      BY <2>1, <3>1, <3>2
  <2>6. CASE ins.op = "LT"
    <3>1. ResultCode = CmpCode(<<"blt">>, CmpLeft, CmpRight)
      BY <2>6 DEF ResultCode, LtCode
    <3>2. <<"blt">> \in Seq(Branches) /\ Len(<<"blt">>) >= 1
      BY <1>9
    <3> QED
      BY <2>1, <3>1, <3>2
  <2>7. CASE ins.op = "LE"
    <3>1. ResultCode = CmpCode(<<"blt", "beq">>, CmpLeft, CmpRight)
      BY <2>7 DEF ResultCode, LeCode
    <3>2. <<"blt", "beq">> \in Seq(Branches) /\ Len(<<"blt", "beq">>) >= 1
      BY <1>9
    <3> QED
      BY <2>1, <3>1, <3>2
  <2> QED
    BY <2>2, <2>3, <2>4, <2>5, <2>6, <2>7 DEF CmpOp
<1>11. PICK a, b \in Source :
         /\ ResultCode = CmpCode(branches, a, b)
         /\ HasConst => {a, b} = {"r21", rs1}
         /\ ~HasConst => a = rs1 /\ b = rs2
  BY <1>10
<1>12. AllWellFormed(ResultCode) <=> a # None /\ b # None /\ ConstantFits
  BY <1>8, <1>10, <1>11
<1>13. a # None /\ b # None <=> rs1 # None /\ (HasConst \/ rs2 # None)
  <2>1. "r21" # None
    BY <1>3, <1>6
  <2> QED
    BY <1>11, <2>1
<1> QED
  BY <1>12, <1>13

\* When the code for the result is accepted.
LEMMA ResultAccepted ==
  ASSUME IsCase(ins), {rs1, rs2} \subseteq Machine \cup {None},
         ~(NeedsRegister /\ D = Spilled),
         IsFloat => {rs1, rs2} \cap Scratch = {}
  PROVE  AllWellFormed(ResultCode) <=>
           /\ rs1 # None /\ (HasConst \/ rs2 # None)
           /\ ConstantFits /\ ResultPlaced
<1>1. rs1 \in Source /\ rs2 \in Source
  BY DEF Source
<1>2. ins.op \in IntOp \cup FloatOp \cup CmpOp
  BY DEF IsCase
<1>3. CASE ins.op \in IntOp
  <2>1. ~IsFloat
    BY <1>3 DEF IsFloat, IntOp, FloatOp
  <2> QED
    BY <1>1, <1>3, <2>1, BinaryAccepted DEF ResultPlaced
<1>4. CASE ins.op \in FloatOp
  <2>1. IsFloat /\ ins.op \notin CmpOp /\ ins.op \notin {"add", "sub", "mul", "sdiv"}
    BY <1>4 DEF IsFloat, FloatOp, CmpOp
  <2> QED
    BY <1>1, <1>4, <2>1, FloatAccepted DEF ConstantFits
<1>5. CASE ins.op \in CmpOp
  <2>1. ~IsFloat /\ D # Spilled
    BY <1>5 DEF IsFloat, FloatOp, CmpOp, NeedsRegister
  <2> QED
    BY <1>1, <1>5, <2>1, CmpAccepted DEF ResultPlaced
<1> QED
  BY <1>2, <1>3, <1>4, <1>5

\* When the code that brings an operand is accepted, and where it leaves it.
LEMMA FetchAccepted ==
  ASSUME IsCase(ins), NEW v \in Ops
  PROVE  /\ FetchOf(v) \in Seq(Emitted)
         /\ AllWellFormed(FetchOf(v)) <=> Fetchable(v)
         /\ Place(v) # None
         /\ IsFloat /\ Fetchable(v) => Place(v) \notin Scratch
<1>1. v \in Value /\ v # "d"
  BY DEF Ops, IsCase, Value
<1>2. /\ Sc(v) \in Scratch \cup FScratch /\ Sc(v) \in Written
      /\ IsFloat /\ HasConst => Sc(v) = "ft9"
      /\ ~(IsFloat /\ HasConst) => Sc(v) \in Scratch
  BY RegisterFacts DEF Sc, OperandScratch, Scratch, FScratch
<1>3. FetchOf(v) \in Seq(Emitted) /\ Place(v) \in Machine
  BY <1>1, <1>2, FetchEmitted DEF FetchOf, Place
<1>4. Place(v) # None
  BY <1>3, RegisterFacts
<1>5. Home(v) # Spilled => Home(v) \in Regs /\ Home(v) # None /\ Home(v) \notin Scratch
  BY <1>1, RegisterFacts, InstrSelectAssumption
<1>6. IsFloat => ~CopiesOperand
  BY DEF CopiesOperand, IsFloat, FloatOp, CmpOp
<1>7. "ft9" \notin Scratch /\ "zero" \notin Scratch /\ "zero" # None
  BY DEF Scratch, None
<1>8. IsFloat /\ Fetchable(v) => Place(v) \notin Scratch
  BY <1>2, <1>5, <1>6, <1>7 DEF Place, Fetched, Fetchable
<1>9. CASE Home(v) = Spilled
  <2>1. FetchOf(v) = <<Mem("ld", Sc(v), v)>>
    BY <1>9 DEF FetchOf, Fetch
  <2>2. Sc(v) # None
    BY <1>2, RegisterFacts
  <2>3. WellFormed(Mem("ld", Sc(v), v)) <=> ~(IsFloat /\ Sc(v) \in Scratch)
    BY <1>7, <2>2 DEF WellFormed, Mem
  <2>4. AllWellFormed(FetchOf(v)) <=> Fetchable(v)
    BY <1>2, <1>7, <1>9, <2>1, <2>3, WellFormedShort DEF Fetchable
  <2> QED
    BY <1>3, <1>4, <1>8, <2>4
<1>10. CASE Home(v) # Spilled
  <2>1. Fetchable(v)
    BY <1>10 DEF Fetchable
  <2>2. Sc(v) # None
    BY <1>2, RegisterFacts
  <2>3. CASE CopiesOperand
    <3>1. FetchOf(v) = <<Rrr("or", Sc(v), "zero", Home(v))>>
      BY <1>10, <2>3 DEF FetchOf, Fetch
    <3>2. WellFormed(Rrr("or", Sc(v), "zero", Home(v)))
      BY <1>5, <1>6, <1>7, <1>10, <2>2, <2>3 DEF WellFormed, Rrr
    <3> QED
      BY <1>3, <1>4, <1>8, <2>1, <3>1, <3>2, WellFormedShort
  <2>4. CASE ~CopiesOperand
    <3>1. FetchOf(v) = <<>>
      BY <1>10, <2>4 DEF FetchOf, Fetch
    <3> QED
      BY <1>3, <1>4, <1>8, <2>1, <3>1, WellFormedShort
  <2> QED
    BY <2>3, <2>4
<1> QED
  BY <1>9, <1>10

\* The start.
LEMMA InitAccepted == Init => AInv
<1> SUFFICES ASSUME Init PROVE AInv
  OBVIOUS
<1>1. SInv
  BY InitKept
<1>2. pos = 1 /\ phase = "select" /\ output = <<>> /\ rs1 = None /\ rs2 = None
  BY DEF Init
<1>3. \A v : ~Seen(v)
  BY <1>2 DEF Seen
<1>4. None \notin Scratch
  BY DEF None, Scratch
<1>5. ScanInv
  BY <1>2, <1>3, <1>4, WellFormedShort DEF ScanInv
<1> QED
  BY <1>1, <1>2, <1>5 DEF AInv, Accepted

\* An entry for an operand.
LEMMA OperandAccepted == AInv /\ ScanOperand => AInv'
<1> SUFFICES ASSUME AInv, ScanOperand PROVE AInv'
  OBVIOUS
<1>1. SInv'
  BY ScanOperandStep DEF AInv
<1> DEFINE v == ins.list[pos]
<1>2. /\ phase = "select" /\ phase' = phase /\ pos' = pos + 1 /\ pos <= Len(ins.list)
      /\ output' = output \o FetchOf(v)
      /\ rs1' = IF SetsFirst(v) THEN Place(v) ELSE rs1
      /\ rs2' = IF SetsFirst(v) THEN rs2 ELSE Place(v)
      /\ v # "d" /\ v \in {ins.l, ins.r} /\ ins' = ins
  BY DEF ScanOperand, NextEntry, FetchOf, Place, Sc
<1>3. /\ IsCase(ins) /\ pos \in 1..(Len(ins.list) + 1) /\ output \in Seq(Emitted)
      /\ ScanInv
  BY <1>2 DEF AInv, SInv, TypeOK
<1>4. pos \in Nat \ {0} /\ v \in Value
  <2>1. Len(ins.list) \in Nat /\ ins.list \in Seq(Value)
    BY <1>3, ListLength DEF IsCase
  <2> QED
    BY <1>2, <1>3, <2>1
<1>5. v \in Ops
  BY <1>2, <1>4 DEF Ops, Value
<1> HIDE DEF v
<1>6. \A u : Seen(u)' <=> Seen(u) \/ u = v
  BY <1>2, <1>4, SeenNext DEF v
<1>7. /\ FetchOf(v) \in Seq(Emitted)
      /\ AllWellFormed(FetchOf(v)) <=> Fetchable(v)
      /\ Place(v) # None
      /\ IsFloat /\ Fetchable(v) => Place(v) \notin Scratch
  BY <1>3, <1>5, FetchAccepted
<1>8. AllWellFormed(output') <=> AllWellFormed(output) /\ Fetchable(v)
  <2> HIDE DEF Emitted
  <2> QED
    BY <1>2, <1>3, <1>7, WellFormedJoin
<1>9. AllWellFormed(output)' <=> AllWellFormed(output')
  BY <1>2 DEF AllWellFormed, WellFormed, IsFloat
<1>10. /\ Ops' = Ops /\ Emits' = Emits /\ IsFloat' = IsFloat
       /\ \A u : SetsFirst(u)' = SetsFirst(u) /\ Fetchable(u)' = Fetchable(u)
       /\ (NeedsRegister /\ D = Spilled)' = (NeedsRegister /\ D = Spilled)
  BY <1>2, SameKinds
<1>11. /\ rs1' # None <=> \E u \in Ops : (Seen(u) \/ u = v) /\ SetsFirst(u)
       /\ rs2' # None <=> \E u \in Ops : (Seen(u) \/ u = v) /\ ~SetsFirst(u)
  BY <1>2, <1>3, <1>5, <1>7 DEF ScanInv
<1>12. IsFloat /\ (\A u \in Ops : Seen(u) \/ u = v => Fetchable(u))
       => {rs1', rs2'} \cap Scratch = {}
  BY <1>2, <1>3, <1>5, <1>7 DEF ScanInv
<1>13. AllWellFormed(output') <=> /\ \A u \in Ops : Seen(u) \/ u = v => Fetchable(u)
                                  /\ Seen("d") => Emits
  BY <1>3, <1>5, <1>8 DEF ScanInv
<1>14. Seen("d")' <=> Seen("d")
  BY <1>2, <1>6
<1>15. ScanInv'
  BY <1>3, <1>6, <1>9, <1>10, <1>11, <1>12, <1>13, <1>14 DEF ScanInv
<1> QED
  BY <1>1, <1>2, <1>15 DEF AInv, Accepted

\* The entry for the result.
LEMMA ResultStepAccepted == AInv /\ ScanResult => AInv'
<1> SUFFICES ASSUME AInv, ScanResult PROVE AInv'
  OBVIOUS
<1>1. SInv'
  BY ScanResultStep DEF AInv
<1>2. /\ phase = "select" /\ pos' = pos + 1 /\ pos <= Len(ins.list)
      /\ ins.list[pos] = "d" /\ ins' = ins /\ rs1' = rs1 /\ rs2' = rs2
  BY DEF ScanResult, NextEntry
<1>3. /\ IsCase(ins) /\ pos \in 1..(Len(ins.list) + 1) /\ output \in Seq(Emitted)
      /\ {rs1, rs2} \subseteq Machine \cup {None} /\ ScanInv
  BY <1>2 DEF AInv, SInv, TypeOK
<1>4. CASE NeedsRegister /\ D = Spilled
  <2>1. phase' = "abort"
    BY <1>4 DEF ScanResult
  <2>2. ~HasCode(ins)
    BY <1>3, <1>4, HasCodeParts
  <2> QED
    BY <1>1, <1>2, <2>1, <2>2 DEF AInv, Accepted
<1>5. CASE ~(NeedsRegister /\ D = Spilled)
  <2>1. phase' = "select" /\ output' = output \o ResultCode
    BY <1>2, <1>5 DEF ScanResult
  <2>2. Len(ins.list) \in Nat /\ pos \in 1..Len(ins.list) /\ pos \in Nat \ {0}
    BY <1>2, <1>3, ListLength
  <2>3. \A u : Seen(u)' <=> Seen(u) \/ u = "d"
    BY <1>2, <2>2, SeenNext
  <2>4. "d" \notin Ops
    BY <1>3 DEF Ops, IsCase
  <2>5. \A u : Seen(u) <=> Before(u)
    <3> SUFFICES ASSUME NEW u PROVE Seen(u) <=> Before(u)
      OBVIOUS
    <3>1. Seen(u) => Before(u)
      <4> SUFFICES ASSUME Seen(u) PROVE Before(u)
        OBVIOUS
      <4>1. PICK j \in 1..(pos - 1) : ins.list[j] = u
        BY DEF Seen
      <4>2. j \in 1..Len(ins.list) /\ j < pos
        BY <2>2, <4>1
      <4> QED
        BY <1>2, <2>2, <4>1, <4>2 DEF Before
    <3>2. Before(u) => Seen(u)
      <4> SUFFICES ASSUME Before(u) PROVE Seen(u)
        OBVIOUS
      <4>1. PICK j, k \in 1..Len(ins.list) :
                   ins.list[j] = u /\ ins.list[k] = "d" /\ j < k
        BY DEF Before
      <4>2. k = pos
        BY <1>2, <1>3, <2>2, <4>1 DEF IsCase
      <4>3. j \in 1..(pos - 1)
        BY <2>2, <4>1, <4>2
      <4> QED
        BY <4>1, <4>3 DEF Seen
    <3> QED
      BY <3>1, <3>2
  <2>6. ~Seen("d")
    <3> SUFFICES ASSUME Seen("d") PROVE FALSE
      OBVIOUS
    <3>1. PICK j \in 1..(pos - 1) : ins.list[j] = "d"
      BY DEF Seen
    <3>2. j \in 1..Len(ins.list) /\ j # pos
      BY <2>2, <3>1
    <3> QED
      BY <1>2, <1>3, <2>2, <3>1, <3>2 DEF IsCase
  <2>7. ResultCode \in Seq(Emitted)
    <3>1. rs1 \in Source /\ rs2 \in Source
      BY <1>3 DEF Source
    <3> QED
      BY <1>3, <1>5, <3>1, ResultEmitted
  <2>8. AllWellFormed(output') <=> AllWellFormed(output) /\ AllWellFormed(ResultCode)
    <3> HIDE DEF Emitted
    <3> QED
      BY <1>3, <2>1, <2>7, WellFormedJoin
  <2>9. AllWellFormed(output) <=> \A u \in Ops : Seen(u) => Fetchable(u)
    BY <1>3, <2>6 DEF ScanInv
  <2>10. (\A u \in Ops : Seen(u) => Fetchable(u)) => (AllWellFormed(ResultCode) <=> Emits)
    <3> SUFFICES ASSUME \A u \in Ops : Seen(u) => Fetchable(u)
                 PROVE  AllWellFormed(ResultCode) <=> Emits
      OBVIOUS
    <3>1. IsFloat => {rs1, rs2} \cap Scratch = {}
      BY <1>3 DEF ScanInv
    <3>2. AllWellFormed(ResultCode) <=> /\ rs1 # None /\ (HasConst \/ rs2 # None)
                                        /\ ConstantFits /\ ResultPlaced
      BY <1>3, <1>5, <3>1, ResultAccepted
    <3>3. /\ rs1 # None <=> \E u \in Ops : Before(u) /\ SetsFirst(u)
          /\ rs2 # None <=> \E u \in Ops : Before(u) /\ ~SetsFirst(u)
      BY <1>3, <2>5 DEF ScanInv
    <3> QED
      BY <3>2, <3>3 DEF Emits
  <2>11. AllWellFormed(output)' <=> AllWellFormed(output')
    BY <1>2 DEF AllWellFormed, WellFormed, IsFloat
  <2>12. /\ Ops' = Ops /\ Emits' = Emits /\ IsFloat' = IsFloat
         /\ \A u : SetsFirst(u)' = SetsFirst(u) /\ Fetchable(u)' = Fetchable(u)
         /\ (NeedsRegister /\ D = Spilled)' = (NeedsRegister /\ D = Spilled)
    BY <1>2, SameKinds
  <2>13. AllWellFormed(output') <=> (\A u \in Ops : Seen(u) => Fetchable(u)) /\ Emits
    BY <2>8, <2>9, <2>10
  <2>14. \A u \in Ops : Seen(u)' <=> Seen(u)
    BY <2>3, <2>4
  <2>15. Seen("d")'
    BY <2>3
  <2>16. ScanInv'
    BY <1>2, <1>3, <1>5, <2>11, <2>12, <2>13, <2>14, <2>15 DEF ScanInv
  <2> QED
    BY <1>1, <2>1, <2>16 DEF AInv, Accepted
<1> QED
  BY <1>4, <1>5

\* Any other entry.
LEMMA OtherAccepted == AInv /\ ScanOther => AInv'
<1> SUFFICES ASSUME AInv, ScanOther PROVE AInv'
  OBVIOUS
<1>1. SInv'
  BY ScanOtherStep DEF AInv
<1>2. /\ phase = "select" /\ phase' = phase /\ pos' = pos + 1
      /\ ins.list[pos] \notin {"d", ins.l, ins.r} /\ output' = output
      /\ ins' = ins /\ rs1' = rs1 /\ rs2' = rs2
  BY DEF ScanOther, NextEntry
<1>3. IsCase(ins) /\ pos \in Nat \ {0} /\ ScanInv
  <2>1. IsCase(ins) /\ pos \in 1..(Len(ins.list) + 1) /\ ScanInv
    BY <1>2 DEF AInv, SInv, TypeOK
  <2> QED
    BY <2>1, ListLength
<1>4. \A u \in Ops \cup {"d"} : Seen(u)' <=> Seen(u)
  <2>1. \A u : Seen(u)' <=> Seen(u) \/ u = ins.list[pos]
    BY <1>2, <1>3, SeenNext
  <2>2. ins.list[pos] \notin Ops \cup {"d"}
    BY <1>2 DEF Ops
  <2> QED
    BY <2>1, <2>2
<1>5. /\ Ops' = Ops /\ Emits' = Emits /\ IsFloat' = IsFloat
      /\ \A u : SetsFirst(u)' = SetsFirst(u) /\ Fetchable(u)' = Fetchable(u)
      /\ (NeedsRegister /\ D = Spilled)' = (NeedsRegister /\ D = Spilled)
  BY <1>2, SameKinds
<1>6. AllWellFormed(output)' <=> AllWellFormed(output)
  BY <1>2 DEF AllWellFormed, WellFormed, IsFloat
<1>7. (Seen("d")' <=> Seen("d")) /\ \A u \in Ops : Seen(u)' <=> Seen(u)
  BY <1>4
<1>8. ScanInv'
  BY <1>2, <1>3, <1>5, <1>6, <1>7 DEF ScanInv
<1> QED
  BY <1>1, <1>2, <1>8 DEF AInv, Accepted

\* The assembler.
LEMMA AssembleAccepted == AInv /\ Assemble => AInv'
<1> SUFFICES ASSUME AInv, Assemble PROVE AInv'
  OBVIOUS
<1>1. SInv'
  BY AssembleStep DEF AInv
<1>2. /\ phase = "select" /\ ins' = ins /\ pos > Len(ins.list)
      /\ phase' = IF AllWellFormed(output) THEN "run" ELSE "rejected"
  BY DEF Assemble, AllWellFormed
<1>3. IsCase(ins) /\ pos = Len(ins.list) + 1 /\ ScanInv
  <2>1. IsCase(ins) /\ pos \in 1..(Len(ins.list) + 1) /\ ScanInv
    BY <1>2 DEF AInv, SInv, TypeOK
  <2> QED
    BY <1>2, <2>1, ListLength
<1>4. Seen("d") /\ \A v \in Ops : Seen(v)
  <2>1. pos - 1 = Len(ins.list)
    BY <1>3, ListLength
  <2> QED
    BY <1>3, <2>1 DEF Seen, IsCase, Ops
<1>5. HasCode(ins) <=> AllWellFormed(output)
  BY <1>3, <1>4, HasCodeParts DEF ScanInv
<1> QED
  BY <1>1, <1>2, <1>5 DEF AInv, Accepted

\* The run: the code is not looked at any more.
LEMMA RunAccepted == AInv /\ (Execute \/ FallThrough) => AInv'
<1> SUFFICES ASSUME AInv, Execute \/ FallThrough PROVE AInv'
  OBVIOUS
<1>1. SInv'
  BY ExecuteStep, FallThroughStep DEF AInv
<1>2. ins' = ins /\ phase = "run"
  BY DEF Execute, FallThrough
<1>3. phase' \in {"run", "done"}
  BY <1>2 DEF Execute, FallThrough
<1> QED
  BY <1>1, <1>2, <1>3 DEF AInv, Accepted

\* Nothing changes.
LEMMA StutterAccepted == AInv /\ UNCHANGED vars => AInv'
<1> SUFFICES ASSUME AInv, UNCHANGED vars PROVE AInv'
  OBVIOUS
<1>1. SInv'
  BY StutterStep DEF AInv
<1>2. ins' = ins /\ pos' = pos /\ rs1' = rs1 /\ rs2' = rs2 /\ output' = output /\ phase' = phase
  BY DEF vars
<1>3. /\ Ops' = Ops /\ Emits' = Emits /\ IsFloat' = IsFloat
      /\ \A u : SetsFirst(u)' = SetsFirst(u) /\ Fetchable(u)' = Fetchable(u)
      /\ (NeedsRegister /\ D = Spilled)' = (NeedsRegister /\ D = Spilled)
  BY <1>2, SameKinds
<1>4. AllWellFormed(output)' <=> AllWellFormed(output)
  BY <1>2 DEF AllWellFormed, WellFormed, IsFloat
<1>5. \A u : Seen(u)' <=> Seen(u)
  BY <1>2 DEF Seen
<1>6. ScanInv => ScanInv'
  BY <1>2, <1>3, <1>4, <1>5 DEF ScanInv
<1> QED
  BY <1>1, <1>2, <1>6 DEF AInv, Accepted

\* The inductive invariant of acceptance, for all instructions.
LEMMA AcceptanceKept == Spec => []AInv
<1>1. Init => AInv
  BY InitAccepted
<1>2. AInv /\ [Next]_vars => AInv'
  BY OperandAccepted, ResultStepAccepted, OtherAccepted, AssembleAccepted, RunAccepted,
     StutterAccepted DEF Next
<1> QED
  BY <1>1, <1>2, PTL DEF Spec

\* The instruction stays the same.
LEMMA InsConstant == [Next]_vars => ins' = ins
BY DEF Next, vars, ScanOperand, ScanResult, ScanOther, Assemble, Execute, FallThrough

\* Whatever the instruction, binarygen and cmpgen never ask for the register of
\* a spilled value and the assembler takes what they emit, exactly if the
\* instruction is of the kinds HasCode lists.
THEOREM CodeAccepted == Spec => []Accepted
<1>1. AInv => Accepted
  BY DEF AInv
<1> QED
  BY <1>1, AcceptanceKept, PTL

\* The inductive invariant for the covered instructions.
LEMMA ValuesKept == Spec => [](Covered(ins) => VInv)
<1>1. Init => (Covered(ins) => VInv)
  BY InitValues
<1>2. (Covered(ins) => VInv) /\ [Next]_vars /\ Accepted' => (Covered(ins) => VInv)'
  <2> SUFFICES ASSUME Covered(ins) => VInv, [Next]_vars, Accepted', Covered(ins)' PROVE VInv'
    OBVIOUS
  <2>1. ins' = ins
    BY InsConstant
  <2>2. VInv
    BY <2>1
  <2> QED
    BY <2>2, OperandValues, ResultValues, OtherValues, AssembleValues, ExecuteValues,
       FallThroughValues, StutterValues DEF Next
<1> QED
  BY <1>1, <1>2, CodeAccepted, PTL DEF Spec

\* For the covered instructions the code of binarygen leaves the value of the
\* instruction in the place of its result.
THEOREM ValuesRight == Spec => []ValueComputed
<1>1. (Covered(ins) => VInv) => ValueComputed
  BY DEF VInv, ExecInv, ValueComputed
<1> QED
  BY <1>1, ValuesKept, PTL

\* For the covered compares the code of cmpgen branches to the true block
\* exactly when the compare holds, and leaves its truth value.
THEOREM BranchesRight == Spec => []BranchRight
<1>1. (Covered(ins) => VInv) => BranchRight
  BY DEF VInv, ExecInv, BranchRight
<1> QED
  BY <1>1, ValuesKept, PTL
=============================================================================
