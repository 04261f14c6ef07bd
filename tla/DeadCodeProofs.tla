--------------------------- MODULE DeadCodeProofs ---------------------------
(***************************************************************************)
(* Proofs about FuncInfo and DeadCode for every program: the purity        *)
(* analysis is exact, the use lists stay exact, no instruction loses an    *)
(* operand and exactly the dead instructions are erased.                   *)
(***************************************************************************)
EXTENDS DeadCode, FiniteSetTheorems, TLAPS

Held(s) == {s[k] : k \in 1..Len(s)}

(***************************************************************************)
(* The inductive invariant of FuncInfo.                                    *)
(***************************************************************************)

\* What the work list and the uses in process still owe: every caller of an
\* impure function is impure, or will be looked at.
Spreads ==
  IF phase = "trivial"
  THEN \A f \in Fns : f < next /\ ~is_pure[f] => f \in Held(worklist)
  ELSE \A i \in Ins :
         ins[i].callee \in Fns /\ ~is_pure[ins[i].callee]
           => ~is_pure[ins[i].fn] \/ ins[i].callee \in Held(worklist) \/ i \in callers

\* Only functions known to be impure are spread from.
Sources ==
  /\ \A f \in Held(worklist) : f < next /\ ~is_pure[f]
  /\ \A i \in callers : ins[i].callee \in Fns /\ ~is_pure[ins[i].callee]

\* A function that has been looked at is marked impure only for a reason, and
\* always for a reason of its own.
Marked ==
  \A f \in Fns : f < next => /\ TriviallyImpure(f) => ~is_pure[f]
                             /\ ~is_pure[f] => ReachesImpure(f)

PhaseInv ==
  /\ phase = "trivial" => callers = {}
  /\ phase # "trivial" => next = prog.fns + 1
  /\ phase = "ready" => worklist = <<>> /\ callers = {}

FInv == /\ prog \in Programs /\ FuncInfoTypeOK
        /\ Spreads /\ Sources /\ Marked /\ PhaseInv

-----------------------------------------------------------------------------

\* What the assumption says of the program at hand.
LEMMA ProgramFacts ==
  ASSUME prog \in Programs
  PROVE  /\ prog.fns \in Nat /\ prog.size \in Nat
         /\ \A i \in Ins : /\ ins[i].fn \in Fns
                           /\ ins[i].callee \in 0..prog.fns
                           /\ ins[i].ops \subseteq Ins
                           /\ ins[i].kind = "call" <=> ins[i].callee # 0
                           /\ \A j \in ins[i].ops : ins[j].fn = ins[i].fn
<1>1. /\ prog.fns \in Nat /\ prog.size \in Nat
      /\ IsBody(prog.ins, prog.size, prog.fns)
  BY FuncInfoAssumption
<1> QED
  BY <1>1 DEF IsBody, Fns, Ins, ins

\* What depends on the program alone does not change.
LEMMA Static ==
  ASSUME prog' = prog
  PROVE  /\ Fns' = Fns /\ Ins' = Ins /\ ins' = ins
         /\ \A f : TriviallyImpure(f)' <=> TriviallyImpure(f)
         /\ \A f : ReachesImpure(f)' <=> ReachesImpure(f)
         /\ Needed' = Needed
         /\ \A S : UsesOf(S)' = UsesOf(S)
<1>1. Fns' = Fns /\ Ins' = Ins /\ ins' = ins /\ fun' = fun
  BY DEF Fns, Ins, ins, fun
<1>2. IsLocal' = IsLocal
  BY DEF IsLocal, ins
<1>3. \A f : TriviallyImpure(f)' <=> TriviallyImpure(f)
  BY <1>1, <1>2 DEF TriviallyImpure, IsSideEffect
<1>4. \A S : ImpureClosed(S)' <=> ImpureClosed(S)
  BY <1>1, <1>3 DEF ImpureClosed
<1>5. \A f : ReachesImpure(f)' <=> ReachesImpure(f)
  BY <1>1, <1>4 DEF ReachesImpure
<1>6. \A i : Effect(i)' <=> Effect(i)
  BY <1>1, <1>5 DEF Effect
<1>7. Needed' = Needed
  BY <1>1, <1>6 DEF Needed
<1>8. \A S : UsesOf(S)' = UsesOf(S)
  BY <1>1 DEF UsesOf, Operands
<1> QED
  BY <1>1, <1>3, <1>5, <1>7, <1>8

\* Appending and removing at the ends of a work list.
LEMMA HeldAppend ==
  ASSUME NEW S, NEW s \in Seq(S), NEW x \in S
  PROVE  Append(s, x) \in Seq(S) /\ Held(Append(s, x)) = Held(s) \cup {x}
<1>1. /\ Append(s, x) \in Seq(S) /\ Len(Append(s, x)) = Len(s) + 1 /\ Len(s) \in Nat
      /\ Append(s, x)[Len(s) + 1] = x
      /\ \A k \in 1..Len(s) : Append(s, x)[k] = s[k]
  OBVIOUS
<1>2. Held(Append(s, x)) \subseteq Held(s) \cup {x}
  <2> SUFFICES ASSUME NEW k \in 1..(Len(s) + 1)
               PROVE  Append(s, x)[k] \in Held(s) \cup {x}
    BY <1>1 DEF Held
  <2>1. k \in 1..Len(s) \/ k = Len(s) + 1
    BY <1>1
  <2> QED
    BY <1>1, <2>1 DEF Held
<1>3. Held(s) \subseteq Held(Append(s, x)) /\ x \in Held(Append(s, x))
  <2>1. Len(s) + 1 \in 1..(Len(s) + 1) /\ \A k \in 1..Len(s) : k \in 1..(Len(s) + 1)
    BY <1>1
  <2> QED
    BY <1>1, <2>1 DEF Held
<1> QED
  BY <1>1, <1>2, <1>3

\* The work list without its head holds the other elements.
LEMMA HeldTail ==
  ASSUME NEW S, NEW s \in Seq(S), s # <<>>
  PROVE  /\ Tail(s) \in Seq(S) /\ Head(s) \in S
         /\ Held(s) = Held(Tail(s)) \cup {Head(s)}
<1>1. /\ Tail(s) \in Seq(S) /\ Head(s) \in S /\ Head(s) = s[1]
      /\ Len(s) \in Nat /\ Len(s) > 0 /\ Len(Tail(s)) = Len(s) - 1
      /\ \A k \in 1..(Len(s) - 1) : Tail(s)[k] = s[k + 1]
  OBVIOUS
<1>2. Held(s) \subseteq Held(Tail(s)) \cup {Head(s)}
  <2> SUFFICES ASSUME NEW k \in 1..Len(s)
               PROVE  s[k] \in Held(Tail(s)) \cup {Head(s)}
    BY DEF Held
  <2>1. CASE k = 1
    BY <1>1, <2>1
  <2>2. CASE k # 1
    <3>1. k - 1 \in 1..(Len(s) - 1) /\ (k - 1) + 1 = k
      BY <1>1, <2>2
    <3> QED
      BY <1>1, <3>1 DEF Held
  <2> QED
    BY <2>1, <2>2
<1>3. Held(Tail(s)) \subseteq Held(s) /\ Head(s) \in Held(s)
  <2>1. 1 \in 1..Len(s) /\ \A k \in 1..(Len(s) - 1) : k + 1 \in 1..Len(s)
    BY <1>1
  <2> QED
    BY <1>1, <2>1 DEF Held
<1> QED
  BY <1>1, <1>2, <1>3

\* An empty work list holds nothing.
LEMMA HeldEmpty == Held(<<>>) = {}
BY DEF Held

-----------------------------------------------------------------------------

\* The purity analysis starts with its invariant.
LEMMA FInitInv == Init => FInv
<1> SUFFICES ASSUME Init PROVE FInv
  OBVIOUS
<1>1. prog \in Programs /\ prog.fns \in Nat
  BY ProgramFacts DEF Init
<1>2. FuncInfoTypeOK
  <2>1. worklist \in Seq(Fns) /\ callers \in SUBSET Ins
    BY DEF Init
  <2>2. next \in 1..(prog.fns + 1)
    BY <1>1 DEF Init
  <2> QED
    BY <2>1, <2>2 DEF Init, FuncInfoTypeOK
<1>3. next = 1 /\ \A f \in Fns : ~(f < 1)
  BY DEF Init, Fns
<1>4. Spreads /\ Marked
  BY <1>3 DEF Init, Spreads, Marked
<1>5. Sources /\ PhaseInv
  BY HeldEmpty DEF Init, Sources, PhaseInv
<1> QED
  BY <1>1, <1>2, <1>4, <1>5 DEF FInv

\* trivial_mark keeps the invariant.
LEMMA TrivialMarkInv == ASSUME FInv, TrivialMark PROVE FInv'
<1>1. /\ phase = "trivial" /\ next \in Fns
      /\ is_pure' = [is_pure EXCEPT ![next] = ~TriviallyImpure(next)]
      /\ worklist' = IF TriviallyImpure(next) THEN Append(worklist, next) ELSE worklist
      /\ next' = next + 1
      /\ prog' = prog /\ phase' = phase /\ callers' = callers
  BY DEF TrivialMark
<1>2. prog \in Programs /\ FuncInfoTypeOK /\ Spreads /\ Sources /\ Marked /\ PhaseInv
  BY DEF FInv
<1>3. prog.fns \in Nat
  BY <1>2, ProgramFacts
<1>4. Fns' = Fns /\ Ins' = Ins /\ ins' = ins
  BY <1>1, Static
<1>5. /\ is_pure'[next] <=> ~TriviallyImpure(next)
      /\ \A f \in Fns : f # next => is_pure'[f] = is_pure[f]
  BY <1>1, <1>2 DEF FuncInfoTypeOK
<1>6. worklist \in Seq(Fns) /\ worklist' \in Seq(Fns)
      /\ Held(worklist') = Held(worklist) \cup (IF TriviallyImpure(next) THEN {next} ELSE {})
  BY <1>1, <1>2, HeldAppend DEF FuncInfoTypeOK
<1>7. FuncInfoTypeOK'
  <2>1. next' \in 1..(prog'.fns + 1)
    BY <1>1, <1>3 DEF Fns
  <2>2. is_pure' \in [Fns -> BOOLEAN]
    BY <1>1, <1>2 DEF FuncInfoTypeOK
  <2> QED
    BY <1>1, <1>2, <1>4, <1>6, <2>1, <2>2 DEF FuncInfoTypeOK
<1>8. \A f \in Fns : f < next' => f < next \/ f = next
  BY <1>1 DEF Fns
<1>9. \A f \in Fns : f < next => f # next
  BY <1>1 DEF Fns
<1>10. Spreads'
  <2> SUFFICES ASSUME NEW f \in Fns, f < next', ~is_pure'[f]
               PROVE  f \in Held(worklist')
    BY <1>1, <1>4 DEF Spreads
  <2>1. CASE f = next
    BY <1>5, <1>6, <2>1
  <2>2. CASE f < next
    BY <1>1, <1>2, <1>5, <1>6, <1>9, <2>2 DEF Spreads
  <2> QED
    BY <1>8, <2>1, <2>2
<1>11. Sources'
  <2>1. callers' = {}
    BY <1>1, <1>2 DEF PhaseInv
  <2>2. ASSUME NEW f \in Held(worklist')
        PROVE  f < next' /\ ~is_pure'[f]
    <3>1. f \in Fns
      BY <1>6 DEF Held
    <3>2. CASE f \in Held(worklist)
      <4>1. f < next /\ ~is_pure[f]
        BY <1>2, <3>2 DEF Sources
      <4>2. f < next'
        BY <1>1, <3>1, <4>1 DEF Fns
      <4> QED
        BY <1>5, <1>9, <3>1, <4>1, <4>2
    <3>3. CASE f = next /\ TriviallyImpure(next)
      <4>1. f < next'
        BY <1>1, <3>3 DEF Fns
      <4> QED
        BY <1>5, <3>3, <4>1
    <3> QED
      BY <1>6, <3>2, <3>3
  <2> QED
    BY <2>1, <2>2 DEF Sources
<1>12. Marked'
  <2> SUFFICES ASSUME NEW f \in Fns, f < next'
               PROVE  /\ TriviallyImpure(f) => ~is_pure'[f]
                      /\ ~is_pure'[f] => ReachesImpure(f)
    BY <1>1, <1>4, Static DEF Marked
  <2>1. CASE f = next
    BY <1>5, <2>1 DEF ReachesImpure, ImpureClosed
  <2>2. CASE f < next
    BY <1>2, <1>5, <1>9, <2>2 DEF Marked
  <2> QED
    BY <1>8, <2>1, <2>2
<1>13. PhaseInv'
  BY <1>1, <1>2 DEF PhaseInv
<1> QED
  BY <1>1, <1>2, <1>7, <1>10, <1>11, <1>12, <1>13 DEF FInv

\* The first loop of run ends with every impure function on the work list.
LEMMA TrivialDoneInv == ASSUME FInv, TrivialDone PROVE FInv'
<1>1. /\ phase = "trivial" /\ next \notin Fns /\ phase' = "process"
      /\ prog' = prog /\ next' = next /\ is_pure' = is_pure
      /\ worklist' = worklist /\ callers' = callers
  BY DEF TrivialDone
<1>2. prog \in Programs /\ FuncInfoTypeOK /\ Spreads /\ Sources /\ Marked /\ PhaseInv
  BY DEF FInv
<1>3. prog.fns \in Nat /\ Fns' = Fns /\ Ins' = Ins /\ ins' = ins
  BY <1>1, <1>2, ProgramFacts, Static
<1>4. next = prog.fns + 1
  BY <1>1, <1>2, <1>3 DEF FuncInfoTypeOK, Fns
<1>5. FuncInfoTypeOK'
  BY <1>1, <1>2, <1>3 DEF FuncInfoTypeOK
<1>6. \A f \in Fns : f < next
  BY <1>3, <1>4 DEF Fns
<1>7. Spreads'
  BY <1>1, <1>2, <1>3, <1>6 DEF Spreads
<1>8. Sources'
  BY <1>1, <1>2, <1>3 DEF Sources
<1>9. Marked'
  BY <1>1, <1>2, <1>3, Static DEF Marked
<1>10. PhaseInv'
  BY <1>1, <1>2, <1>4 DEF PhaseInv
<1> QED
  BY <1>1, <1>2, <1>5, <1>7, <1>8, <1>9, <1>10 DEF FInv

\* process starts on the head of the work list.
LEMMA ProcessInv == ASSUME FInv, Process PROVE FInv'
<1> DEFINE now == Head(worklist)
<1>1. /\ phase = "process" /\ callers = {} /\ worklist # <<>>
      /\ callers' = {i \in Ins : ins[i].callee = now}
      /\ worklist' = Tail(worklist)
      /\ prog' = prog /\ phase' = phase /\ next' = next /\ is_pure' = is_pure
  BY DEF Process
<1>2. prog \in Programs /\ FuncInfoTypeOK /\ Spreads /\ Sources /\ Marked /\ PhaseInv
  BY DEF FInv
<1>3. Fns' = Fns /\ Ins' = Ins /\ ins' = ins
  BY <1>1, Static
<1>4. worklist \in Seq(Fns)
  BY <1>2 DEF FuncInfoTypeOK
<1>5. now \in Fns /\ worklist' \in Seq(Fns) /\ Held(worklist) = Held(worklist') \cup {now}
  BY <1>1, <1>4, HeldTail
<1> HIDE DEF now
<1>6. FuncInfoTypeOK'
  BY <1>1, <1>2, <1>3, <1>5 DEF FuncInfoTypeOK
<1>7. Spreads'
  BY <1>1, <1>2, <1>3, <1>5 DEF Spreads
<1>8. Sources'
  BY <1>1, <1>2, <1>3, <1>5 DEF Sources
<1>9. Marked'
  BY <1>1, <1>2, <1>3, Static DEF Marked
<1>10. PhaseInv'
  BY <1>1, <1>2 DEF PhaseInv
<1> QED
  BY <1>1, <1>2, <1>6, <1>7, <1>8, <1>9, <1>10 DEF FInv

\* The caller of an impure function becomes impure, for a reason, and is put on
\* the work list.
LEMMA ProcessUseInv == ASSUME FInv, ProcessUse PROVE FInv'
<1>1. PICK i \in callers :
        /\ callers' = callers \ {i}
        /\ IF is_pure[ins[i].fn]
           THEN /\ is_pure' = [is_pure EXCEPT ![ins[i].fn] = FALSE]
                /\ worklist' = Append(worklist, ins[i].fn)
           ELSE is_pure' = is_pure /\ worklist' = worklist
  BY DEF ProcessUse, Enqueue
<1>2. phase = "process" /\ prog' = prog /\ phase' = phase /\ next' = next
  BY DEF ProcessUse
<1>3. prog \in Programs /\ FuncInfoTypeOK /\ Spreads /\ Sources /\ Marked /\ PhaseInv
  BY DEF FInv
<1>4. Fns' = Fns /\ Ins' = Ins /\ ins' = ins
  BY <1>2, Static
<1>5. i \in Ins /\ ins[i].fn \in Fns /\ ins[i].callee \in Fns /\ ~is_pure[ins[i].callee]
  <2>1. i \in Ins
    BY <1>3 DEF FuncInfoTypeOK
  <2> QED
    BY <1>3, <2>1, ProgramFacts DEF Sources
<1>6. \A f \in Fns : f < next
  BY <1>2, <1>3, ProgramFacts DEF PhaseInv, Fns
<1>7. /\ ~is_pure'[ins[i].fn]
      /\ \A f \in Fns : f # ins[i].fn => is_pure'[f] = is_pure[f]
      /\ is_pure' \in [Fns -> BOOLEAN]
  BY <1>1, <1>3, <1>5 DEF FuncInfoTypeOK
<1>8. /\ worklist' \in Seq(Fns)
      /\ Held(worklist) \subseteq Held(worklist')
      /\ Held(worklist') \subseteq Held(worklist) \cup {ins[i].fn}
      /\ is_pure[ins[i].fn] => ins[i].fn \in Held(worklist')
  <2>1. worklist \in Seq(Fns)
    BY <1>3 DEF FuncInfoTypeOK
  <2>2. /\ Append(worklist, ins[i].fn) \in Seq(Fns)
        /\ Held(Append(worklist, ins[i].fn)) = Held(worklist) \cup {ins[i].fn}
    BY <1>5, <2>1, HeldAppend
  <2> QED
    BY <1>1, <2>1, <2>2
<1>9. FuncInfoTypeOK'
  BY <1>1, <1>2, <1>3, <1>4, <1>7, <1>8 DEF FuncInfoTypeOK
<1>10. Spreads'
  <2> SUFFICES ASSUME NEW j \in Ins, ins[j].callee \in Fns, ~is_pure'[ins[j].callee]
               PROVE  \/ ~is_pure'[ins[j].fn]
                      \/ ins[j].callee \in Held(worklist')
                      \/ j \in callers'
    BY <1>2, <1>4 DEF Spreads
  <2>1. ins[j].fn \in Fns
    BY <1>3, ProgramFacts
  <2>2. CASE j = i
    BY <1>7, <2>2
  <2>3. CASE j # i /\ ~is_pure[ins[j].callee]
    <3>1. ~is_pure[ins[j].fn] \/ ins[j].callee \in Held(worklist) \/ j \in callers
      BY <1>2, <1>3, <2>3 DEF Spreads
    <3> QED
      BY <1>1, <1>7, <1>8, <2>1, <2>3, <3>1
  <2>4. CASE j # i /\ is_pure[ins[j].callee]
    <3>1. ins[j].callee = ins[i].fn
      BY <1>7, <2>4
    <3> QED
      BY <1>8, <2>4, <3>1
  <2> QED
    BY <2>2, <2>3, <2>4
<1>11. Sources'
  <2>1. \A f \in Held(worklist') : f < next /\ ~is_pure'[f]
    <3> SUFFICES ASSUME NEW f \in Held(worklist') PROVE f < next /\ ~is_pure'[f]
      OBVIOUS
    <3>1. f \in Fns
      BY <1>8 DEF Held
    <3>2. f = ins[i].fn \/ ~is_pure[f]
      BY <1>3, <1>8 DEF Sources
    <3> QED
      BY <1>6, <1>7, <3>1, <3>2
  <2>2. \A j \in callers' : ins[j].callee \in Fns /\ ~is_pure'[ins[j].callee]
    BY <1>1, <1>3, <1>7 DEF Sources
  <2> QED
    BY <1>2, <1>4, <2>1, <2>2 DEF Sources
<1>12. Marked'
  <2>1. ReachesImpure(ins[i].fn)
    <3>1. ReachesImpure(ins[i].callee)
      BY <1>3, <1>5, <1>6 DEF Marked
    <3> QED
      BY <1>5, <3>1 DEF ReachesImpure, ImpureClosed
  <2> SUFFICES ASSUME NEW f \in Fns, f < next
               PROVE  /\ TriviallyImpure(f) => ~is_pure'[f]
                      /\ ~is_pure'[f] => ReachesImpure(f)
    BY <1>2, <1>4, Static DEF Marked
  <2>2. CASE f = ins[i].fn
    BY <1>7, <2>1, <2>2
  <2>3. CASE f # ins[i].fn
    BY <1>3, <1>7, <2>3 DEF Marked
  <2> QED
    BY <2>2, <2>3
<1>13. PhaseInv'
  BY <1>2, <1>3 DEF PhaseInv
<1> QED
  BY <1>2, <1>3, <1>9, <1>10, <1>11, <1>12, <1>13 DEF FInv

\* The analysis ends.
LEMMA FuncInfoDoneInv == ASSUME FInv, FuncInfoDone PROVE FInv'
<1>1. /\ phase = "process" /\ callers = {} /\ worklist = <<>> /\ phase' = "ready"
      /\ prog' = prog /\ next' = next /\ is_pure' = is_pure
      /\ worklist' = worklist /\ callers' = callers
  BY DEF FuncInfoDone
<1>2. prog \in Programs /\ FuncInfoTypeOK /\ Spreads /\ Sources /\ Marked /\ PhaseInv
  BY DEF FInv
<1>3. Fns' = Fns /\ Ins' = Ins /\ ins' = ins
  BY <1>1, Static
<1>4. FuncInfoTypeOK' /\ PhaseInv'
  BY <1>1, <1>2, <1>3 DEF FuncInfoTypeOK, PhaseInv
<1>5. Spreads' /\ Sources'
  BY <1>1, <1>2, <1>3 DEF Spreads, Sources
<1>6. Marked'
  BY <1>1, <1>2, <1>3, Static DEF Marked
<1> QED
  BY <1>1, <1>2, <1>4, <1>5, <1>6 DEF FInv

\* Nothing else changes what FuncInfo computed.
LEMMA FKeep == ASSUME FInv, UNCHANGED fiVars PROVE FInv'
<1>1. /\ prog' = prog /\ next' = next /\ is_pure' = is_pure /\ phase' = phase
      /\ worklist' = worklist /\ callers' = callers
  BY DEF fiVars
<1>2. Fns' = Fns /\ Ins' = Ins /\ ins' = ins
  BY <1>1, Static
<1>3. FuncInfoTypeOK' /\ PhaseInv'
  BY <1>1, <1>2 DEF FInv, FuncInfoTypeOK, PhaseInv
<1>4. Spreads' /\ Sources'
  BY <1>1, <1>2 DEF FInv, Spreads, Sources
<1>5. Marked'
  BY <1>1, <1>2, Static DEF FInv, Marked
<1> QED
  BY <1>1, <1>3, <1>4, <1>5 DEF FInv

\* Every step of the purity analysis keeps its invariant and the program.
LEMMA FStepInv == ASSUME FInv, FuncInfoNext PROVE FInv' /\ prog' = prog
<1>1. FInv'
  BY TrivialMarkInv, TrivialDoneInv, ProcessInv, ProcessUseInv, FuncInfoDoneInv
     DEF FuncInfoNext
<1>2. prog' = prog
  BY DEF FuncInfoNext, TrivialMark, TrivialDone, Process, ProcessUse, FuncInfoDone
<1> QED
  BY <1>1, <1>2

\* When nothing is left to spread, the impure functions form a closed set.
LEMMA FInvPurity == FInv => PurityExact
<1> SUFFICES ASSUME FInv, phase = "ready", NEW f \in Fns
             PROVE  is_pure[f] <=> ~ReachesImpure(f)
  BY DEF PurityExact
<1>1. worklist = <<>> /\ callers = {} /\ next = prog.fns + 1
  BY DEF FInv, PhaseInv
<1>2. \A g \in Fns : g < next
  BY <1>1, ProgramFacts DEF FInv, Fns
<1>3. ~is_pure[f] => ReachesImpure(f)
  BY <1>2 DEF FInv, Marked
<1>4. ImpureClosed({g \in Fns : ~is_pure[g]})
  <2>1. \A g \in Fns : TriviallyImpure(g) => ~is_pure[g]
    BY <1>2 DEF FInv, Marked
  <2>2. \A i \in Ins : ins[i].callee \in Fns /\ ~is_pure[ins[i].callee]
                         => ~is_pure[ins[i].fn]
    BY <1>1, HeldEmpty DEF FInv, Spreads
  <2>3. \A i \in Ins : ins[i].fn \in Fns
    BY ProgramFacts DEF FInv
  <2> QED
    BY <2>1, <2>2, <2>3 DEF ImpureClosed
<1>5. ReachesImpure(f) => ~is_pure[f]
  BY <1>4 DEF ReachesImpure
<1> QED
  BY <1>3, <1>5

-----------------------------------------------------------------------------
(***************************************************************************)
(* The inductive invariant of DeadCode.                                    *)
(***************************************************************************)

\* Entries leave the use lists one instruction at a time, before the erasure.
UsesInv ==
  IF step = "unuse" THEN uses = UsesOf(alive \ (wait_del \ rest))
  ELSE uses = UsesOf(alive) /\ rest = {}

\* While a function is marked: what is marked is needed, and what it needs is
\* marked or will be when the work list is empty.
MarkInv ==
  step \in {"mark", "unuse"} =>
    /\ func \in Fns
    /\ marked \subseteq alive
    /\ marked \subseteq Needed
    /\ \A i \in marked : ins[i].fn = func
    /\ \A i \in alive : ins[i].fn = func /\ is_critical(i) => i \in marked
    /\ \A i \in marked : i \in Held(work_list) \/ ins[i].ops \subseteq marked
    /\ Held(work_list) \subseteq marked

\* What sweep collected.
SweepInv ==
  step = "unuse" => work_list = <<>> /\ wait_del = Collect /\ rest \subseteq wait_del

\* The functions before func have only needed instructions left.
RoundInv ==
  /\ Needed \subseteq alive
  /\ \A i \in alive : ins[i].fn < func => i \in Needed
  /\ step # "idle" => phase = "ready"
  /\ step = "done" => func = prog.fns + 1

IInv == /\ FInv /\ TypeOK /\ NoDanglingOperand
        /\ UsesInv /\ MarkInv /\ SweepInv /\ RoundInv

-----------------------------------------------------------------------------

\* Needed is the least closed set.
LEMMA NeededFacts ==
  /\ Needed \subseteq Ins
  /\ \A j \in Ins : Effect(j) => j \in Needed
  /\ \A j \in Needed : \A d \in ins[j].ops \cap Ins : d \in Needed
  /\ \A S \in SUBSET Ins :
       (\A j \in Ins : Effect(j) => j \in S) /\ (\A j \in S : ins[j].ops \subseteq S)
         => Needed \subseteq S
BY DEF Needed

\* The sequence of a work list holds what is to be listed.
LEMMA ListingFacts ==
  ASSUME prog \in Programs, NEW S \in SUBSET Ins, NEW s \in Listings(S)
  PROVE  s \in Seq(Ins) /\ Held(s) = S
<1> DEFINE n == Cardinality(S)
<1>1. n \in Nat
  <2>1. IsFiniteSet(Ins)
    BY ProgramFacts, FS_Interval DEF Ins
  <2>2. IsFiniteSet(S)
    BY <2>1, FS_Subset
  <2> QED
    BY <2>2, FS_CardinalityType
<1>2. s \in [1..n -> S] /\ \A x \in S : \E k \in 1..n : s[k] = x
  BY DEF Listings
<1> HIDE DEF n
<1>3. s \in [1..n -> Ins]
  BY <1>2
<1>4. s \in Seq(Ins) /\ Len(s) = n
  BY <1>1, <1>3
<1> QED
  BY <1>2, <1>4 DEF Held

\* A concatenation holds what its two parts hold.
LEMMA HeldConcat ==
  ASSUME NEW S, NEW s \in Seq(S), NEW t \in Seq(S)
  PROVE  s \o t \in Seq(S) /\ Held(s \o t) = Held(s) \cup Held(t)
<1>1. /\ s \o t \in Seq(S) /\ Len(s) \in Nat /\ Len(t) \in Nat
      /\ Len(s \o t) = Len(s) + Len(t)
  OBVIOUS
<1>2. \A k \in 1..(Len(s) + Len(t)) :
        (s \o t)[k] = IF k <= Len(s) THEN s[k] ELSE t[k - Len(s)]
  BY <1>1
<1>3. Held(s \o t) \subseteq Held(s) \cup Held(t)
  <2> SUFFICES ASSUME NEW k \in 1..(Len(s) + Len(t))
               PROVE  (s \o t)[k] \in Held(s) \cup Held(t)
    BY <1>1 DEF Held
  <2>1. CASE k <= Len(s)
    <3>1. k \in 1..Len(s)
      BY <1>1, <2>1
    <3> QED
      BY <1>2, <2>1, <3>1 DEF Held
  <2>2. CASE ~(k <= Len(s))
    <3>1. k - Len(s) \in 1..Len(t)
      BY <1>1, <2>2
    <3> QED
      BY <1>2, <2>2, <3>1 DEF Held
  <2> QED
    BY <2>1, <2>2
<1>4. Held(s) \subseteq Held(s \o t)
  <2> SUFFICES ASSUME NEW k \in 1..Len(s) PROVE s[k] \in Held(s \o t)
    BY DEF Held
  <2>1. k \in 1..(Len(s) + Len(t)) /\ k <= Len(s)
    BY <1>1
  <2> QED
    BY <1>1, <1>2, <2>1 DEF Held
<1>5. Held(t) \subseteq Held(s \o t)
  <2> SUFFICES ASSUME NEW k \in 1..Len(t) PROVE t[k] \in Held(s \o t)
    BY DEF Held
  <2>1. /\ Len(s) + k \in 1..(Len(s) + Len(t)) /\ ~(Len(s) + k <= Len(s))
        /\ (Len(s) + k) - Len(s) = k
    BY <1>1
  <2> QED
    BY <1>1, <1>2, <2>1 DEF Held
<1> QED
  BY <1>1, <1>3, <1>4, <1>5

\* The use lists.
LEMMA UsesFacts ==
  ASSUME prog \in Programs
  PROVE  /\ \A S \in SUBSET Ins : UsesOf(S) \in SUBSET (Int \X Ins)
         /\ \A S \in SUBSET Ins : \A i \in Ins :
              {u \in UsesOf(S) : u[2] # i} = UsesOf(S \ {i})
<1>1. \A i \in Ins : Operands(i) \subseteq Int
  <2> SUFFICES ASSUME NEW i \in Ins PROVE Operands(i) \subseteq Int
    OBVIOUS
  <2>1. ins[i].ops \subseteq Ins /\ ins[i].callee \in 0..prog.fns /\ prog.fns \in Nat
    BY ProgramFacts
  <2>2. Ins \subseteq Int
    BY ProgramFacts DEF Ins
  <2>3. -ins[i].callee \in Int
    BY <2>1
  <2> QED
    BY <2>1, <2>2, <2>3 DEF Operands
<1>2. \A S \in SUBSET Ins : UsesOf(S) \in SUBSET (Int \X Ins)
  BY <1>1 DEF UsesOf
<1>3. \A S \in SUBSET Ins : \A i \in Ins :
        {u \in UsesOf(S) : u[2] # i} = UsesOf(S \ {i})
  BY DEF UsesOf
<1> QED
  BY <1>2, <1>3

\* Once FuncInfo is done, the critical instructions are the effects.
LEMMA CriticalIsEffect ==
  ASSUME FInv, phase = "ready", NEW i \in Ins
  PROVE  is_critical(i) <=> Effect(i)
<1>1. ins[i].callee \in 0..prog.fns /\ (ins[i].kind = "call" <=> ins[i].callee # 0)
      /\ prog.fns \in Nat
  BY ProgramFacts DEF FInv
<1>2. ins[i].callee # 0 => ins[i].callee \in Fns
  BY <1>1 DEF Fns
<1>3. \A f \in Fns : is_pure[f] <=> ~ReachesImpure(f)
  BY FInvPurity DEF PurityExact
<1> QED
  BY <1>1, <1>2, <1>3 DEF is_critical, Effect

\* The composition starts with the invariant.
LEMMA DInitInv == DCInit => IInv
<1> SUFFICES ASSUME DCInit PROVE IInv
  OBVIOUS
<1>1. FInv
  BY FInitInv DEF DCInit
<1>2. prog \in Programs /\ prog.fns \in Nat /\ FuncInfoTypeOK
  BY <1>1, ProgramFacts DEF FInv
<1>3. /\ step = "idle" /\ func = 1 /\ changed = FALSE /\ alive = Ins /\ uses = UsesOf(Ins)
      /\ marked = {} /\ work_list = <<>> /\ wait_del = {} /\ rest = {}
  BY DEF DCInit
<1>4. TypeOK
  <2>1. func \in 1..(prog.fns + 1)
    BY <1>2, <1>3
  <2>2. uses \in SUBSET (Int \X Ins)
    BY <1>2, <1>3, UsesFacts
  <2>3. work_list \in Seq(Ins)
    BY <1>3
  <2> QED
    BY <1>2, <1>3, <2>1, <2>2, <2>3 DEF TypeOK
<1>5. NoDanglingOperand
  BY <1>2, <1>3, ProgramFacts DEF NoDanglingOperand
<1>6. UsesInv /\ MarkInv /\ SweepInv
  BY <1>3 DEF UsesInv, MarkInv, SweepInv
<1>7. RoundInv
  <2>1. \A i \in Ins : ~(ins[i].fn < 1)
    BY <1>2, ProgramFacts DEF Fns
  <2> QED
    BY <1>3, <2>1, NeededFacts DEF RoundInv
<1> QED
  BY <1>1, <1>4, <1>5, <1>6, <1>7 DEF IInv

\* FuncInfo runs before anything is marked.
LEMMA AnalyseInv == ASSUME IInv, Analyse PROVE IInv'
<1>1. FInv' /\ prog' = prog
  BY FStepInv DEF IInv, Analyse
<1>2. /\ step' = step /\ func' = func /\ changed' = changed /\ alive' = alive
      /\ uses' = uses /\ marked' = marked /\ work_list' = work_list
      /\ wait_del' = wait_del /\ rest' = rest
  BY DEF Analyse, dcVars
<1>3. Fns' = Fns /\ Ins' = Ins /\ ins' = ins /\ Needed' = Needed
      /\ \A S : UsesOf(S)' = UsesOf(S)
  BY <1>1, Static
<1>4. step = "idle"
  <2>1. phase # "ready"
    BY DEF Analyse, FuncInfoNext, TrivialMark, TrivialDone, Process, ProcessUse, FuncInfoDone
  <2> QED
    BY <2>1 DEF IInv, RoundInv
<1>5. TypeOK'
  BY <1>1, <1>2, <1>3 DEF IInv, FInv, TypeOK
<1>6. NoDanglingOperand'
  BY <1>2, <1>3 DEF IInv, NoDanglingOperand
<1>7. UsesInv'
  <2>1. uses = UsesOf(alive) /\ rest = {}
    BY <1>4 DEF IInv, UsesInv
  <2>2. UsesOf(alive)' = UsesOf(alive)
    BY <1>2, <1>3 DEF UsesOf, Operands
  <2> QED
    BY <1>2, <1>4, <2>1, <2>2 DEF UsesInv
<1>8. MarkInv' /\ SweepInv'
  BY <1>2, <1>4 DEF MarkInv, SweepInv
<1>9. RoundInv'
  BY <1>1, <1>2, <1>3, <1>4 DEF IInv, RoundInv
<1> QED
  BY <1>1, <1>5, <1>6, <1>7, <1>8, <1>9 DEF IInv

\* What every step of DeadCode proper leaves alone.
LEMMA DFrame ==
  ASSUME IInv, UNCHANGED fiVars
  PROVE  /\ FInv' /\ FInv /\ prog \in Programs /\ prog' = prog /\ phase' = phase
         /\ Fns' = Fns /\ Ins' = Ins /\ ins' = ins /\ Needed' = Needed
         /\ \A i : is_critical(i)' <=> is_critical(i)
         /\ \A S : UsesOf(S)' = UsesOf(S)
         /\ FuncInfoTypeOK' /\ FuncInfoTypeOK /\ prog.fns \in Nat
<1>1. prog' = prog /\ phase' = phase /\ is_pure' = is_pure
  BY DEF fiVars
<1>2. FInv /\ FInv'
  BY FKeep DEF IInv
<1>3. Fns' = Fns /\ Ins' = Ins /\ ins' = ins /\ Needed' = Needed
      /\ \A S : UsesOf(S)' = UsesOf(S)
  BY <1>1, Static
<1>4. \A i : is_critical(i)' <=> is_critical(i)
  BY <1>1, <1>3 DEF is_critical
<1>5. FuncInfoTypeOK' /\ FuncInfoTypeOK /\ prog \in Programs /\ prog.fns \in Nat
  BY <1>2, ProgramFacts DEF FInv
<1> QED
  BY <1>1, <1>2, <1>3, <1>4, <1>5

\* mark(func) starts from the critical instructions.
LEMMA MarkCriticalInv == ASSUME IInv, MarkCritical PROVE IInv'
<1> DEFINE critical == {i \in alive : ins[i].fn = func /\ is_critical(i)}
<1>1. /\ phase = "ready" /\ step = "idle" /\ func \in Fns /\ marked' = critical
      /\ step' = "mark" /\ UNCHANGED fiVars
      /\ func' = func /\ changed' = changed /\ alive' = alive /\ uses' = uses
      /\ wait_del' = wait_del /\ rest' = rest
      /\ work_list' \in Listings(critical)
  BY DEF MarkCritical
<1>2. /\ FInv' /\ FInv /\ prog \in Programs /\ prog' = prog /\ phase' = phase
      /\ Fns' = Fns /\ Ins' = Ins /\ ins' = ins /\ Needed' = Needed
      /\ FuncInfoTypeOK'
  BY <1>1, DFrame
<1>3. \A i : is_critical(i)' <=> is_critical(i)
  BY <1>1, DFrame
<1>4. TypeOK /\ NoDanglingOperand /\ UsesInv /\ RoundInv
  BY DEF IInv
<1>5. critical \in SUBSET Ins /\ critical \subseteq alive
  BY <1>4 DEF TypeOK
<1>6. work_list' \in Seq(Ins) /\ Held(work_list') = critical
  BY <1>1, <1>2, <1>5, ListingFacts
<1>7. critical \subseteq Needed
  <2>1. \A i \in critical : Effect(i)
    BY <1>1, <1>2, <1>5, CriticalIsEffect
  <2> QED
    BY <1>5, <2>1, NeededFacts
<1>8. TypeOK'
  BY <1>1, <1>2, <1>4, <1>5, <1>6 DEF TypeOK
<1>9. NoDanglingOperand'
  BY <1>1, <1>2, <1>4 DEF NoDanglingOperand
<1>10. UsesInv'
  <2>1. UsesOf(alive)' = UsesOf(alive)
    BY <1>1, <1>2 DEF UsesOf, Operands
  <2> QED
    BY <1>1, <1>4, <2>1 DEF UsesInv
<1>11. MarkInv'
  BY <1>1, <1>2, <1>3, <1>5, <1>6, <1>7 DEF MarkInv
<1>12. SweepInv' /\ RoundInv'
  BY <1>1, <1>2, <1>4 DEF SweepInv, RoundInv
<1> QED
  BY <1>2, <1>8, <1>9, <1>10, <1>11, <1>12 DEF IInv

\* mark(ins) adds the operands of an instruction that is needed.
LEMMA MarkInstrInv == ASSUME IInv, MarkInstr PROVE IInv'
<1> DEFINE now == Head(work_list)
           new == NewDefs(now)
<1>1. /\ step = "mark" /\ work_list # <<>> /\ marked' = marked \cup new
      /\ UNCHANGED fiVars /\ step' = step
      /\ func' = func /\ changed' = changed /\ alive' = alive /\ uses' = uses
      /\ wait_del' = wait_del /\ rest' = rest
  BY DEF MarkInstr
<1>2. PICK s \in Listings(new) : work_list' = Tail(work_list) \o s
  BY DEF MarkInstr
<1>3. /\ FInv' /\ FInv /\ prog \in Programs /\ prog' = prog /\ phase' = phase
      /\ Fns' = Fns /\ Ins' = Ins /\ ins' = ins /\ Needed' = Needed
      /\ FuncInfoTypeOK'
  BY <1>1, DFrame
<1>4. \A i : is_critical(i)' <=> is_critical(i)
  BY <1>1, DFrame
<1>5. TypeOK /\ NoDanglingOperand /\ UsesInv /\ MarkInv /\ RoundInv
  BY DEF IInv
<1>6. /\ now \in Ins /\ Tail(work_list) \in Seq(Ins)
      /\ Held(work_list) = Held(Tail(work_list)) \cup {now}
  <2>1. work_list \in Seq(Ins)
    BY <1>5 DEF TypeOK
  <2> QED
    BY <1>1, <2>1, HeldTail
<1>7. now \in marked /\ now \in alive /\ now \in Needed /\ ins[now].fn = func
  BY <1>1, <1>5, <1>6 DEF MarkInv
<1>8. ins[now].ops \subseteq alive /\ alive \subseteq Ins
  BY <1>5, <1>7 DEF NoDanglingOperand, TypeOK
<1>9. \A d \in ins[now].ops : ins[d].fn = func /\ d \in Needed
  BY <1>3, <1>6, <1>7, <1>8, NeededFacts, ProgramFacts
<1>10. /\ new \subseteq ins[now].ops
       /\ ins[now].ops \subseteq marked \cup new
  BY <1>7, <1>9 DEF NewDefs
<1>11. /\ new \in SUBSET Ins
  BY <1>8, <1>10
<1>12. s \in Seq(Ins) /\ Held(s) = new
  BY <1>3, <1>11, ListingFacts
<1> HIDE DEF new, now
<1>13. work_list' \in Seq(Ins) /\ Held(work_list') = Held(Tail(work_list)) \cup new
  <2> DEFINE t == Tail(work_list)
  <2>1. t \in Seq(Ins) /\ s \in Seq(Ins) /\ Held(s) = new /\ work_list' = t \o s
    BY <1>2, <1>6, <1>12
  <2> HIDE DEF t
  <2>2. t \o s \in Seq(Ins) /\ Held(t \o s) = Held(t) \cup Held(s)
    BY <2>1, HeldConcat, Zenon
  <2>3. work_list' \in Seq(Ins) /\ Held(work_list') = Held(t) \cup new
    BY <2>1, <2>2
  <2> QED
    BY <2>3 DEF t
<1>14. TypeOK'
  BY <1>1, <1>3, <1>5, <1>11, <1>13 DEF TypeOK
<1>15. NoDanglingOperand'
  BY <1>1, <1>3, <1>5 DEF NoDanglingOperand
<1>16. UsesInv'
  <2>1. UsesOf(alive)' = UsesOf(alive)
    BY <1>1, <1>3 DEF UsesOf, Operands
  <2> QED
    BY <1>1, <1>5, <2>1 DEF UsesInv
<1>17. MarkInv'
  <2>1. /\ func \in Fns /\ marked \subseteq alive /\ marked \subseteq Needed
        /\ \A i \in marked : ins[i].fn = func
        /\ \A i \in alive : ins[i].fn = func /\ is_critical(i) => i \in marked
        /\ \A i \in marked : i \in Held(work_list) \/ ins[i].ops \subseteq marked
        /\ Held(work_list) \subseteq marked
    BY <1>1, <1>5 DEF MarkInv
  <2>2. /\ marked' \subseteq alive /\ marked' \subseteq Needed
        /\ \A i \in marked' : ins[i].fn = func
    BY <1>1, <1>8, <1>9, <1>10, <2>1
  <2>3. \A i \in marked' : i \in Held(work_list') \/ ins[i].ops \subseteq marked'
    BY <1>1, <1>6, <1>10, <1>13, <2>1
  <2>4. Held(work_list') \subseteq marked'
    BY <1>1, <1>6, <1>13, <2>1
  <2>5. \A i \in alive : ins[i].fn = func /\ is_critical(i) => i \in marked'
    BY <1>1, <2>1
  <2> QED
    BY <1>1, <1>3, <1>4, <2>1, <2>2, <2>3, <2>4, <2>5 DEF MarkInv
<1>18. SweepInv' /\ RoundInv'
  BY <1>1, <1>3, <1>5 DEF SweepInv, RoundInv
<1> QED
  BY <1>3, <1>14, <1>15, <1>16, <1>17, <1>18 DEF IInv

\* sweep collects what is not marked; the marked instructions are closed.
LEMMA SweepStepInv == ASSUME IInv, Sweep PROVE IInv'
<1>1. /\ step = "mark" /\ work_list = <<>> /\ wait_del' = Collect /\ rest' = Collect
      /\ step' = "unuse" /\ UNCHANGED fiVars
      /\ func' = func /\ changed' = changed /\ alive' = alive /\ uses' = uses
      /\ marked' = marked /\ work_list' = work_list
  BY DEF Sweep
<1>2. /\ FInv' /\ FInv /\ prog \in Programs /\ prog' = prog /\ phase' = phase
      /\ Fns' = Fns /\ Ins' = Ins /\ ins' = ins /\ Needed' = Needed
      /\ FuncInfoTypeOK'
  BY <1>1, DFrame
<1>3. \A i : is_critical(i)' <=> is_critical(i)
  BY <1>1, DFrame
<1>4. TypeOK /\ NoDanglingOperand /\ UsesInv /\ MarkInv /\ RoundInv
  BY DEF IInv
<1>5. Collect \in SUBSET Ins /\ Collect' = Collect
  BY <1>1, <1>2, <1>4 DEF TypeOK, Collect
<1>6. TypeOK'
  BY <1>1, <1>2, <1>4, <1>5 DEF TypeOK
<1>7. NoDanglingOperand'
  BY <1>1, <1>2, <1>4 DEF NoDanglingOperand
<1>8. UsesInv'
  <2>1. alive' \ (wait_del' \ rest') = alive
    BY <1>1
  <2>2. UsesOf(alive \ (wait_del \ rest))' = UsesOf(alive)
    BY <1>2, <2>1 DEF UsesOf, Operands
  <2> QED
    BY <1>1, <1>4, <2>2 DEF UsesInv
<1>9. MarkInv'
  BY <1>1, <1>2, <1>3, <1>4 DEF MarkInv
<1>10. SweepInv' /\ RoundInv'
  BY <1>1, <1>2, <1>4, <1>5 DEF SweepInv, RoundInv
<1> QED
  BY <1>2, <1>6, <1>7, <1>8, <1>9, <1>10 DEF IInv

\* remove_use_of_ops takes one instruction out of the use lists.
LEMMA RemoveUseInv == ASSUME IInv, RemoveUseOfOps PROVE IInv'
<1>1. /\ step = "unuse" /\ UNCHANGED fiVars /\ step' = step
      /\ func' = func /\ changed' = changed /\ marked' = marked
      /\ work_list' = work_list /\ wait_del' = wait_del
  BY DEF RemoveUseOfOps
<1>2. PICK i \in rest : /\ uses' = {u \in uses : u[2] # i}
                        /\ rest' = rest \ {i} /\ alive' = alive
  BY DEF RemoveUseOfOps, UsesWithout, StillInBlock
<1>3. /\ FInv' /\ FInv /\ prog \in Programs /\ prog' = prog /\ phase' = phase
      /\ Fns' = Fns /\ Ins' = Ins /\ ins' = ins /\ Needed' = Needed
      /\ FuncInfoTypeOK'
  BY <1>1, DFrame
<1>4. \A j : is_critical(j)' <=> is_critical(j)
  BY <1>1, DFrame
<1>5. TypeOK /\ NoDanglingOperand /\ UsesInv /\ MarkInv /\ SweepInv /\ RoundInv
  BY DEF IInv
<1>6. i \in Ins /\ i \in wait_del /\ alive \in SUBSET Ins
  BY <1>1, <1>2, <1>5 DEF TypeOK, SweepInv
<1>7. TypeOK'
  <2>1. uses' \in SUBSET (Int \X Ins) /\ rest' \in SUBSET Ins
    BY <1>2, <1>5 DEF TypeOK
  <2> QED
    BY <1>1, <1>2, <1>3, <1>5, <2>1 DEF TypeOK
<1>8. NoDanglingOperand'
  BY <1>2, <1>3, <1>5 DEF NoDanglingOperand
<1>9. UsesInv'
  <2> DEFINE S == alive \ (wait_del \ rest)
  <2>1. uses = UsesOf(S) /\ S \in SUBSET Ins
    BY <1>1, <1>5, <1>6 DEF UsesInv
  <2>2. uses' = UsesOf(S \ {i})
    BY <1>2, <1>3, <1>6, <2>1, UsesFacts
  <2>3. alive' \ (wait_del' \ rest') = S \ {i}
    BY <1>1, <1>2, <1>6
  <2>4. UsesOf(alive \ (wait_del \ rest))' = UsesOf(S \ {i})
    BY <1>3, <2>3 DEF UsesOf, Operands
  <2> QED
    BY <1>1, <2>2, <2>4 DEF UsesInv
<1>10. MarkInv'
  BY <1>1, <1>2, <1>3, <1>4, <1>5 DEF MarkInv
<1>11. SweepInv'
  <2>1. Collect' = Collect
    BY <1>1, <1>2, <1>3 DEF Collect
  <2> QED
    BY <1>1, <1>2, <1>5, <2>1 DEF SweepInv
<1>12. RoundInv'
  BY <1>1, <1>2, <1>3, <1>5 DEF RoundInv
<1> QED
  BY <1>3, <1>7, <1>8, <1>9, <1>10, <1>11, <1>12 DEF IInv

\* The erasure: the survivors of the function are the marked instructions.
LEMMA EraseInv == ASSUME IInv, Erase PROVE IInv'
<1>1. /\ step = "unuse" /\ rest = {} /\ alive' = alive \ wait_del
      /\ changed' = ChangedAfterSweep /\ func' = func + 1 /\ step' = "idle"
      /\ UNCHANGED fiVars /\ uses' = uses /\ marked' = marked
      /\ work_list' = work_list /\ wait_del' = wait_del /\ rest' = rest
  BY DEF Erase, NextFunction
<1>2. /\ FInv' /\ FInv /\ prog \in Programs /\ prog' = prog /\ phase' = phase
      /\ Fns' = Fns /\ Ins' = Ins /\ ins' = ins /\ Needed' = Needed
      /\ FuncInfoTypeOK' /\ prog.fns \in Nat
  BY <1>1, DFrame
<1>3. TypeOK /\ NoDanglingOperand /\ UsesInv /\ MarkInv /\ SweepInv /\ RoundInv
  BY DEF IInv
<1>4. /\ wait_del = {i \in alive : ins[i].fn = func /\ i \notin marked}
      /\ func \in Fns /\ marked \subseteq Needed
      /\ \A i \in alive : ins[i].fn = func /\ is_critical(i) => i \in marked
      /\ \A i \in marked : ins[i].ops \subseteq marked
      /\ phase = "ready"
  <2>1. Held(work_list) = {} /\ wait_del = Collect
    BY <1>1, <1>3, HeldEmpty DEF SweepInv
  <2> QED
    BY <1>1, <1>3, <2>1 DEF MarkInv, RoundInv, Collect
<1>5. alive \subseteq Ins
  BY <1>3 DEF TypeOK
<1>6. NoDanglingOperand'
  <2> SUFFICES ASSUME NEW i \in alive, i \notin wait_del, NEW d \in ins[i].ops
               PROVE  d \in alive /\ d \notin wait_del
    BY <1>1, <1>2 DEF NoDanglingOperand
  <2>1. d \in alive /\ ins[d].fn = ins[i].fn
    BY <1>2, <1>3, <1>5, ProgramFacts DEF NoDanglingOperand
  <2> QED
    BY <1>4, <2>1
<1>7. TypeOK'
  <2>1. func' \in 1..(prog'.fns + 1)
    BY <1>1, <1>2, <1>4 DEF Fns
  <2>2. changed' \in BOOLEAN
    BY <1>1, <1>3 DEF TypeOK, ChangedAfterSweep
  <2> QED
    BY <1>1, <1>2, <1>3, <2>1, <2>2 DEF TypeOK
<1>8. UsesInv'
  <2>1. uses = UsesOf(alive \ (wait_del \ rest))
    BY <1>1, <1>3 DEF UsesInv
  <2>2. alive \ (wait_del \ rest) = alive'
    BY <1>1
  <2>3. UsesOf(alive)' = UsesOf(alive \ (wait_del \ rest))
    BY <1>2, <2>2 DEF UsesOf, Operands
  <2> QED
    BY <1>1, <2>1, <2>3 DEF UsesInv
<1>9. Needed \subseteq alive'
  <2>1. \A j \in Ins : Effect(j) => j \in alive'
    <3> SUFFICES ASSUME NEW j \in Ins, Effect(j) PROVE j \in alive'
      OBVIOUS
    <3>1. j \in alive
      BY <1>3, NeededFacts DEF RoundInv
    <3>2. is_critical(j)
      BY <1>2, <1>4, CriticalIsEffect
    <3> QED
      BY <1>1, <1>4, <3>1, <3>2
  <2>2. \A j \in alive' : ins[j].ops \subseteq alive'
    BY <1>2, <1>6 DEF NoDanglingOperand
  <2>3. alive' \in SUBSET Ins
    BY <1>1, <1>5
  <2> QED
    BY <2>1, <2>2, <2>3, NeededFacts
<1>10. \A i \in alive' : ins[i].fn < func + 1 => i \in Needed
  <2> SUFFICES ASSUME NEW i \in alive, i \notin wait_del, ins[i].fn < func + 1
               PROVE  i \in Needed
    BY <1>1
  <2>1. ins[i].fn < func \/ ins[i].fn = func
    <3>1. ins[i].fn \in Fns
      BY <1>2, <1>5, ProgramFacts
    <3> QED
      BY <1>4, <3>1 DEF Fns
  <2> QED
    BY <1>3, <1>4, <2>1 DEF RoundInv
<1>11. RoundInv'
  BY <1>1, <1>2, <1>9, <1>10 DEF RoundInv
<1>12. MarkInv' /\ SweepInv'
  BY <1>1 DEF MarkInv, SweepInv
<1> QED
  BY <1>2, <1>6, <1>7, <1>8, <1>11, <1>12 DEF IInv

\* The end of a round.
LEMMA EndRoundInv == ASSUME IInv, EndRound PROVE IInv'
<1>1. /\ phase = "ready" /\ step = "idle" /\ func \notin Fns /\ UNCHANGED fiVars
      /\ alive' = alive /\ uses' = uses /\ marked' = marked
      /\ work_list' = work_list /\ wait_del' = wait_del /\ rest' = rest
      /\ \/ func' = 1 /\ changed' = FALSE /\ step' = step
         \/ step' = "done" /\ func' = func /\ changed' = changed
  BY DEF EndRound
<1>2. /\ FInv' /\ FInv /\ prog \in Programs /\ prog' = prog /\ phase' = phase
      /\ Fns' = Fns /\ Ins' = Ins /\ ins' = ins /\ Needed' = Needed
      /\ FuncInfoTypeOK' /\ prog.fns \in Nat
  BY <1>1, DFrame
<1>3. TypeOK /\ NoDanglingOperand /\ UsesInv /\ RoundInv
  BY DEF IInv
<1>4. func = prog.fns + 1 /\ 1 \in 1..(prog.fns + 1)
  BY <1>1, <1>2, <1>3 DEF TypeOK, Fns
<1>5. TypeOK'
  BY <1>1, <1>2, <1>3, <1>4 DEF TypeOK
<1>6. NoDanglingOperand'
  BY <1>1, <1>2, <1>3 DEF NoDanglingOperand
<1>7. UsesInv'
  <2>1. UsesOf(alive)' = UsesOf(alive)
    BY <1>1, <1>2 DEF UsesOf, Operands
  <2> QED
    BY <1>1, <1>3, <2>1 DEF UsesInv
<1>8. MarkInv' /\ SweepInv'
  BY <1>1 DEF MarkInv, SweepInv
<1>9. \A i \in alive : ~(ins[i].fn < 1)
  <2>1. \A i \in alive : ins[i].fn \in Fns
    BY <1>2, <1>3, ProgramFacts DEF TypeOK
  <2> QED
    BY <2>1 DEF Fns
<1>10. RoundInv'
  BY <1>1, <1>2, <1>3, <1>4, <1>9 DEF RoundInv
<1> QED
  BY <1>2, <1>5, <1>6, <1>7, <1>8, <1>10 DEF IInv

-----------------------------------------------------------------------------

\* Every step of the two passes preserves the invariant.
LEMMA DStepInv == IInv /\ [Next]_vars => IInv'
<1> SUFFICES ASSUME IInv, [Next]_vars PROVE IInv'
  OBVIOUS
<1>1. CASE Next
  BY <1>1, AnalyseInv, MarkCriticalInv, MarkInstrInv, SweepStepInv, RemoveUseInv,
     EraseInv, EndRoundInv DEF Next
<1>2. CASE UNCHANGED vars
  <2>1. /\ UNCHANGED fiVars
        /\ step' = step /\ func' = func /\ changed' = changed /\ alive' = alive
        /\ uses' = uses /\ marked' = marked /\ work_list' = work_list
        /\ wait_del' = wait_del /\ rest' = rest
    BY <1>2 DEF vars, dcVars
  <2>2. /\ FInv' /\ prog' = prog /\ phase' = phase
        /\ Fns' = Fns /\ Ins' = Ins /\ ins' = ins /\ Needed' = Needed
        /\ FuncInfoTypeOK'
    BY <2>1, DFrame
  <2>3. \A i : is_critical(i)' <=> is_critical(i)
    BY <2>1, DFrame
  <2>4. TypeOK' /\ NoDanglingOperand' /\ RoundInv'
    BY <2>1, <2>2 DEF IInv, TypeOK, NoDanglingOperand, RoundInv
  <2>5. UsesInv'
    <3>1. UsesOf(alive)' = UsesOf(alive)
      BY <2>1, <2>2 DEF UsesOf, Operands
    <3>2. UsesOf(alive \ (wait_del \ rest))' = UsesOf(alive \ (wait_del \ rest))
      BY <2>1, <2>2 DEF UsesOf, Operands
    <3> QED
      BY <2>1, <3>1, <3>2 DEF IInv, UsesInv
  <2>6. MarkInv'
    BY <2>1, <2>2, <2>3 DEF IInv, MarkInv
  <2>7. SweepInv'
    <3>1. Collect' = Collect
      BY <2>1, <2>2 DEF Collect
    <3> QED
      BY <2>1, <3>1 DEF IInv, SweepInv
  <2> QED
    BY <2>2, <2>4, <2>5, <2>6, <2>7 DEF IInv
<1> QED
  BY <1>1, <1>2

\* The inductive invariant holds in every state of the two passes.
THEOREM Invariance == Spec => []IInv
BY DInitInv, DStepInv, PTL DEF Spec

\* The state of the two passes keeps its types.
THEOREM TypeCorrect == Spec => []TypeOK
<1>1. IInv => TypeOK
  BY DEF IInv
<1> QED
  BY <1>1, Invariance, PTL

\* FuncInfo calls a function pure exactly if no chain of calls leads from it to
\* a function with a side effect.
THEOREM PurityCorrect == Spec => []PurityExact
<1>1. IInv => PurityExact
  BY FInvPurity DEF IInv
<1> QED
  BY <1>1, Invariance, PTL

\* No instruction that DeadCode leaves in a block uses an erased one.
THEOREM OperandsSurvive == Spec => []NoDanglingOperand
<1>1. IInv => NoDanglingOperand
  BY DEF IInv
<1> QED
  BY <1>1, Invariance, PTL

\* sweep touches no erased instruction.
THEOREM SweepIsSafe == Spec => []NoUseAfterErase
<1>1. IInv => NoUseAfterErase
  <2> SUFFICES ASSUME IInv, NEW i \in rest PROVE ins[i].ops \subseteq alive
    BY DEF NoUseAfterErase
  <2>1. step = "unuse"
    BY DEF IInv, UsesInv
  <2>2. i \in alive
    BY <2>1 DEF IInv, SweepInv, Collect
  <2> QED
    BY <2>2 DEF IInv, NoDanglingOperand
<1> QED
  BY <1>1, Invariance, PTL

\* Between two sweeps the use lists are those of the surviving instructions.
THEOREM UsesCorrect == Spec => []UseListsExact
<1>1. IInv => UseListsExact
  BY DEF IInv, UsesInv, UseListsExact
<1> QED
  BY <1>1, Invariance, PTL

\* DeadCode erases dead instructions only, and all of them.
THEOREM ErasureCorrect == Spec => []ErasesExactlyTheDead
<1>1. IInv => ErasesExactlyTheDead
  <2> SUFFICES ASSUME IInv PROVE ErasesExactlyTheDead
    OBVIOUS
  <2>1. Needed \subseteq alive
    BY DEF IInv, RoundInv
  <2>2. ASSUME step = "done" PROVE alive \subseteq Needed
    <3>1. func = prog.fns + 1 /\ prog \in Programs /\ alive \subseteq Ins
      BY <2>2 DEF IInv, RoundInv, FInv, TypeOK
    <3>2. \A i \in alive : ins[i].fn < func
      BY <3>1, ProgramFacts DEF Fns
    <3> QED
      BY <3>2 DEF IInv, RoundInv
  <2> QED
    BY <2>1, <2>2 DEF ErasesExactlyTheDead
<1> QED
  BY <1>1, Invariance, PTL
=============================================================================
