-------------------------- MODULE LinearScanProofs --------------------------
(***************************************************************************)
(* Proofs about LinearScan for any number of registers and values and any  *)
(* intervals: values that share a register do not overlap, no register is  *)
(* lost, and every spilled value has a slot of its own.                    *)
(***************************************************************************)
EXTENDS LinearScan, FiniteSetTheorems, TLAPS

(***************************************************************************)
(* The inductive invariant.                                                *)
(***************************************************************************)

\* What the input promises.
TableInv ==
  \A v \in Var : /\ iv[v].def <= iv[v].end
                 /\ \A w \in Var : v < w => iv[v].def < iv[w].def

\* An active list holds values of its class that the loop has gone by, each
\* with a register of its own.
ActiveInv ==
  \A c \in Class :
    /\ \A i \in 1..Len(active[c]) :
         /\ active[c][i] < cur
         /\ Cls(active[c][i]) = c
         /\ regnum[active[c][i]] # Spilled
    /\ \A i, j \in 1..Len(active[c]) :
         regnum[active[c][i]] = regnum[active[c][j]] => i = j

IsActive(v) == \E i \in 1..Len(active[Cls(v)]) : active[Cls(v)][i] = v

\* A value that gave its register back ended before the current definition.
ExpiredInv ==
  \A v \in Var : v < cur /\ regnum[v] # Spilled /\ ~IsActive(v)
    => \A w \in Var : cur <= w => iv[v].end <= iv[w].def

\* The frame offset is beyond everything in the frame.
FrameInv ==
  /\ base <= offset
  /\ \A v \in Var : slot[v] <= offset

PcInv == pc = "place" => cur <= V

IInv == /\ TypeOK /\ TableInv /\ ActiveInv /\ ExpiredInv /\ FrameInv /\ PcInv
        /\ FreeIffUnheld /\ NoClash /\ Placed /\ SlotsDisjoint /\ SaveAreaCovers

-----------------------------------------------------------------------------

\* LinearScan starts with empty lists and all registers free.
LEMMA InitInv == Init => IInv
<1> SUFFICES ASSUME Init PROVE IInv
  OBVIOUS
<1>1. PICK t \in Tables : iv = t.list /\ base = t.offset
  BY DEF Init
<1>2. t \in Table
  BY LinearScanAssumption
<1>3. iv \in [Var -> Interval] /\ base \in Nat
  BY <1>1, <1>2 DEF Table
<1>4. TypeOK
  <2>1. active \in [Class -> Seq(Var)]
    BY DEF Init
  <2>2. slot \in [Var -> Nat] /\ offset \in Nat
    BY <1>3 DEF Init, Interval
  <2>3. cur \in 1..(V + 1)
    BY LinearScanAssumption DEF Init
  <2>4. /\ pc \in {"expire", "place", "done"}
        /\ free \in [Class -> [RegIdx -> BOOLEAN]]
        /\ regnum \in [Var -> RegIdx \cup {Spilled}]
    BY DEF Init
  <2>5. maxreg \in [Class -> 0..R]
    BY LinearScanAssumption DEF Init
  <2> QED
    BY <1>3, <2>1, <2>2, <2>3, <2>4, <2>5 DEF TypeOK
<1>5. TableInv
  BY <1>1, LinearScanAssumption DEF TableInv
<1>6. cur = 1 /\ \A c \in Class : Len(active[c]) = 0
  BY DEF Init
<1>7. ActiveInv /\ ExpiredInv
  BY <1>6 DEF ActiveInv, ExpiredInv, Var
<1>8. FrameInv
  <2>1. \A v \in Var : slot[v] = t.list[v].offset
    BY <1>1 DEF Init
  <2>2. offset = t.offset
    BY <1>1 DEF Init
  <2> QED
    BY <1>1, <1>3, <2>1, <2>2, LinearScanAssumption DEF FrameInv
<1>9. FreeIffUnheld
  <2>1. \A c \in Class, r \in RegIdx : free[c][r] = TRUE
    BY DEF Init
  <2> QED
    BY <1>6, <2>1 DEF FreeIffUnheld
<1>10. NoClash /\ Placed /\ SlotsDisjoint /\ SaveAreaCovers
  BY <1>6 DEF NoClash, Placed, SlotsDisjoint, SaveAreaCovers
<1>11. PcInv
  BY DEF Init, PcInv
<1> QED
  BY <1>4, <1>5, <1>7, <1>8, <1>9, <1>10, <1>11 DEF IInv

\* Facts about the class of the current value used throughout.
LEMMA CurFacts ==
  ASSUME IInv, cur <= V
  PROVE  /\ cur \in Var
         /\ Cls(cur) \in Class
         /\ Act \in Seq(Var)
         /\ Len(Act) \in Nat
         /\ \A i \in 1..Len(Act) : Act[i] \in Var /\ Act[i] < cur
<1>1. cur \in Var
  BY DEF IInv, TypeOK, Var
<1>2. Cls(cur) \in Class
  BY <1>1 DEF IInv, TypeOK, Cls, Interval
<1>3. Act \in Seq(Var)
  BY <1>2 DEF IInv, TypeOK, Act
<1>4. Len(Act) \in Nat /\ \A i \in 1..Len(Act) : Act[i] \in Var
  BY <1>3
<1>5. \A i \in 1..Len(Act) : Act[i] < cur
  BY <1>2 DEF IInv, ActiveInv, Act
<1> QED
  BY <1>1, <1>2, <1>3, <1>4, <1>5

\* Only one class is concerned when a value is handled.
LEMMA ClassOf == ASSUME IInv, NEW v \in Var PROVE Cls(v) \in Class
BY DEF IInv, TypeOK, Cls, Interval

\* What an active list holds.
LEMMA ActiveFacts ==
  ASSUME IInv, NEW c \in Class, NEW i \in 1..Len(active[c])
  PROVE  /\ active[c] \in Seq(Var)
         /\ active[c][i] \in Var
         /\ active[c][i] < cur
         /\ active[c][i] # cur
         /\ Cls(active[c][i]) = c
         /\ regnum[active[c][i]] \in RegIdx
<1>1. active[c] \in Seq(Var)
  BY DEF IInv, TypeOK
<1>2. active[c][i] \in Var
  BY <1>1
<1>3. /\ active[c][i] < cur
      /\ Cls(active[c][i]) = c
      /\ regnum[active[c][i]] # Spilled
  BY DEF IInv, ActiveInv
<1>4. regnum[active[c][i]] \in RegIdx
  BY <1>2, <1>3 DEF IInv, TypeOK
<1>5. active[c][i] # cur
  <2>1. active[c][i] \in Int
    BY <1>2 DEF Var
  <2> QED
    BY <1>3, <2>1
<1> QED
  BY <1>1, <1>2, <1>3, <1>4, <1>5

\* ExpireOldIntervals drops the first value of the list, whose interval has
\* ended, and frees its register.
LEMMA ExpireInv == ASSUME IInv, ExpireOldIntervals PROVE IInv'
<1> DEFINE c0 == Cls(cur)
           h == Head(Act)
<1>1. /\ pc = "expire" /\ cur <= V /\ Act # <<>>
      /\ iv[h].end <= iv[cur].def
      /\ free' = [free EXCEPT ![c0] = [free[c0] EXCEPT ![regnum[h]] = TRUE]]
      /\ active' = [active EXCEPT ![c0] = Tail(Act)]
      /\ iv' = iv /\ base' = base /\ pc' = pc /\ cur' = cur /\ regnum' = regnum
      /\ maxreg' = maxreg /\ slot' = slot /\ offset' = offset
  BY DEF ExpireOldIntervals, Expires, Erase, Act
<1>2. /\ TypeOK /\ TableInv /\ ActiveInv /\ ExpiredInv /\ FreeIffUnheld
  BY DEF IInv
<1>3. /\ cur \in Var /\ c0 \in Class /\ Act \in Seq(Var) /\ Len(Act) \in Nat
  BY <1>1, CurFacts
<1>4. /\ Len(Act) > 0 /\ h = Act[1] /\ h \in Var
      /\ Tail(Act) \in Seq(Var)
      /\ Len(Tail(Act)) = Len(Act) - 1
      /\ \A i \in 1..(Len(Act) - 1) : Tail(Act)[i] = Act[i + 1]
  BY <1>1, <1>3
<1>5. regnum[h] \in RegIdx /\ Cls(h) = c0
  <2>1. 1 \in 1..Len(active[c0]) /\ active[c0][1] = h
    BY <1>3, <1>4 DEF Act
  <2>2. regnum[h] # Spilled /\ Cls(h) = c0
    BY <1>2, <1>3, <2>1 DEF ActiveInv
  <2> QED
    BY <1>2, <1>4, <2>2 DEF TypeOK
<1>6. TypeOK'
  BY <1>1, <1>2, <1>3, <1>4, <1>5 DEF TypeOK
<1>7. /\ active'[c0] = Tail(Act) /\ active[c0] = Act
      /\ \A c \in Class : c # c0 => active'[c] = active[c] /\ free'[c] = free[c]
      /\ free'[c0][regnum[h]]
      /\ \A r \in RegIdx : r # regnum[h] => free'[c0][r] = free[c0][r]
  BY <1>1, <1>2, <1>3, <1>5 DEF TypeOK, Act
<1> HIDE DEF c0, h
<1>8. ActiveInv'
  <2> SUFFICES ASSUME NEW c \in Class
               PROVE  /\ \A i \in 1..Len(active'[c]) :
                           /\ active'[c][i] < cur
                           /\ Cls(active'[c][i]) = c
                           /\ regnum[active'[c][i]] # Spilled
                      /\ \A i, j \in 1..Len(active'[c]) :
                           regnum[active'[c][i]] = regnum[active'[c][j]] => i = j
    BY <1>1 DEF ActiveInv, Cls
  <2>1. CASE c # c0
    BY <1>2, <1>7, <2>1 DEF ActiveInv
  <2>2. CASE c = c0
    <3>1. \A i \in 1..Len(active'[c]) :
            i + 1 \in 1..Len(Act) /\ active'[c][i] = Act[i + 1]
      BY <1>3, <1>4, <1>7, <2>2
    <3>2. /\ \A i \in 1..Len(Act) : /\ Act[i] < cur
                                    /\ Cls(Act[i]) = c
                                    /\ regnum[Act[i]] # Spilled
          /\ \A i, j \in 1..Len(Act) : regnum[Act[i]] = regnum[Act[j]] => i = j
      BY <1>2, <1>7, <2>2 DEF ActiveInv
    <3>3. \A i, j \in 1..Len(active'[c]) :
            regnum[active'[c][i]] = regnum[active'[c][j]] => i = j
      <4> TAKE i, j \in 1..Len(active'[c])
      <4>1. regnum[active'[c][i]] = regnum[active'[c][j]] => i + 1 = j + 1
        BY <3>1, <3>2
      <4>2. i \in Int /\ j \in Int
        OBVIOUS
      <4> QED
        BY <4>1, <4>2
    <3> QED
      BY <3>1, <3>2, <3>3
  <2> QED
    BY <2>1, <2>2
<1>9. ExpiredInv'
  <2> SUFFICES ASSUME NEW v \in Var, v < cur, regnum[v] # Spilled, ~IsActive(v)',
                      NEW w \in Var, cur <= w
               PROVE  iv[v].end <= iv[w].def
    BY <1>1 DEF ExpiredInv
  <2>1. CASE ~IsActive(v)
    BY <1>2, <2>1 DEF ExpiredInv
  <2>2. CASE IsActive(v)
    <3>1. PICK i \in 1..Len(active[Cls(v)]) : active[Cls(v)][i] = v
      BY <2>2 DEF IsActive
    <3>2. Cls(v)' = Cls(v) /\ Cls(v) \in Class
      BY <1>1, ClassOf DEF Cls
    <3>3. Cls(v) = c0
      BY <1>7, <3>1, <3>2 DEF IsActive
    <3>4. i = 1
      <4> SUFFICES ASSUME i # 1 PROVE FALSE
        OBVIOUS
      <4>1. i - 1 \in 1..(Len(Act) - 1) /\ i = (i - 1) + 1
        BY <1>3, <1>7, <3>1, <3>3
      <4>2. active'[c0][i - 1] = v
        BY <1>4, <1>7, <3>1, <3>3, <4>1
      <4>3. i - 1 \in 1..Len(active'[c0])
        BY <1>4, <1>7, <4>1
      <4>4. IsActive(v)'
        BY <3>2, <3>3, <4>2, <4>3 DEF IsActive
      <4> QED
        BY <4>4
    <3>5. v = h
      BY <1>4, <1>7, <3>1, <3>3, <3>4
    <3>6. iv[cur].def <= iv[w].def /\ iv[v].end \in Nat /\ iv[w].def \in Nat
          /\ iv[cur].def \in Nat
      <4>1. cur = w \/ cur < w
        BY <1>3 DEF Var
      <4>2. iv[v].end \in Nat /\ iv[w].def \in Nat /\ iv[cur].def \in Nat
        BY <1>2, <1>3 DEF TypeOK, Interval
      <4>3. cur < w => iv[cur].def < iv[w].def
        BY <1>2, <1>3 DEF TableInv
      <4> QED
        BY <4>1, <4>2, <4>3
    <3> QED
      BY <1>1, <3>5, <3>6
  <2> QED
    BY <2>1, <2>2
<1>10. FreeIffUnheld'
  <2> SUFFICES ASSUME NEW c \in Class, NEW r \in RegIdx
               PROVE  ~free'[c][r] <=>
                        \E i \in 1..Len(active'[c]) : regnum[active'[c][i]] = r
    BY <1>1 DEF FreeIffUnheld
  <2>1. CASE c # c0
    BY <1>2, <1>7, <2>1 DEF FreeIffUnheld
  <2>2. CASE c = c0
    <3>1. ~free[c0][r] <=> \E i \in 1..Len(Act) : regnum[Act[i]] = r
      BY <1>2, <1>3, <1>7, <2>2 DEF FreeIffUnheld
    <3>2. \A i, j \in 1..Len(Act) : regnum[Act[i]] = regnum[Act[j]] => i = j
      BY <1>2, <1>7, <2>2 DEF ActiveInv
    <3>3. CASE r = regnum[h]
      <4>1. \A i \in 1..(Len(Act) - 1) : regnum[Tail(Act)[i]] # r
        <5> TAKE i \in 1..(Len(Act) - 1)
        <5>1. i + 1 \in 1..Len(Act) /\ 1 \in 1..Len(Act) /\ i + 1 # 1
          BY <1>3, <1>4
        <5> QED
          BY <1>4, <3>2, <3>3, <5>1
      <4>2. free'[c][r]
        BY <1>7, <2>2, <3>3
      <4>3. ~\E i \in 1..Len(active'[c]) : regnum[active'[c][i]] = r
        BY <1>4, <1>7, <2>2, <4>1
      <4> QED
        BY <4>2, <4>3
    <3>4. CASE r # regnum[h]
      <4>1. (\E i \in 1..Len(Act) : regnum[Act[i]] = r) <=>
            (\E i \in 1..(Len(Act) - 1) : regnum[Tail(Act)[i]] = r)
        <5>1. ASSUME NEW i \in 1..Len(Act), regnum[Act[i]] = r
              PROVE  \E j \in 1..(Len(Act) - 1) : regnum[Tail(Act)[j]] = r
          <6>1. i # 1
            BY <1>4, <3>4, <5>1
          <6>2. i - 1 \in 1..(Len(Act) - 1) /\ (i - 1) + 1 = i
            BY <1>3, <6>1
          <6> QED
            BY <1>4, <5>1, <6>2
        <5>2. ASSUME NEW i \in 1..(Len(Act) - 1), regnum[Tail(Act)[i]] = r
              PROVE  \E j \in 1..Len(Act) : regnum[Act[j]] = r
          <6>1. i + 1 \in 1..Len(Act)
            BY <1>3
          <6> QED
            BY <1>4, <5>2, <6>1
        <5> QED
          BY <5>1, <5>2
      <4>2. free'[c][r] = free[c0][r]
        BY <1>7, <2>2, <3>4
      <4>3. (\E i \in 1..Len(active'[c]) : regnum[active'[c][i]] = r) <=>
            (\E i \in 1..(Len(Act) - 1) : regnum[Tail(Act)[i]] = r)
        <5>1. active'[c] = Tail(Act)
          BY <1>7, <2>2
        <5>2. Len(Tail(Act)) = Len(Act) - 1
          BY <1>4
        <5> QED
          BY <5>1, <5>2
      <4> QED
        BY <3>1, <4>1, <4>2, <4>3
    <3> QED
      BY <3>3, <3>4
  <2> QED
    BY <2>1, <2>2
<1>11. (TableInv /\ FrameInv /\ PcInv /\ NoClash /\ Placed /\ SlotsDisjoint)'
  BY <1>1 DEF IInv, TableInv, FrameInv, PcInv, NoClash, Placed, SlotsDisjoint,
              Cls, Width
<1>12. SaveAreaCovers'
  BY <1>1 DEF IInv, SaveAreaCovers, Cls
<1> QED
  BY <1>6, <1>8, <1>9, <1>10, <1>11, <1>12 DEF IInv

\* ExpireOldIntervals returns, and the loop over the list ends.
LEMMA ReturnInv == ASSUME IInv, ExpireReturn \/ Finish PROVE IInv'
<1>1. /\ iv' = iv /\ base' = base /\ cur' = cur /\ active' = active /\ free' = free
      /\ regnum' = regnum /\ maxreg' = maxreg /\ slot' = slot /\ offset' = offset
      /\ pc' \in {"place", "done"}
      /\ pc' = "place" => cur <= V
  BY DEF ExpireReturn, Finish
<1>2. TypeOK' /\ PcInv'
  BY <1>1 DEF IInv, TypeOK, PcInv
<1>3. (TableInv /\ ActiveInv /\ ExpiredInv /\ FrameInv /\ FreeIffUnheld)'
  BY <1>1 DEF IInv, TableInv, ActiveInv, ExpiredInv, IsActive, FrameInv,
              FreeIffUnheld, Cls
<1>4. (NoClash /\ Placed /\ SlotsDisjoint /\ SaveAreaCovers)'
  BY <1>1 DEF IInv, NoClash, Placed, SlotsDisjoint, SaveAreaCovers, Cls, Width
<1> QED
  BY <1>2, <1>3, <1>4 DEF IInv

\* Giving register r to the current value makes no clash when every value of
\* its class that keeps r has left the active list.
LEMMA NoClashStep ==
  ASSUME IInv, cur <= V, iv' = iv, cur' = cur + 1, NEW r,
         regnum'[cur] \in {r, Spilled},
         \A u \in Var : u < cur => regnum'[u] \in {regnum[u], Spilled},
         \A u \in Var : u < cur /\ Cls(u) = Cls(cur) /\ regnum'[u] = r /\ r # Spilled
                          => ~IsActive(u)
  PROVE  NoClash'
<1>1. NoClash /\ ExpiredInv /\ TypeOK
  BY DEF IInv
<1>2. cur \in Var /\ cur \in Nat
  BY CurFacts DEF Var
<1> SUFFICES ASSUME NEW u \in 1..cur, NEW v \in 1..cur, u < v,
                    Cls(u) = Cls(v), regnum'[u] = regnum'[v], regnum'[u] # Spilled
             PROVE  iv[u].end <= iv[v].def
  <2>1. cur' - 1 = cur
    BY <1>2
  <2> QED
    BY <2>1 DEF NoClash, Cls
<1>3. u \in Var /\ v \in Var /\ u < cur
  BY <1>2, LinearScanAssumption DEF Var
<1>4. regnum[u] = regnum'[u] /\ regnum[u] # Spilled
  BY <1>3
<1>5. CASE v = cur
  <2>1. ~IsActive(u)
    BY <1>3, <1>5
  <2> QED
    BY <1>1, <1>2, <1>3, <1>4, <1>5, <2>1 DEF ExpiredInv
<1>6. CASE v < cur
  <2>1. regnum[v] = regnum'[v]
    BY <1>3, <1>6
  <2>2. u \in 1..(cur - 1) /\ v \in 1..(cur - 1)
    BY <1>2, <1>3, <1>6
  <2> QED
    BY <1>1, <1>4, <2>1, <2>2 DEF NoClash
<1> QED
  BY <1>2, <1>5, <1>6

\* A spill slot is taken from beyond everything in the frame.
LEMMA SlotStep ==
  ASSUME IInv, cur <= V, iv' = iv, base' = base, cur' = cur + 1,
         NEW x \in Var, x <= cur,
         offset' = offset + Width(x),
         slot' = [slot EXCEPT ![x] = offset + Width(x)],
         \A u \in Var : u <= cur /\ u # x /\ regnum'[u] = Spilled
                          => u < cur /\ regnum[u] = Spilled
  PROVE  /\ offset' \in Nat /\ slot' \in [Var -> Nat]
         /\ FrameInv' /\ Placed' /\ SlotsDisjoint'
<1>1. FrameInv /\ Placed /\ SlotsDisjoint /\ TypeOK
  BY DEF IInv
<1>2. cur \in Var /\ cur \in Nat /\ cur' - 1 = cur
  BY CurFacts DEF Var
<1>3. \A u \in Var : Width(u) \in Nat /\ Width(u)' = Width(u)
  BY DEF Width, Cls
<1>4. offset \in Nat /\ base \in Nat /\ \A u \in Var : slot[u] \in Nat
  BY <1>1 DEF TypeOK
<1>5. slot'[x] = offset + Width(x) /\ \A u \in Var : u # x => slot'[u] = slot[u]
  BY <1>1 DEF TypeOK
<1>6. offset' \in Nat /\ slot' \in [Var -> Nat]
  <2>1. offset + Width(x) \in Nat
    BY <1>3, <1>4
  <2> QED
    BY <1>1, <2>1 DEF TypeOK
<1>7. FrameInv'
  <2>1. \A v \in Var : slot'[v] <= offset'
    BY <1>1, <1>3, <1>4, <1>5 DEF FrameInv
  <2> QED
    BY <1>1, <1>3, <1>4, <2>1 DEF FrameInv
<1>8. \A u \in 1..cur : u \in Var
  BY <1>2, LinearScanAssumption DEF Var
<1>9. \A u \in 1..cur : u # x /\ regnum'[u] = Spilled
                         => u \in 1..(cur - 1) /\ regnum[u] = Spilled
  BY <1>2, <1>8
<1>10. Placed'
  <2> SUFFICES ASSUME NEW v \in 1..cur, regnum'[v] = Spilled
               PROVE  slot'[v] >= base + Width(v)
    BY <1>2, <1>3, <1>8 DEF Placed
  <2>1. CASE v = x
    BY <1>1, <1>3, <1>4, <1>5, <2>1 DEF FrameInv
  <2>2. CASE v # x
    <3>1. slot[v] >= base + Width(v)
      BY <1>1, <1>9, <2>2 DEF Placed
    <3> QED
      BY <1>5, <1>8, <2>2, <3>1
  <2> QED
    BY <2>1, <2>2
<1>11. SlotsDisjoint'
  <2> SUFFICES ASSUME NEW u \in 1..cur, NEW v \in 1..cur, u # v,
                      regnum'[u] = Spilled, regnum'[v] = Spilled
               PROVE  \/ slot'[u] + Width(v) <= slot'[v]
                      \/ slot'[v] + Width(u) <= slot'[u]
    BY <1>2, <1>3, <1>8 DEF SlotsDisjoint
  <2>1. CASE u = x
    <3>1. slot'[v] = slot[v] /\ slot[v] <= offset /\ slot[v] \in Nat
      BY <1>1, <1>4, <1>5, <1>8, <2>1 DEF FrameInv
    <3> QED
      BY <1>3, <1>4, <1>5, <2>1, <3>1
  <2>2. CASE v = x
    <3>1. slot'[u] = slot[u] /\ slot[u] <= offset /\ slot[u] \in Nat
      BY <1>1, <1>4, <1>5, <1>8, <2>2 DEF FrameInv
    <3> QED
      BY <1>3, <1>4, <1>5, <2>2, <3>1
  <2>3. CASE u # x /\ v # x
    <3>1. \/ slot[u] + Width(v) <= slot[v]
          \/ slot[v] + Width(u) <= slot[u]
      BY <1>1, <1>9, <2>3 DEF SlotsDisjoint
    <3> QED
      BY <1>5, <1>8, <2>3, <3>1
  <2> QED
    BY <2>1, <2>2, <2>3
<1> QED
  BY <1>6, <1>7, <1>10, <1>11

\* A value that keeps its register, or takes one that is below maxreg, is
\* covered by the save area.
LEMMA SaveStep ==
  ASSUME IInv, cur <= V, iv' = iv, cur' = cur + 1,
         \A c \in Class : maxreg[c] <= maxreg'[c],
         \A c \in Class : maxreg'[c] \in Nat,
         \A u \in Var : u < cur => regnum'[u] \in {regnum[u], Spilled},
         regnum'[cur] # Spilled => /\ regnum'[cur] \in Int
                                   /\ regnum'[cur] < maxreg'[Cls(cur)]
  PROVE  SaveAreaCovers'
<1>1. cur \in Var /\ cur \in Nat /\ cur' - 1 = cur
  BY CurFacts DEF Var
<1> SUFFICES ASSUME NEW v \in 1..cur, regnum'[v] # Spilled
             PROVE  regnum'[v] < maxreg'[Cls(v)]
  BY <1>1 DEF SaveAreaCovers, Cls
<1>2. v \in Var /\ Cls(v) \in Class
  BY <1>1, LinearScanAssumption, ClassOf DEF Var
<1>3. CASE v = cur
  BY <1>3
<1>4. CASE v < cur
  <2>1. regnum'[v] = regnum[v] /\ regnum[v] # Spilled
    BY <1>2, <1>4
  <2>2. regnum[v] < maxreg[Cls(v)]
    BY <1>1, <1>4, <2>1 DEF IInv, SaveAreaCovers
  <2>3. regnum[v] \in Int /\ maxreg[Cls(v)] \in Nat
    BY <1>2, <2>1 DEF IInv, TypeOK, RegIdx
  <2> QED
    BY <1>2, <2>1, <2>2, <2>3
<1> QED
  BY <1>1, <1>3, <1>4

\* The new value goes to memory; the active list stays.
LEMMA SpillNewInv == ASSUME IInv, SpillNew PROVE IInv'
<1>1. /\ pc = "place" /\ iv' = iv /\ base' = base /\ cur' = cur + 1
      /\ pc' = "expire" /\ active' = active /\ free' = free /\ maxreg' = maxreg
      /\ regnum' = [regnum EXCEPT ![cur] = Spilled]
      /\ offset' = offset + Width(cur)
      /\ slot' = [slot EXCEPT ![cur] = offset + Width(cur)]
  BY DEF SpillNew, NextValue, Bump
<1>2. TypeOK /\ ActiveInv /\ ExpiredInv /\ cur <= V
  BY <1>1 DEF IInv, PcInv
<1>3. cur \in Var /\ cur \in Nat
  BY <1>2, CurFacts DEF Var
<1>4. regnum'[cur] = Spilled /\ \A u \in Var : u # cur => regnum'[u] = regnum[u]
  BY <1>1, <1>2, <1>3 DEF TypeOK
<1>5. offset' \in Nat /\ slot' \in [Var -> Nat] /\ FrameInv' /\ Placed' /\ SlotsDisjoint'
  <2>1. \A u \in Var : u <= cur /\ u # cur /\ regnum'[u] = Spilled
                          => u < cur /\ regnum[u] = Spilled
    BY <1>3, <1>4 DEF Var
  <2>2. cur <= cur
    BY <1>3
  <2> QED
    BY <1>1, <1>2, <1>3, <2>1, <2>2, SlotStep
<1>6. NoClash'
  <2>1. \A u \in Var : u < cur => regnum'[u] \in {regnum[u], Spilled}
    BY <1>3, <1>4
  <2> QED
    BY <1>1, <1>2, <1>4, <2>1, NoClashStep
<1>7. TypeOK'
  <2>1. cur' \in 1..(V + 1)
    BY <1>1, <1>2, <1>3, LinearScanAssumption
  <2> QED
    BY <1>1, <1>2, <1>5, <2>1 DEF TypeOK
<1>8. ActiveInv'
  <2>1. \A c \in Class : \A i \in 1..Len(active[c]) :
          active[c][i] \in Var /\ active[c][i] < cur /\ active[c][i] # cur
    BY <1>2, <1>3, ActiveFacts
  <2>2. \A c \in Class : \A i \in 1..Len(active[c]) :
          regnum'[active[c][i]] = regnum[active[c][i]] /\ active[c][i] < cur + 1
    BY <1>3, <1>4, <2>1 DEF Var
  <2> QED
    BY <1>1, <1>2, <2>2 DEF ActiveInv, Cls
<1>9. ExpiredInv'
  <2> SUFFICES ASSUME NEW v \in Var, v < cur + 1, regnum'[v] # Spilled, ~IsActive(v)',
                      NEW w \in Var, cur + 1 <= w
               PROVE  iv[v].end <= iv[w].def
    BY <1>1 DEF ExpiredInv
  <2>1. v < cur /\ regnum[v] # Spilled /\ cur <= w
    BY <1>3, <1>4 DEF Var
  <2>2. ~IsActive(v)
    BY <1>1 DEF IsActive, Cls
  <2> QED
    BY <1>2, <2>1, <2>2 DEF ExpiredInv
<1>10. FreeIffUnheld'
  <2>1. \A c \in Class : \A i \in 1..Len(active[c]) :
          regnum'[active[c][i]] = regnum[active[c][i]]
    <3>1. \A c \in Class : \A i \in 1..Len(active[c]) :
            active[c][i] \in Var /\ active[c][i] # cur
      BY <1>2, <1>3, ActiveFacts
    <3> QED
      BY <1>4, <3>1
  <2> QED
    BY <1>1, <2>1 DEF IInv, FreeIffUnheld
<1>11. TableInv' /\ PcInv'
  BY <1>1 DEF IInv, TableInv, PcInv
<1>12. SaveAreaCovers'
  <2>1. \A c \in Class : maxreg[c] <= maxreg'[c] /\ maxreg'[c] \in Nat
    BY <1>1, <1>2, LinearScanAssumption DEF TypeOK
  <2>2. \A u \in Var : u < cur => regnum'[u] \in {regnum[u], Spilled}
    BY <1>3, <1>4
  <2> QED
    BY <1>1, <1>2, <1>4, <2>1, <2>2, SaveStep
<1> QED
  BY <1>5, <1>6, <1>7, <1>8, <1>9, <1>10, <1>11, <1>12 DEF IInv

\* The last active value goes to memory and the new one takes its register and
\* its place in the list.
LEMMA SpillLastInv == ASSUME IInv, SpillLast PROVE IInv'
<1> DEFINE c0 == Cls(cur)
           last == Act[R]
<1>1. /\ pc = "place" /\ iv' = iv /\ base' = base /\ cur' = cur + 1
      /\ pc' = "expire" /\ free' = free /\ maxreg' = maxreg
      /\ Len(Act) = R
      /\ active' = [active EXCEPT ![c0] = [Act EXCEPT ![R] = cur]]
      /\ regnum' = [regnum EXCEPT ![cur] = regnum[last], ![last] = Spilled]
      /\ offset' = offset + Width(last)
      /\ slot' = [slot EXCEPT ![last] = offset + Width(last)]
  BY DEF SpillLast, NextValue, Bump, ReplaceLast, Act
<1>2. TypeOK /\ ActiveInv /\ ExpiredInv /\ FreeIffUnheld /\ cur <= V
  BY <1>1 DEF IInv, PcInv
<1>3. cur \in Var /\ cur \in Nat /\ c0 \in Class /\ Act \in Seq(Var) /\ active[c0] = Act
  BY <1>2, CurFacts DEF Var, Act
<1>4. R \in 1..Len(Act)
  BY <1>1, LinearScanAssumption
<1>5. /\ last \in Var /\ last < cur /\ last # cur /\ Cls(last) = c0
      /\ regnum[last] \in RegIdx /\ regnum[last] # Spilled
  <2>1. regnum[last] # Spilled
    BY <1>2, <1>3, <1>4 DEF ActiveInv
  <2> QED
    BY <1>3, <1>4, <2>1, ActiveFacts
<1>6. /\ regnum'[cur] = regnum[last] /\ regnum'[last] = Spilled
      /\ \A u \in Var : u # cur /\ u # last => regnum'[u] = regnum[u]
  BY <1>1, <1>2, <1>3, <1>5 DEF TypeOK
<1>7. /\ active'[c0] \in Seq(Var)
      /\ Len(active'[c0]) = Len(Act)
      /\ active'[c0][R] = cur
      /\ \A i \in 1..Len(Act) : i # R => active'[c0][i] = Act[i]
      /\ \A c \in Class : c # c0 => active'[c] = active[c]
  <2>1. active'[c0] = [Act EXCEPT ![R] = cur]
    BY <1>1, <1>2, <1>3 DEF TypeOK
  <2>2. /\ [Act EXCEPT ![R] = cur] \in Seq(Var)
        /\ Len([Act EXCEPT ![R] = cur]) = Len(Act)
    BY <1>3, <1>4
  <2>3. /\ [Act EXCEPT ![R] = cur][R] = cur
        /\ \A i \in 1..Len(Act) : i # R => [Act EXCEPT ![R] = cur][i] = Act[i]
    BY <1>3, <1>4
  <2>4. \A c \in Class : c # c0 => active'[c] = active[c]
    BY <1>1, <1>2, <1>3 DEF TypeOK
  <2> QED
    BY <2>1, <2>2, <2>3, <2>4
<1> HIDE DEF c0, last
<1>8. \A c \in Class : \A i \in 1..Len(active[c]) :
        regnum'[active'[c][i]] = regnum[active[c][i]]
  <2> SUFFICES ASSUME NEW c \in Class, NEW i \in 1..Len(active[c])
               PROVE  regnum'[active'[c][i]] = regnum[active[c][i]]
    OBVIOUS
  <2>1. active[c][i] \in Var /\ active[c][i] # cur /\ Cls(active[c][i]) = c
    BY ActiveFacts
  <2>2. CASE c # c0
    BY <1>5, <1>6, <1>7, <2>1, <2>2
  <2>3. CASE c = c0 /\ i = R
    BY <1>3, <1>6, <1>7, <2>3 DEF last
  <2>4. CASE c = c0 /\ i # R
    <3>1. regnum[Act[i]] # regnum[last]
      BY <1>2, <1>3, <1>4, <2>4 DEF ActiveInv, last
    <3> QED
      BY <1>3, <1>6, <1>7, <2>1, <2>4, <3>1
  <2> QED
    BY <2>2, <2>3, <2>4
<1>9. \A c \in Class : Len(active'[c]) = Len(active[c])
  BY <1>3, <1>7
<1>10. offset' \in Nat /\ slot' \in [Var -> Nat] /\ FrameInv' /\ Placed' /\ SlotsDisjoint'
  <2>1. \A u \in Var : u <= cur /\ u # last /\ regnum'[u] = Spilled
                          => u < cur /\ regnum[u] = Spilled
    <3> SUFFICES ASSUME NEW u \in Var, u <= cur, u # last, regnum'[u] = Spilled
                 PROVE  u < cur /\ regnum[u] = Spilled
      OBVIOUS
    <3>1. u # cur
      BY <1>5, <1>6
    <3> QED
      BY <1>3, <1>6, <3>1 DEF Var
  <2>2. last <= cur
    BY <1>3, <1>5 DEF Var
  <2> QED
    BY <1>1, <1>2, <1>5, <2>1, <2>2, SlotStep DEF last
<1>11. \A u \in Var : u < cur => regnum'[u] \in {regnum[u], Spilled}
  <2> SUFFICES ASSUME NEW u \in Var, u < cur
               PROVE  regnum'[u] \in {regnum[u], Spilled}
    OBVIOUS
  <2>1. u # cur
    BY <1>3 DEF Var
  <2> QED
    BY <1>6, <2>1
<1>12. NoClash'
  <2>1. ASSUME NEW u \in Var, u < cur, Cls(u) = c0, regnum'[u] = regnum[last],
               IsActive(u)
        PROVE  FALSE
    <3>1. PICK i \in 1..Len(Act) : Act[i] = u
      BY <1>3, <2>1 DEF IsActive
    <3>2. u # last
      BY <1>5, <1>6, <2>1
    <3>3. u # cur
      BY <1>3, <2>1 DEF Var
    <3>4. regnum[Act[i]] = regnum[Act[R]]
      BY <1>6, <2>1, <3>1, <3>2, <3>3 DEF last
    <3>5. i = R
      BY <1>2, <1>3, <1>4, <3>1, <3>4 DEF ActiveInv
    <3> QED
      BY <3>1, <3>2, <3>5 DEF last
  <2>2. \A u \in Var : u < cur /\ Cls(u) = Cls(cur) /\ regnum'[u] = regnum[last]
                         /\ regnum[last] # Spilled => ~IsActive(u)
    BY <2>1 DEF c0
  <2>3. regnum'[cur] \in {regnum[last], Spilled}
    BY <1>6
  <2>4. iv' = iv /\ cur' = cur + 1
    BY <1>1
  <2> QED
    BY <1>2, <1>11, <2>2, <2>3, <2>4, NoClashStep
<1>13. TypeOK'
  <2>1. cur' \in 1..(V + 1)
    BY <1>1, <1>2, <1>3, LinearScanAssumption
  <2>2. active' \in [Class -> Seq(Var)]
    <3>1. [Act EXCEPT ![R] = cur] \in Seq(Var)
      BY <1>3, <1>4
    <3> QED
      BY <1>1, <1>2, <3>1 DEF TypeOK
  <2>3. regnum' \in [Var -> RegIdx \cup {Spilled}]
    BY <1>1, <1>2, <1>5 DEF TypeOK
  <2> QED
    BY <1>1, <1>2, <1>10, <2>1, <2>2, <2>3 DEF TypeOK
<1>14. ActiveInv'
  <2> SUFFICES ASSUME NEW c \in Class
               PROVE  /\ \A i \in 1..Len(active'[c]) :
                           /\ active'[c][i] < cur + 1
                           /\ Cls(active'[c][i]) = c
                           /\ regnum'[active'[c][i]] # Spilled
                      /\ \A i, j \in 1..Len(active'[c]) :
                           regnum'[active'[c][i]] = regnum'[active'[c][j]] => i = j
    <3>1. iv' = iv /\ cur' = cur + 1
      BY <1>1
    <3> QED
      BY <3>1 DEF ActiveInv, Cls
  <2>1. \A i \in 1..Len(active'[c]) :
          active'[c][i] = active[c][i] \/ (c = c0 /\ active'[c][i] = cur)
    BY <1>3, <1>7
  <2>2. \A i \in 1..Len(active'[c]) : active'[c][i] < cur + 1 /\ Cls(active'[c][i]) = c
    <3> SUFFICES ASSUME NEW i \in 1..Len(active'[c])
                 PROVE  active'[c][i] < cur + 1 /\ Cls(active'[c][i]) = c
      OBVIOUS
    <3>1. i \in 1..Len(active[c])
      BY <1>9
    <3>2. active[c][i] \in Var /\ active[c][i] < cur /\ Cls(active[c][i]) = c
      BY <3>1, ActiveFacts
    <3>3. active[c][i] < cur + 1 /\ cur < cur + 1
      BY <1>3, <3>2 DEF Var
    <3> QED
      BY <2>1, <3>2, <3>3 DEF c0
  <2>3. \A i \in 1..Len(active'[c]) : regnum'[active'[c][i]] # Spilled
    BY <1>2, <1>8, <1>9 DEF ActiveInv
  <2>4. \A i, j \in 1..Len(active'[c]) :
          regnum'[active'[c][i]] = regnum'[active'[c][j]] => i = j
    BY <1>2, <1>8, <1>9 DEF ActiveInv
  <2> QED
    BY <2>2, <2>3, <2>4
<1>15. ExpiredInv'
  <2> SUFFICES ASSUME NEW v \in Var, v < cur + 1, regnum'[v] # Spilled, ~IsActive(v)',
                      NEW w \in Var, cur + 1 <= w
               PROVE  iv[v].end <= iv[w].def
    BY <1>1 DEF ExpiredInv
  <2>1. Cls(v)' = Cls(v) /\ Cls(v) \in Class
    BY <1>1, ClassOf DEF Cls
  <2>2. v # cur
    <3>1. v = cur => IsActive(v)'
      BY <1>4, <1>7, <2>1 DEF IsActive, c0
    <3> QED
      BY <3>1
  <2>3. v # last
    BY <1>6
  <2>4. ~IsActive(v)
    <3> SUFFICES ASSUME NEW i \in 1..Len(active[Cls(v)]), active[Cls(v)][i] = v
                 PROVE  FALSE
      BY DEF IsActive
    <3>1. active'[Cls(v)][i] = v
      BY <1>3, <1>7, <2>1, <2>3 DEF last
    <3>2. i \in 1..Len(active'[Cls(v)])
      BY <1>9, <2>1
    <3>3. IsActive(v)'
      BY <2>1, <3>1, <3>2 DEF IsActive
    <3> QED
      BY <3>3
  <2>5. v < cur /\ cur <= w
    BY <1>3, <2>2 DEF Var
  <2>6. regnum[v] # Spilled
    BY <1>6, <2>2, <2>3
  <2> QED
    BY <1>2, <2>4, <2>5, <2>6 DEF ExpiredInv
<1>16. FreeIffUnheld'
  <2> SUFFICES ASSUME NEW c \in Class, NEW r \in RegIdx
               PROVE  ~free[c][r] <=>
                        \E i \in 1..Len(active'[c]) : regnum'[active'[c][i]] = r
    BY <1>1 DEF FreeIffUnheld
  <2>1. ~free[c][r] <=> \E i \in 1..Len(active[c]) : regnum[active[c][i]] = r
    BY <1>2 DEF FreeIffUnheld
  <2>2. 1..Len(active'[c]) = 1..Len(active[c])
    BY <1>9
  <2> QED
    BY <1>8, <2>1, <2>2
<1>17. TableInv' /\ PcInv'
  BY <1>1 DEF IInv, TableInv, PcInv
<1>18. SaveAreaCovers'
  <2>1. \A c \in Class : maxreg[c] <= maxreg'[c] /\ maxreg'[c] \in Nat
    BY <1>1, <1>2, LinearScanAssumption DEF TypeOK
  <2>2. regnum[last] \in Int
    BY <1>5, LinearScanAssumption DEF RegIdx
  <2>3. last \in 1..(cur - 1)
    BY <1>3, <1>5 DEF Var
  <2>4. regnum[last] < maxreg[c0]
    BY <1>5, <2>3 DEF IInv, SaveAreaCovers
  <2>5. regnum'[cur] < maxreg'[Cls(cur)] /\ regnum'[cur] \in Int
    BY <1>1, <1>6, <2>2, <2>4 DEF c0
  <2> QED
    BY <1>1, <1>2, <1>11, <2>1, <2>5, SaveStep
<1> QED
  BY <1>10, <1>12, <1>13, <1>14, <1>15, <1>16, <1>17, <1>18 DEF IInv

\* While the list is not full, some register of the class is free: the loop
\* over the registers never falls through.
LEMMA FreeExists ==
  ASSUME IInv, cur <= V, Len(Act) # R
  PROVE  \E r \in RegIdx : free[Cls(cur)][r]
<1> DEFINE n == Len(Act)
           D == 1..n
<1>1. /\ Cls(cur) \in Class /\ active[Cls(cur)] = Act /\ n \in Nat
  BY CurFacts DEF Act
<1>2. R \in Nat /\ R > 0
  BY LinearScanAssumption
<1>3. /\ IsFiniteSet(D) /\ Cardinality(D) = n
  <2>1. 1 \in Int /\ n \in Int
    BY <1>1
  <2> HIDE DEF n
  <2>2. IsFiniteSet(1..n) /\ Cardinality(1..n) = IF 1 > n THEN 0 ELSE n - 1 + 1
    BY <2>1, FS_Interval
  <2> QED
    BY <1>1, <2>2
<1>4. /\ IsFiniteSet(RegIdx) /\ Cardinality(RegIdx) = R
  <2>1. 0 \in Int /\ R - 1 \in Int
    BY <1>2
  <2>2. IsFiniteSet(0..(R - 1)) /\
        Cardinality(0..(R - 1)) = IF 0 > R - 1 THEN 0 ELSE (R - 1) - 0 + 1
    BY <2>1, FS_Interval
  <2> QED
    BY <1>2, <2>2 DEF RegIdx
<1>5. \A i \in D : regnum[Act[i]] \in RegIdx
  BY <1>1, ActiveFacts
<1>6. \A i, j \in D : regnum[Act[i]] = regnum[Act[j]] => i = j
  BY <1>1 DEF IInv, ActiveInv
<1> SUFFICES ASSUME \A r \in RegIdx : ~free[Cls(cur)][r] PROVE FALSE
  OBVIOUS
<1>7. \A r \in RegIdx : \E i \in D : regnum[Act[i]] = r
  BY <1>1 DEF IInv, FreeIffUnheld
<1> HIDE DEF D, n
<1>8. ~(n > R)
  <2> DEFINE f == [i \in D |-> regnum[Act[i]]]
  <2>1. f \in [D -> RegIdx]
    BY <1>5
  <2>2. \A i, j \in D : i # j => f[i] # f[j]
    BY <1>6
  <2> HIDE DEF f
  <2> QED
    BY <1>3, <1>4, <2>1, <2>2, FS_PigeonHole
<1>9. ~(R > n)
  <2> DEFINE g == [r \in RegIdx |-> CHOOSE i \in D : regnum[Act[i]] = r]
  <2>1. \A r \in RegIdx : g[r] \in D /\ regnum[Act[g[r]]] = r
    BY <1>7
  <2>2. g \in [RegIdx -> D]
    BY <2>1
  <2>3. \A q, r \in RegIdx : q # r => g[q] # g[r]
    BY <2>1
  <2> HIDE DEF g
  <2> QED
    BY <1>3, <1>4, <2>2, <2>3, FS_PigeonHole
<1> QED
  BY <1>1, <1>2, <1>8, <1>9 DEF n

\* The frame is left alone when the new value gets a register.
LEMMA KeepSlots ==
  ASSUME IInv, cur <= V, iv' = iv, base' = base, cur' = cur + 1,
         slot' = slot, offset' = offset,
         \A u \in Var : u <= cur /\ regnum'[u] = Spilled
                          => u < cur /\ regnum[u] = Spilled
  PROVE  FrameInv' /\ Placed' /\ SlotsDisjoint'
<1>1. FrameInv /\ Placed /\ SlotsDisjoint
  BY DEF IInv
<1>2. cur \in Var /\ cur \in Nat /\ cur' - 1 = cur
  BY CurFacts DEF Var
<1>3. \A u : Width(u)' = Width(u)
  BY DEF Width, Cls
<1>4. \A u \in 1..cur : regnum'[u] = Spilled
                         => u \in 1..(cur - 1) /\ regnum[u] = Spilled
  <2>1. \A u \in 1..cur : u \in Var /\ u <= cur
    BY <1>2, LinearScanAssumption DEF Var
  <2> QED
    BY <1>2, <2>1
<1>5. FrameInv'
  BY <1>1 DEF FrameInv
<1>6. Placed'
  <2> SUFFICES ASSUME NEW v \in 1..cur, regnum'[v] = Spilled
               PROVE  slot[v] >= base + Width(v)
    BY <1>2, <1>3 DEF Placed
  <2> QED
    BY <1>1, <1>4 DEF Placed
<1>7. SlotsDisjoint'
  <2> SUFFICES ASSUME NEW u \in 1..cur, NEW v \in 1..cur, u # v,
                      regnum'[u] = Spilled, regnum'[v] = Spilled
               PROVE  slot[u] + Width(v) <= slot[v] \/ slot[v] + Width(u) <= slot[u]
    BY <1>2, <1>3 DEF SlotsDisjoint
  <2> QED
    BY <1>1, <1>4 DEF SlotsDisjoint
<1> QED
  BY <1>5, <1>6, <1>7

\* What std::sort leaves of the list with the new value.
LEMMA SortedFacts ==
  ASSUME IInv, cur <= V, NEW s \in Sorted(Append(Act, cur))
  PROVE  /\ s \in Seq(Var) /\ Len(s) = Len(Act) + 1
         /\ \A i \in 1..Len(s) : s[i] = cur \/ \E k \in 1..Len(Act) : s[i] = Act[k]
         /\ \A k \in 1..Len(Act) : \E i \in 1..Len(s) : s[i] = Act[k]
         /\ \E i \in 1..Len(s) : s[i] = cur
         /\ \A i, j \in 1..Len(s) : s[i] = s[j] => i = j
<1> DEFINE q == Append(Act, cur)
           n == Len(Act) + 1
           E == Elements(q)
<1>1. cur \in Var /\ Act \in Seq(Var) /\ Len(Act) \in Nat
  BY CurFacts
<1>2. /\ Len(q) = n /\ q[n] = cur
      /\ \A k \in 1..Len(Act) : q[k] = Act[k]
  BY <1>1
<1>3. \A x \in E : x \in Var /\ (x = cur \/ \E k \in 1..Len(Act) : x = Act[k])
  <2> SUFFICES ASSUME NEW i \in 1..n
               PROVE  q[i] \in Var /\ (q[i] = cur \/ \E k \in 1..Len(Act) : q[i] = Act[k])
    BY <1>2 DEF Elements
  <2>1. i = n \/ i \in 1..Len(Act)
    BY <1>1
  <2> QED
    BY <1>1, <1>2, <2>1
<1>4. cur \in E /\ \A k \in 1..Len(Act) : Act[k] \in E
  <2>1. n \in 1..n /\ \A k \in 1..Len(Act) : k \in 1..n
    BY <1>1
  <2> QED
    BY <1>2, <2>1 DEF Elements
<1>5. /\ s \in [1..n -> E]
      /\ \A x \in E : \E i \in 1..n : s[i] = x
      /\ \A i, j \in 1..n : i < j => s[i] # s[j]
  BY <1>2 DEF Sorted
<1> HIDE DEF E, q, n
<1>6. n \in Nat
  BY <1>1 DEF n
<1>7. s \in [1..n -> Var]
  BY <1>3, <1>5
<1>8. s \in Seq(Var) /\ Len(s) = n
  BY <1>6, <1>7
<1>9. \A i, j \in 1..n : s[i] = s[j] => i = j
  BY <1>5, <1>6
<1>10. \A i \in 1..n : s[i] \in E
  BY <1>5
<1> QED
  BY <1>3, <1>4, <1>5, <1>8, <1>9, <1>10 DEF n

\* The new value takes the first free register and joins the sorted list.
LEMMA AllocateInv == ASSUME IInv, Allocate PROVE IInv'
<1> DEFINE c0 == Cls(cur)
<1>1. pc = "place" /\ Len(Act) # R /\ cur <= V
  BY DEF Allocate, IInv, PcInv
<1>2. PICK r \in RegIdx, s \in Sorted(Append(Act, cur)) :
        /\ free[c0][r]
        /\ regnum' = [regnum EXCEPT ![cur] = r]
        /\ maxreg' = [maxreg EXCEPT ![c0] = HighMark(maxreg[c0], r)]
        /\ free' = [free EXCEPT ![c0] = [free[c0] EXCEPT ![r] = FALSE]]
        /\ active' = [active EXCEPT ![c0] = s]
  BY <1>1, FreeExists DEF Allocate, Taken
<1>3. /\ iv' = iv /\ base' = base /\ cur' = cur + 1 /\ pc' = "expire"
      /\ slot' = slot /\ offset' = offset
  BY DEF Allocate, NextValue
<1>4. TypeOK /\ ActiveInv /\ ExpiredInv /\ FreeIffUnheld
  BY DEF IInv
<1>5. cur \in Var /\ cur \in Nat /\ c0 \in Class /\ active[c0] = Act /\ Len(Act) \in Nat
  BY <1>1, CurFacts DEF Var, Act
<1>6. /\ s \in Seq(Var) /\ Len(s) = Len(Act) + 1
      /\ \A i \in 1..Len(s) : s[i] = cur \/ \E k \in 1..Len(Act) : s[i] = Act[k]
      /\ \A k \in 1..Len(Act) : \E i \in 1..Len(s) : s[i] = Act[k]
      /\ \E i \in 1..Len(s) : s[i] = cur
      /\ \A i, j \in 1..Len(s) : s[i] = s[j] => i = j
  BY <1>1, SortedFacts
<1>7. r # Spilled /\ r \in Int /\ r >= 0 /\ r < R
  BY LinearScanAssumption DEF RegIdx, Spilled
<1>8. regnum'[cur] = r /\ \A u \in Var : u # cur => regnum'[u] = regnum[u]
  BY <1>2, <1>4, <1>5 DEF TypeOK
<1>9. active'[c0] = s /\ \A c \in Class : c # c0 => active'[c] = active[c]
  BY <1>2, <1>4, <1>5 DEF TypeOK
<1>10. /\ ~free'[c0][r]
       /\ \A q \in RegIdx : q # r => free'[c0][q] = free[c0][q]
       /\ \A c \in Class : c # c0 => free'[c] = free[c]
  BY <1>2, <1>4, <1>5 DEF TypeOK
<1>11. \A k \in 1..Len(Act) : /\ regnum'[Act[k]] = regnum[Act[k]]
                              /\ regnum[Act[k]] # r
                              /\ Act[k] # cur
  <2> SUFFICES ASSUME NEW k \in 1..Len(Act)
               PROVE  regnum'[Act[k]] = regnum[Act[k]] /\ regnum[Act[k]] # r /\ Act[k] # cur
    OBVIOUS
  <2>1. Act[k] \in Var /\ Act[k] # cur
    BY <1>5, ActiveFacts
  <2>2. regnum[Act[k]] # r
    BY <1>2, <1>4, <1>5 DEF FreeIffUnheld
  <2> QED
    BY <1>8, <2>1, <2>2
<1>12. \A c \in Class : c # c0 =>
         \A i \in 1..Len(active[c]) : regnum'[active[c][i]] = regnum[active[c][i]]
  <2> SUFFICES ASSUME NEW c \in Class, NEW i \in 1..Len(active[c])
               PROVE  regnum'[active[c][i]] = regnum[active[c][i]]
    OBVIOUS
  <2>1. active[c][i] \in Var /\ active[c][i] # cur
    BY ActiveFacts
  <2> QED
    BY <1>8, <2>1
<1> HIDE DEF c0
<1>13. TypeOK'
  <2>1. cur' \in 1..(V + 1)
    BY <1>1, <1>3, <1>5, LinearScanAssumption
  <2>2. active' \in [Class -> Seq(Var)]
    BY <1>2, <1>4, <1>6 DEF TypeOK
  <2>3. regnum' \in [Var -> RegIdx \cup {Spilled}]
    BY <1>2, <1>4 DEF TypeOK
  <2>4. free' \in [Class -> [RegIdx -> BOOLEAN]]
    BY <1>2, <1>4 DEF TypeOK
  <2>5. HighMark(maxreg[c0], r) \in 0..R
    BY <1>4, <1>5, <1>7, LinearScanAssumption DEF TypeOK, HighMark
  <2>6. maxreg' \in [Class -> 0..R]
    BY <1>2, <1>4, <2>5 DEF TypeOK
  <2> QED
    BY <1>3, <1>4, <2>1, <2>2, <2>3, <2>4, <2>6 DEF TypeOK
<1>14. ActiveInv'
  <2> SUFFICES ASSUME NEW c \in Class
               PROVE  /\ \A i \in 1..Len(active'[c]) :
                           /\ active'[c][i] < cur + 1
                           /\ Cls(active'[c][i]) = c
                           /\ regnum'[active'[c][i]] # Spilled
                      /\ \A i, j \in 1..Len(active'[c]) :
                           regnum'[active'[c][i]] = regnum'[active'[c][j]] => i = j
    BY <1>3 DEF ActiveInv, Cls
  <2>1. CASE c # c0
    <3>1. \A i \in 1..Len(active[c]) : active[c][i] < cur + 1 /\ Cls(active[c][i]) = c
      <4> SUFFICES ASSUME NEW i \in 1..Len(active[c])
                   PROVE  active[c][i] < cur + 1 /\ Cls(active[c][i]) = c
        OBVIOUS
      <4>1. active[c][i] \in Var /\ active[c][i] < cur /\ Cls(active[c][i]) = c
        BY ActiveFacts
      <4> QED
        BY <1>5, <4>1 DEF Var
    <3> QED
      BY <1>4, <1>9, <1>12, <2>1, <3>1 DEF ActiveInv
  <2>2. CASE c = c0
    <3>1. \A k \in 1..Len(Act) : /\ Act[k] < cur + 1 /\ Cls(Act[k]) = c
                                 /\ regnum[Act[k]] # Spilled
      <4> SUFFICES ASSUME NEW k \in 1..Len(Act)
                   PROVE  Act[k] < cur + 1 /\ Cls(Act[k]) = c /\ regnum[Act[k]] # Spilled
        OBVIOUS
      <4>1. Act[k] \in Var /\ Act[k] < cur /\ Cls(Act[k]) = c
        BY <1>5, <2>2, ActiveFacts
      <4>2. regnum[Act[k]] # Spilled
        BY <1>4, <1>5 DEF ActiveInv
      <4> QED
        BY <1>5, <4>1, <4>2 DEF Var
    <3>2. ASSUME NEW i \in 1..Len(s)
          PROVE  s[i] < cur + 1 /\ Cls(s[i]) = c /\ regnum'[s[i]] # Spilled
      <4>1. CASE s[i] = cur
        BY <1>5, <1>7, <1>8, <2>2, <4>1 DEF c0
      <4>2. CASE \E k \in 1..Len(Act) : s[i] = Act[k]
        BY <1>11, <3>1, <4>2
      <4> QED
        BY <1>6, <4>1, <4>2
    <3>3. ASSUME NEW i \in 1..Len(s), NEW j \in 1..Len(s), regnum'[s[i]] = regnum'[s[j]]
          PROVE  i = j
      <4>1. s[i] = s[j]
        <5>1. CASE s[i] = cur
          BY <1>6, <1>8, <1>11, <3>3, <5>1
        <5>2. CASE s[j] = cur
          <6>1. regnum'[s[i]] = r
            BY <1>8, <3>3, <5>2
          <6>2. ~\E k \in 1..Len(Act) : s[i] = Act[k]
            BY <1>11, <6>1
          <6> QED
            BY <1>6, <5>2, <6>2
        <5>3. CASE s[i] # cur /\ s[j] # cur
          <6>1. PICK k \in 1..Len(Act) : s[i] = Act[k]
            BY <1>6, <5>3
          <6>2. PICK m \in 1..Len(Act) : s[j] = Act[m]
            BY <1>6, <5>3
          <6>3. regnum[Act[k]] = regnum[Act[m]]
            BY <1>11, <3>3, <6>1, <6>2
          <6>4. k = m
            BY <1>4, <1>5, <6>3 DEF ActiveInv
          <6> QED
            BY <6>1, <6>2, <6>4
        <5> QED
          BY <5>1, <5>2, <5>3
      <4> QED
        BY <1>6, <4>1
    <3> QED
      BY <1>9, <2>2, <3>2, <3>3
  <2> QED
    BY <2>1, <2>2
<1>15. ExpiredInv'
  <2> SUFFICES ASSUME NEW v \in Var, v < cur + 1, regnum'[v] # Spilled, ~IsActive(v)',
                      NEW w \in Var, cur + 1 <= w
               PROVE  iv[v].end <= iv[w].def
    BY <1>3 DEF ExpiredInv
  <2>1. Cls(v)' = Cls(v) /\ Cls(v) \in Class
    BY <1>3, ClassOf DEF Cls
  <2>2. v # cur
    <3>1. v = cur => IsActive(v)'
      BY <1>6, <1>9, <2>1 DEF IsActive, c0
    <3> QED
      BY <3>1
  <2>3. ~IsActive(v)
    <3> SUFFICES ASSUME NEW i \in 1..Len(active[Cls(v)]), active[Cls(v)][i] = v
                 PROVE  FALSE
      BY DEF IsActive
    <3>1. \E j \in 1..Len(active'[Cls(v)]) : active'[Cls(v)][j] = v
      <4>1. CASE Cls(v) # c0
        BY <1>9, <2>1, <4>1
      <4>2. CASE Cls(v) = c0
        BY <1>5, <1>6, <1>9, <4>2
      <4> QED
        BY <4>1, <4>2
    <3>2. IsActive(v)'
      BY <2>1, <3>1 DEF IsActive
    <3> QED
      BY <3>2
  <2>4. v < cur /\ cur <= w
    BY <1>5, <2>2 DEF Var
  <2>5. regnum[v] # Spilled
    BY <1>8, <2>2
  <2> QED
    BY <1>4, <2>3, <2>4, <2>5 DEF ExpiredInv
<1>16. FreeIffUnheld'
  <2> SUFFICES ASSUME NEW c \in Class, NEW q \in RegIdx
               PROVE  ~free'[c][q] <=>
                        \E i \in 1..Len(active'[c]) : regnum'[active'[c][i]] = q
    BY DEF FreeIffUnheld
  <2>1. ~free[c][q] <=> \E i \in 1..Len(active[c]) : regnum[active[c][i]] = q
    BY <1>4 DEF FreeIffUnheld
  <2>2. CASE c # c0
    <3>1. active'[c] = active[c] /\ free'[c] = free[c]
      BY <1>9, <1>10, <2>2
    <3>2. \A i \in 1..Len(active[c]) : regnum'[active[c][i]] = regnum[active[c][i]]
      BY <1>12, <2>2
    <3> QED
      BY <2>1, <3>1, <3>2
  <2>3. CASE c = c0 /\ q = r
    <3>1. \E i \in 1..Len(s) : regnum'[s[i]] = q
      BY <1>6, <1>8, <2>3
    <3> QED
      BY <1>9, <1>10, <2>3, <3>1
  <2>4. CASE c = c0 /\ q # r
    <3>1. (\E i \in 1..Len(s) : regnum'[s[i]] = q) <=>
          (\E k \in 1..Len(Act) : regnum[Act[k]] = q)
      <4>1. ASSUME NEW i \in 1..Len(s), regnum'[s[i]] = q
            PROVE  \E k \in 1..Len(Act) : regnum[Act[k]] = q
        BY <1>6, <1>8, <1>11, <2>4, <4>1
      <4>2. ASSUME NEW k \in 1..Len(Act), regnum[Act[k]] = q
            PROVE  \E i \in 1..Len(s) : regnum'[s[i]] = q
        <5>1. PICK i \in 1..Len(s) : s[i] = Act[k]
          BY <1>6
        <5>2. regnum'[Act[k]] = q
          BY <1>11, <4>2
        <5> QED
          BY <5>1, <5>2
      <4> QED
        BY <4>1, <4>2
    <3>2. free'[c][q] = free[c][q]
      BY <1>10, <2>4
    <3> QED
      BY <1>5, <1>9, <2>1, <2>4, <3>1, <3>2
  <2> QED
    BY <2>2, <2>3, <2>4
<1>17. \A u \in Var : u < cur => regnum'[u] \in {regnum[u], Spilled}
  <2> SUFFICES ASSUME NEW u \in Var, u < cur
               PROVE  regnum'[u] \in {regnum[u], Spilled}
    OBVIOUS
  <2>1. u # cur
    BY <1>5 DEF Var
  <2> QED
    BY <1>8, <2>1
<1>18. NoClash'
  <2>1. ASSUME NEW u \in Var, u < cur, Cls(u) = c0, regnum'[u] = r, IsActive(u)
        PROVE  FALSE
    <3>1. PICK k \in 1..Len(Act) : Act[k] = u
      BY <1>5, <2>1 DEF IsActive
    <3> QED
      BY <1>11, <2>1, <3>1
  <2>2. \A u \in Var : u < cur /\ Cls(u) = Cls(cur) /\ regnum'[u] = r
                         /\ r # Spilled => ~IsActive(u)
    BY <2>1 DEF c0
  <2>3. regnum'[cur] \in {r, Spilled}
    BY <1>8
  <2>4. iv' = iv /\ cur' = cur + 1
    BY <1>3
  <2> QED
    BY <1>1, <1>17, <2>2, <2>3, <2>4, NoClashStep
<1>19. FrameInv' /\ Placed' /\ SlotsDisjoint'
  <2>1. \A u \in Var : u <= cur /\ regnum'[u] = Spilled
                         => u < cur /\ regnum[u] = Spilled
    <3> SUFFICES ASSUME NEW u \in Var, u <= cur, regnum'[u] = Spilled
                 PROVE  u < cur /\ regnum[u] = Spilled
      OBVIOUS
    <3>1. u # cur
      BY <1>7, <1>8
    <3> QED
      BY <1>5, <1>8, <3>1 DEF Var
  <2> QED
    BY <1>1, <1>3, <2>1, KeepSlots
<1>20. TableInv' /\ PcInv'
  BY <1>3 DEF IInv, TableInv, PcInv
<1>21. SaveAreaCovers'
  <2>1. HighMark(maxreg[c0], r) \in Nat /\ maxreg[c0] <= HighMark(maxreg[c0], r)
        /\ r < HighMark(maxreg[c0], r)
    BY <1>4, <1>5, <1>7, LinearScanAssumption DEF TypeOK, HighMark
  <2>2. maxreg'[c0] = HighMark(maxreg[c0], r)
        /\ \A c \in Class : c # c0 => maxreg'[c] = maxreg[c]
    BY <1>2, <1>4, <1>5 DEF TypeOK
  <2>3. \A c \in Class : maxreg[c] \in Nat /\ maxreg[c] <= maxreg[c]
    BY <1>4, LinearScanAssumption DEF TypeOK
  <2>4. \A c \in Class : maxreg[c] <= maxreg'[c] /\ maxreg'[c] \in Nat
    BY <2>1, <2>2, <2>3
  <2>5. regnum'[cur] \in Int /\ regnum'[cur] < maxreg'[Cls(cur)]
    BY <1>7, <1>8, <2>1, <2>2 DEF c0
  <2> QED
    BY <1>1, <1>3, <1>17, <2>4, <2>5, SaveStep
<1> QED
  BY <1>13, <1>14, <1>15, <1>16, <1>18, <1>19, <1>20, <1>21 DEF IInv

-----------------------------------------------------------------------------

\* Every step of LinearScan preserves the inductive invariant.
LEMMA StepInv == IInv /\ [Next]_vars => IInv'
<1> SUFFICES ASSUME IInv, [Next]_vars PROVE IInv'
  OBVIOUS
<1>1. CASE Next
  BY <1>1, ExpireInv, ReturnInv, SpillLastInv, SpillNewInv, AllocateInv DEF Next
<1>2. CASE UNCHANGED vars
  <2>1. /\ iv' = iv /\ base' = base /\ pc' = pc /\ cur' = cur /\ active' = active
        /\ free' = free /\ regnum' = regnum /\ maxreg' = maxreg /\ slot' = slot
        /\ offset' = offset
    BY <1>2 DEF vars
  <2>2. TypeOK' /\ TableInv' /\ PcInv' /\ FrameInv'
    BY <2>1 DEF IInv, TypeOK, TableInv, PcInv, FrameInv
  <2>3. ActiveInv' /\ ExpiredInv' /\ FreeIffUnheld'
    BY <2>1 DEF IInv, ActiveInv, ExpiredInv, IsActive, FreeIffUnheld, Cls
  <2>4. NoClash' /\ Placed' /\ SlotsDisjoint' /\ SaveAreaCovers'
    BY <2>1 DEF IInv, NoClash, Placed, SlotsDisjoint, SaveAreaCovers, Cls, Width
  <2> QED
    BY <2>2, <2>3, <2>4 DEF IInv
<1> QED
  BY <1>1, <1>2

\* The inductive invariant holds in every state of LinearScan.
THEOREM Invariance == Spec => []IInv
BY InitInv, StepInv, PTL DEF Spec

\* The state of the allocator keeps its types.
THEOREM TypeCorrect == Spec => []TypeOK
<1>1. IInv => TypeOK
  BY DEF IInv
<1> QED
  BY <1>1, Invariance, PTL

\* Values that LinearScan puts in one register do not overlap.
THEOREM RegistersNotShared == Spec => []NoClash
<1>1. IInv => NoClash
  BY DEF IInv
<1> QED
  BY <1>1, Invariance, PTL

\* ExpireOldIntervals and SpillAtInterval neither lose nor duplicate a register.
THEOREM RegistersConserved == Spec => []FreeIffUnheld
<1>1. IInv => FreeIffUnheld
  BY DEF IInv
<1> QED
  BY <1>1, Invariance, PTL

\* Every value that LinearScan has gone by is in a register or in a spill slot
\* beyond the allocas.
THEOREM AllPlaced == Spec => []Placed
<1>1. IInv => Placed
  BY DEF IInv
<1> QED
  BY <1>1, Invariance, PTL

\* The slots SpillAtInterval reserves share no byte.
THEOREM SpillSlotsDisjoint == Spec => []SlotsDisjoint
<1>1. IInv => SlotsDisjoint
  BY DEF IInv
<1> QED
  BY <1>1, Invariance, PTL

\* maxreg and maxfreg count every register handed out.
THEOREM SaveAreaSuffices == Spec => []SaveAreaCovers
<1>1. IInv => SaveAreaCovers
  BY DEF IInv
<1> QED
  BY <1>1, Invariance, PTL

\* No step of LinearScan moves a value that is in memory.
LEMMA SpillStep ==
  ASSUME IInv, Next, NEW v \in 1..(cur - 1), regnum[v] = Spilled
  PROVE  regnum'[v] = Spilled /\ slot'[v] = slot[v]
<1>1. TypeOK /\ cur \in Nat
  BY LinearScanAssumption DEF IInv, TypeOK
<1>2. v \in Var /\ v # cur
  BY <1>1, LinearScanAssumption DEF TypeOK, Var
<1>3. CASE ExpireOldIntervals \/ ExpireReturn \/ Finish
  BY <1>3 DEF ExpireOldIntervals, ExpireReturn, Finish
<1>4. CASE SpillNew
  <2>1. regnum' = [regnum EXCEPT ![cur] = Spilled] /\ slot' = [slot EXCEPT ![cur] = Bump(cur)]
    BY <1>4 DEF SpillNew
  <2> QED
    BY <1>1, <1>2, <2>1 DEF TypeOK
<1>5. CASE Allocate
  <2>1. slot' = slot
    BY <1>5 DEF Allocate
  <2>2. regnum' = regnum \/ \E r \in RegIdx : regnum' = [regnum EXCEPT ![cur] = r]
    BY <1>5 DEF Allocate
  <2> QED
    BY <1>1, <1>2, <2>1, <2>2 DEF TypeOK
<1>6. CASE SpillLast
  <2> DEFINE last == Act[R]
  <2>1. /\ regnum' = [regnum EXCEPT ![cur] = regnum[last], ![last] = Spilled]
        /\ slot' = [slot EXCEPT ![last] = Bump(last)]
        /\ Len(Act) = R /\ cur <= V
    BY <1>6 DEF SpillLast, IInv, PcInv
  <2>2. Cls(cur) \in Class /\ Act = active[Cls(cur)] /\ R \in 1..Len(Act)
    BY <2>1, CurFacts, LinearScanAssumption DEF Act
  <2>3. regnum[last] # Spilled
    BY <2>2 DEF IInv, ActiveInv
  <2> HIDE DEF last
  <2>4. v # last
    BY <2>3
  <2> QED
    BY <1>1, <1>2, <2>1, <2>4 DEF TypeOK
<1> QED
  BY <1>3, <1>4, <1>5, <1>6 DEF Next

\* A value that SpillAtInterval put in memory stays in its slot.
THEOREM SpillsAreFinal == Spec => SpillIsFinal
<1> DEFINE A == \A v \in 1..(cur - 1) :
                  regnum[v] = Spilled => regnum'[v] = Spilled /\ slot'[v] = slot[v]
<1>1. IInv /\ [Next]_vars => [A]_vars
  BY SpillStep
<1>2. Spec => [][A]_vars
  BY <1>1, Invariance, PTL DEF Spec
<1> QED
  BY <1>2 DEF SpillIsFinal

\* The homes of the values that LinearScan has gone by are compatible.
LEMMA HomesCompatible == IInv => Promise!Compatible(cur - 1)
<1> SUFFICES ASSUME IInv, NEW u \in 1..(cur - 1), NEW v \in 1..(cur - 1)
             PROVE  /\ regnum[v] \in (0..(R - 1)) \cup {Promise!InMemory}
                    /\ regnum[v] = Promise!InMemory => slot[v] >= base + Promise!Bytes(v)
                    /\ u < v /\ iv[u].cls = iv[v].cls /\ regnum[u] = regnum[v]
                         /\ regnum[u] # Promise!InMemory
                         => iv[u].end <= iv[v].def
                    /\ u # v /\ regnum[u] = Promise!InMemory /\ regnum[v] = Promise!InMemory
                         => \/ slot[u] + Promise!Bytes(v) <= slot[v]
                            \/ slot[v] + Promise!Bytes(u) <= slot[u]
  BY DEF Promise!Compatible
<1>1. TypeOK /\ NoClash /\ Placed /\ SlotsDisjoint
  BY DEF IInv
<1>2. u \in Var /\ v \in Var
  BY <1>1, LinearScanAssumption DEF TypeOK, Var
<1>3. Promise!InMemory = Spilled /\ Promise!Bytes(u) = Width(u) /\ Promise!Bytes(v) = Width(v)
  BY DEF Promise!InMemory, Spilled, Promise!Bytes, Width, Cls
<1>4. regnum[v] \in (0..(R - 1)) \cup {Spilled}
  BY <1>1, <1>2 DEF TypeOK, RegIdx
<1>5. regnum[v] = Spilled => slot[v] >= base + Width(v)
  BY <1>1 DEF Placed
<1>6. u < v /\ iv[u].cls = iv[v].cls /\ regnum[u] = regnum[v] /\ regnum[u] # Spilled
        => iv[u].end <= iv[v].def
  BY <1>1 DEF NoClash, Cls
<1>7. u # v /\ regnum[u] = Spilled /\ regnum[v] = Spilled
        => slot[u] + Width(v) <= slot[v] \/ slot[v] + Width(u) <= slot[u]
  BY <1>1 DEF SlotsDisjoint
<1> QED
  BY <1>3, <1>4, <1>5, <1>6, <1>7

\* A step of LinearScan that handles a value places it, and moves no value but
\* the one whose register it takes.
LEMMA PlacingStep ==
  ASSUME IInv, Next
  PROVE  \/ /\ iv' = iv /\ base' = base /\ cur' = cur /\ regnum' = regnum /\ slot' = slot
         \/ /\ iv' = iv /\ base' = base /\ cur' = cur + 1 /\ cur <= V
            /\ \A v \in 1..(cur - 1) :
                 \/ regnum'[v] = regnum[v] /\ slot'[v] = slot[v]
                 \/ regnum[v] # Spilled /\ regnum'[v] = Spilled /\ regnum'[cur] = regnum[v]
<1>1. TypeOK /\ cur \in Nat /\ V \in Nat
  BY LinearScanAssumption DEF IInv, TypeOK
<1>2. \A v \in 1..(cur - 1) : v \in Var /\ v # cur
  BY <1>1, LinearScanAssumption DEF TypeOK, Var
<1>3. CASE ExpireOldIntervals \/ ExpireReturn \/ Finish
  BY <1>3 DEF ExpireOldIntervals, ExpireReturn, Finish
<1>4. CASE SpillNew
  <2>1. /\ regnum' = [regnum EXCEPT ![cur] = Spilled] /\ slot' = [slot EXCEPT ![cur] = Bump(cur)]
        /\ iv' = iv /\ base' = base /\ cur' = cur + 1 /\ cur <= V
    BY <1>4 DEF SpillNew, NextValue, IInv, PcInv
  <2> QED
    BY <1>1, <1>2, <2>1 DEF TypeOK
<1>5. CASE Allocate
  <2>1. slot' = slot /\ iv' = iv /\ base' = base /\ cur' = cur + 1 /\ cur <= V
    BY <1>5 DEF Allocate, NextValue, IInv, PcInv
  <2>2. regnum' = regnum \/ \E r \in RegIdx : regnum' = [regnum EXCEPT ![cur] = r]
    BY <1>5 DEF Allocate
  <2> QED
    BY <1>1, <1>2, <2>1, <2>2 DEF TypeOK
<1>6. CASE SpillLast
  <2> DEFINE last == Act[R]
  <2>1. /\ regnum' = [regnum EXCEPT ![cur] = regnum[last], ![last] = Spilled]
        /\ slot' = [slot EXCEPT ![last] = Bump(last)]
        /\ iv' = iv /\ base' = base /\ cur' = cur + 1
        /\ Len(Act) = R /\ cur <= V
    BY <1>6 DEF SpillLast, NextValue, IInv, PcInv
  <2>2. Cls(cur) \in Class /\ Act = active[Cls(cur)] /\ R \in 1..Len(Act)
    BY <2>1, CurFacts, LinearScanAssumption DEF Act
  <2>3. regnum[last] # Spilled /\ last \in Var /\ last # cur /\ cur \in Var
    BY <2>1, <2>2, CurFacts, ActiveFacts DEF IInv, ActiveInv
  <2> HIDE DEF last
  <2>4. regnum'[cur] = regnum[last] /\ regnum'[last] = Spilled
    BY <1>1, <2>1, <2>3 DEF TypeOK
  <2>5. \A v \in 1..(cur - 1) : v # last => regnum'[v] = regnum[v] /\ slot'[v] = slot[v]
    BY <1>1, <1>2, <2>1, <2>3 DEF TypeOK
  <2> QED
    BY <2>1, <2>3, <2>4, <2>5
<1> QED
  BY <1>3, <1>4, <1>5, <1>6 DEF Next

\* LinearScan implements the abstract allocation, for every number of
\* registers and every table of intervals.
THEOREM ImplementsAllocation == Spec => KeepsPromise
<1>1. Init => Promise!Init
  BY DEF Init, Promise!Init
<1>2. HomesCompatible!1' => HomesCompatible!2'
  BY HomesCompatible, PTL
<1>3. IInv /\ IInv' /\ [Next]_vars => [Promise!Place]_(Promise!vars)
  <2> SUFFICES ASSUME IInv, IInv', [Next]_vars
               PROVE  Promise!Place \/ UNCHANGED <<iv, base, cur - 1, regnum, slot>>
    BY DEF Promise!vars
  <2>1. CASE UNCHANGED vars
    BY <2>1 DEF vars
  <2>2. CASE Next
    <3>1. CASE iv' = iv /\ base' = base /\ cur' = cur /\ regnum' = regnum /\ slot' = slot
      BY <3>1
    <3>2. CASE /\ iv' = iv /\ base' = base /\ cur' = cur + 1 /\ cur <= V
               /\ \A v \in 1..(cur - 1) :
                    \/ regnum'[v] = regnum[v] /\ slot'[v] = slot[v]
                    \/ regnum[v] # Spilled /\ regnum'[v] = Spilled /\ regnum'[cur] = regnum[v]
      <4>1. cur \in Nat /\ V \in Nat /\ Promise!InMemory = Spilled
        BY LinearScanAssumption DEF IInv, TypeOK, Promise!InMemory, Spilled
      <4>2. cur - 1 < V /\ cur' - 1 = (cur - 1) + 1 /\ (cur - 1) + 1 = cur
        BY <3>2, <4>1
      <4>3. Promise!Compatible(cur - 1)'
        BY <1>2
      <4> QED
        BY <3>2, <4>1, <4>2, <4>3 DEF Promise!Place
    <3> QED
      BY <2>2, <3>1, <3>2, PlacingStep
  <2> QED
    BY <2>1, <2>2
<1> QED
  BY <1>1, <1>3, Invariance, PTL DEF Spec, KeepsPromise, Promise!Spec
=============================================================================
