---------------------------- MODULE BuilderProofs ----------------------------
(***************************************************************************)
(* The blocks that CminusfBuilder makes are well formed, for every         *)
(* program: a terminator ends its block and no block stays open, the       *)
(* successor and predecessor lists are those of the terminators.           *)
(***************************************************************************)
EXTENDS Builder, FiniteSetTheorems, SequenceTheorems, TLAPS

(***************************************************************************)
(* The inductive invariant.                                                *)
(***************************************************************************)
Terminators == {"br", "condbr", "ret"}

\* A sequence, of whatever elements.
IsSequence(s) == s \in Seq(Range(s))

\* How often x occurs in a sequence.
Count(s, x) == Cardinality({i \in 1..Len(s) : s[i] = x})

\* All elements of a sequence are in 1..n.
Within(s, n) == \A i \in 1..Len(s) : s[i] \in 1..n

\* The function f with other blocks and other lists.
With(f, blocks, pre, succ) ==
  [name |-> f.name, type |-> f.type, params |-> f.params,
   blocks |-> blocks, pre |-> pre, succ |-> succ]

\* A function whose blocks are what BlocksWellFormed asks for at every moment.
Wf(f) ==
  /\ f = With(f, f.blocks, f.pre, f.succ)
  /\ IsSequence(f.blocks) /\ IsSequence(f.pre) /\ IsSequence(f.succ)
  /\ Len(f.pre) = Len(f.blocks) /\ Len(f.succ) = Len(f.blocks)
  /\ \A b \in 1..Len(f.blocks) :
       /\ IsSequence(f.blocks[b]) /\ IsSequence(f.pre[b]) /\ IsSequence(f.succ[b])
       /\ \A i \in 1..(Len(f.blocks[b]) - 1) : f.blocks[b][i].op \notin Terminators
       /\ f.succ[b] = Targets(f, b)
       /\ Within(f.pre[b], Len(f.blocks)) /\ Within(f.succ[b], Len(f.blocks))
       /\ \A p \in 1..Len(f.blocks) : Count(f.pre[b], p) = Count(f.succ[p], b)

\* The blocks without a terminator.
Open(f) == {b \in 1..Len(f.blocks) : ~Terminated(f, b)}

-----------------------------------------------------------------------------
(***************************************************************************)
(* The agenda.  Kinds of items: expressions, the steps that go on after    *)
(* an expression, statements, and the steps that go on after a statement   *)
(* and look whether it returned.                                           *)
(***************************************************************************)
ExprKinds == {"num", "var", "elem", "assign", "rel", "arith", "call"}
TermKinds == {"index", "assignto", "store", "right", "combine", "args", "arg"}
StmtKinds == {"expr", "empty", "block", "if", "ifelse", "while", "return", "retvoid"}
HeadKinds == {"ifbranch", "whilebranch", "ret"}
TestKinds == {"listnext", "exit", "iftrue", "iffalse", "whileend", "funend"}

\* Items within a function that has n blocks.
IsItem(x, n) ==
  /\ x[1] \in ExprKinds \cup TermKinds \cup StmtKinds \cup HeadKinds \cup TestKinds
              \cup {"vardecl", "list"}
  /\ x[1] \in ExprKinds => x \in Expressions
  /\ x[1] \in StmtKinds => x \in Statements
  /\ x[1] = "assignto" => x[2] \in Expressions
  /\ x[1] = "right" => x[4] \in Expressions
  /\ x[1] \in {"args", "arg"} => x[3] \in Seq(Expressions)
  /\ x[1] \in {"list", "listnext"} => x[2] \in Seq(Statements)
  /\ x[1] = "ifbranch" => x[2] \in Seq(Statements) /\ Len(x[2]) \in {1, 2}
  /\ x[1] = "iftrue" => x[2] \in Seq(Statements) /\ Len(x[2]) \in {0, 1} /\ x[3] \in 1..n
  /\ x[1] = "whilebranch" => x[2] \in Statements /\ x[3] \in 1..n
  /\ x[1] = "whileend" => x[2] \in 1..n
  /\ x[1] = "exit" => x = <<"exit">>

\* The item y may follow the item x.
Follows(x, y) ==
  /\ x[1] \in ExprKinds \cup TermKinds => y[1] \in TermKinds \cup HeadKinds \cup TestKinds
  /\ x[1] = "vardecl" => y[1] \in {"vardecl", "list"}
  /\ x[1] \notin ExprKinds \cup TermKinds \cup {"vardecl"} => y[1] \in TestKinds

\* The blocks that an item will go on with, which nothing is appended to
\* before.
Pending(x) ==
  CASE x[1] = "iftrue"   -> x[3]..(x[3] + Len(x[2]))
    [] x[1] = "iffalse"  -> {x[2]}
    [] x[1] = "whileend" -> {x[3]}
    [] OTHER             -> {}

\* The first k items of the agenda t belong to the function that is being
\* built, which has n blocks; declarations follow.
Agenda(t, k, n) ==
  /\ IsSequence(t)
  /\ k \in 0..Len(t)
  /\ k # 0 => t[k] = <<"funend">>
  /\ \A i \in 1..(k - 1) :
       IsItem(t[i], n) /\ t[i][1] # "funend" /\ Follows(t[i], t[i + 1])
  /\ \A i \in (k + 1)..Len(t) : t[i] \in Declarations

\* The blocks U of a function that are open are the insert block ins, unless
\* it has just been terminated, and those that items on the agenda t wait for,
\* each for its own.
Waiting(t, U, ins) ==
  /\ \A i \in 1..Len(t) : Pending(t[i]) \subseteq U \ {ins}
  /\ \A i, j \in 1..Len(t) : i # j => Pending(t[i]) \cap Pending(t[j]) = {}
  /\ \A b \in U \ {ins} : \E i \in 1..Len(t) : b \in Pending(t[i])

\* No function is being built: the last one has no open block.
Between ==
  /\ Agenda(todo, 0, 0)
  /\ Len(scope) = 1
  /\ fun # << >> => Wf(fun) /\ Open(fun) = {}

\* A function is being built; while the insert block is terminated, the next
\* step is one that looks for that.
Inside(k) ==
  /\ k # 0
  /\ Wf(fun)
  /\ Agenda(todo, k, Len(fun.blocks))
  /\ Len(scope) = 2 + Count(todo, <<"exit">>)
  /\ insert \in 1..Len(fun.blocks)
  /\ insert \in Open(fun) \/ todo[1][1] \in TestKinds
  /\ Waiting(todo, Open(fun), insert)

\* The inductive invariant.
IInv ==
  /\ IsSequence(scope)
  /\ Between \/ \E k \in 1..Len(todo) : Inside(k)

\* The sequence e is h with its b-th element replaced by w.
Updated(e, h, b, w) ==
  /\ IsSequence(e) /\ Len(e) = Len(h)
  /\ e[b] = w
  /\ \A c \in 1..Len(h) : c # b => e[c] = h[c]

-----------------------------------------------------------------------------
(***************************************************************************)
(* Sequences.                                                              *)
(***************************************************************************)

\* A member of Seq(S) is a sequence.
LEMMA MemberIsSequence ==
  ASSUME NEW S, NEW s \in Seq(S)
  PROVE  IsSequence(s)
BY SeqOfRange DEF IsSequence

\* What is known of a sequence.
LEMMA SequenceFacts ==
  ASSUME NEW s, IsSequence(s)
  PROVE  /\ Len(s) \in Nat
         /\ DOMAIN s = 1..Len(s)
         /\ s = <<>> <=> Len(s) = 0
         /\ s = [i \in 1..Len(s) |-> s[i]]
<1> DEFINE R == Range(s)
<1>1. s \in Seq(R)
  BY DEF IsSequence
<1> HIDE DEF R
<1>2. Len(s) \in Nat /\ DOMAIN s = 1..Len(s) /\ s \in [1..Len(s) -> R]
  BY <1>1, LenProperties
<1>3. s = <<>> <=> Len(s) = 0
  BY <1>1, EmptySeq
<1> QED
  BY <1>2, <1>3

\* A function on 1..n is a sequence of length n.
LEMMA FunctionIsSequence ==
  ASSUME NEW n \in Nat, NEW f, f = [i \in 1..n |-> f[i]]
  PROVE  IsSequence(f) /\ Len(f) = n
<1> DEFINE R == {f[i] : i \in 1..n}
<1>1. f \in [1..n -> R]
  OBVIOUS
<1>2. f \in Seq(R) /\ Len(f) = n
  <2> HIDE DEF R
  <2>1. f \in Seq(R)
    BY <1>1, SeqDef
  <2>2. Len(f) \in Nat /\ DOMAIN f = 1..Len(f) /\ DOMAIN f = 1..n
    BY <1>1, <2>1, LenProperties
  <2> QED
    BY <2>1, <2>2
<1> QED
  BY <1>2, MemberIsSequence

\* Concatenation.
LEMMA ConcatSequence ==
  ASSUME NEW s, NEW t, IsSequence(s), IsSequence(t)
  PROVE  /\ IsSequence(s \o t)
         /\ Len(s \o t) = Len(s) + Len(t)
         /\ \A i \in 1..Len(s) : (s \o t)[i] = s[i]
         /\ \A i \in 1..Len(t) : (s \o t)[Len(s) + i] = t[i]
<1> DEFINE R == Range(s) \cup Range(t)
<1>1. s \in Seq(R) /\ t \in Seq(R)
  <2>1. Range(s) \subseteq R /\ Range(t) \subseteq R
    OBVIOUS
  <2> QED
    BY <2>1, SeqMonotonic DEF IsSequence
<1> HIDE DEF R
<1>2. Len(s) \in Nat /\ Len(t) \in Nat
  BY SequenceFacts
<1>3. /\ s \o t \in Seq(R)
      /\ Len(s \o t) = Len(s) + Len(t)
      /\ \A i \in 1..(Len(s) + Len(t)) :
           (s \o t)[i] = IF i <= Len(s) THEN s[i] ELSE t[i - Len(s)]
  BY <1>1, ConcatProperties
<1>4. \A i \in 1..Len(s) : (s \o t)[i] = s[i]
  BY <1>2, <1>3
<1>5. \A i \in 1..Len(t) : (s \o t)[Len(s) + i] = t[i]
  <2> TAKE i \in 1..Len(t)
  <2>1. /\ Len(s) + i \in 1..(Len(s) + Len(t))
        /\ ~(Len(s) + i <= Len(s))
        /\ (Len(s) + i) - Len(s) = i
    BY <1>2
  <2> QED
    BY <1>3, <2>1
<1> QED
  BY <1>3, <1>4, <1>5, MemberIsSequence

\* Sequences of up to two elements.
LEMMA ShortSequences ==
  ASSUME NEW x, NEW y
  PROVE  /\ IsSequence(<<>>) /\ Len(<<>>) = 0
         /\ IsSequence(<<x>>) /\ Len(<<x>>) = 1 /\ <<x>>[1] = x
         /\ IsSequence(<<x, y>>) /\ Len(<<x, y>>) = 2
         /\ <<x, y>>[1] = x /\ <<x, y>>[2] = y
<1>1. <<>> \in Seq({x}) /\ <<x>> \in Seq({x}) /\ <<x, y>> \in Seq({x, y})
  OBVIOUS
<1>2. IsSequence(<<>>) /\ IsSequence(<<x>>) /\ IsSequence(<<x, y>>)
  BY <1>1, MemberIsSequence
<1> QED
  BY <1>2

\* The rest of a sequence after its head.
LEMMA TailSequence ==
  ASSUME NEW s, IsSequence(s), s # <<>>
  PROVE  /\ IsSequence(Tail(s))
         /\ Len(Tail(s)) = Len(s) - 1
         /\ \A i \in 1..Len(Tail(s)) : Tail(s)[i] = s[i + 1]
         /\ Head(s) = s[1]
         /\ Len(s) \in Nat \ {0}
<1> DEFINE R == Range(s)
<1>1. s \in Seq(R)
  BY DEF IsSequence
<1> HIDE DEF R
<1>2. /\ Tail(s) \in Seq(R)
      /\ Len(Tail(s)) = Len(s) - 1
      /\ \A i \in 1..Len(Tail(s)) : Tail(s)[i] = s[i + 1]
  BY <1>1, HeadTailProperties
<1>3. Head(s) = s[1]
  OBVIOUS
<1> QED
  BY <1>2, <1>3, MemberIsSequence, SequenceFacts

\* A sequence with one element replaced.
LEMMA ExceptSequence ==
  ASSUME NEW s, IsSequence(s), NEW i \in 1..Len(s), NEW e
  PROVE  Updated([s EXCEPT ![i] = e], s, i, e)
<1> DEFINE t == [s EXCEPT ![i] = e]
<1>1. Len(s) \in Nat /\ s = [j \in 1..Len(s) |-> s[j]]
  BY SequenceFacts
<1>2. t = [j \in 1..Len(s) |-> IF j = i THEN e ELSE s[j]]
  BY <1>1
<1>3. t = [j \in 1..Len(s) |-> t[j]]
  BY <1>2
<1>4. IsSequence(t) /\ Len(t) = Len(s)
  <2> HIDE DEF t
  <2> QED
    BY <1>1, <1>3, FunctionIsSequence
<1>5. t[i] = e /\ \A j \in 1..Len(s) : j # i => t[j] = s[j]
  BY <1>2
<1> QED
  BY <1>4, <1>5 DEF Updated

\* The occurrences in a sequence are finitely many.
LEMMA CountType ==
  ASSUME NEW s, IsSequence(s), NEW x
  PROVE  /\ IsFiniteSet({i \in 1..Len(s) : s[i] = x})
         /\ Count(s, x) \in Nat
         /\ (\A i \in 1..Len(s) : s[i] # x) => Count(s, x) = 0
<1>1. Len(s) \in Nat
  BY SequenceFacts
<1>2. IsFiniteSet(1..Len(s))
  BY <1>1, FS_Interval
<1>3. IsFiniteSet({i \in 1..Len(s) : s[i] = x})
  <2>1. {i \in 1..Len(s) : s[i] = x} \in SUBSET (1..Len(s))
    OBVIOUS
  <2> QED
    BY <1>2, <2>1, FS_Subset
<1>4. Count(s, x) \in Nat
  BY <1>3, FS_CardinalityType DEF Count
<1>5. ASSUME \A i \in 1..Len(s) : s[i] # x
      PROVE  Count(s, x) = 0
  <2>1. {i \in 1..Len(s) : s[i] = x} = {}
    BY <1>5
  <2> QED
    BY <2>1, FS_EmptySet DEF Count
<1> QED
  BY <1>3, <1>4, <1>5

\* Within, by occurrences.
LEMMA WithinCount ==
  ASSUME NEW s, IsSequence(s), NEW n
  PROVE  Within(s, n) <=> \A x : x \notin 1..n => Count(s, x) = 0
<1>1. ASSUME Within(s, n), NEW x, x \notin 1..n
      PROVE  Count(s, x) = 0
  <2>1. \A i \in 1..Len(s) : s[i] # x
    BY <1>1 DEF Within
  <2> QED
    BY <2>1, CountType
<1>2. ASSUME \A x : x \notin 1..n => Count(s, x) = 0, NEW i \in 1..Len(s)
      PROVE  s[i] \in 1..n
  <2> SUFFICES ASSUME s[i] \notin 1..n PROVE FALSE
    OBVIOUS
  <2> DEFINE A == {j \in 1..Len(s) : s[j] = s[i]}
  <2>1. IsFiniteSet(A)
    BY CountType
  <2>2. Cardinality(A) = 0
    BY <1>2 DEF Count
  <2>3. i \in A
    OBVIOUS
  <2> HIDE DEF A
  <2> QED
    BY <2>1, <2>2, <2>3, FS_EmptySet
<1> QED
  BY <1>1, <1>2 DEF Within

\* The occurrences in a concatenation.
LEMMA CountConcat ==
  ASSUME NEW s, NEW t, IsSequence(s), IsSequence(t), NEW x
  PROVE  Count(s \o t, x) = Count(s, x) + Count(t, x)
<1> DEFINE m == Len(s)
           n == Len(t)
           A == {i \in 1..m : s[i] = x}
           B == {i \in 1..n : t[i] = x}
           C == {i \in (m + 1)..(m + n) : t[i - m] = x}
           f == [i \in B |-> m + i]
<1>1. m \in Nat /\ n \in Nat
  BY SequenceFacts
<1>2. IsFiniteSet(A) /\ IsFiniteSet(B)
  BY CountType
<1>3. ExistsBijection(B, C)
  <2> HIDE DEF m, n
  <2>1. \A i \in B : m + i \in C
    BY <1>1
  <2>2. f \in [B -> C]
    <3> HIDE DEF B, C
    <3> QED
      BY <2>1
  <2>3. \A i, j \in B : f[i] = f[j] => i = j
    BY <1>1
  <2>4. \A c \in C : c - m \in B /\ f[c - m] = c
    BY <1>1
  <2>5. f \in Bijection(B, C)
    <3> HIDE DEF f, B, C
    <3>1. DOMAIN f = B
      BY <2>2
    <3>2. f \in Injection(B, C)
      BY <2>2, <2>3, <3>1 DEF Injection, IsInjective
    <3>3. f \in Surjection(B, C)
      BY <2>2, <2>4 DEF Surjection
    <3> QED
      BY <3>2, <3>3 DEF Bijection
  <2> HIDE DEF f, B, C
  <2> QED
    BY <2>5 DEF ExistsBijection
<1>4. IsFiniteSet(C) /\ Cardinality(C) = Cardinality(B)
  <2> HIDE DEF B, C
  <2> QED
    BY <1>2, <1>3, FS_Bijection
<1>5. A \cap C = {}
  <2> HIDE DEF m, n
  <2> QED
    BY <1>1
<1>6. {i \in 1..Len(s \o t) : (s \o t)[i] = x} = A \cup C
  <2>1. /\ Len(s \o t) = m + n
        /\ \A i \in 1..m : (s \o t)[i] = s[i]
        /\ \A i \in 1..n : (s \o t)[m + i] = t[i]
    BY ConcatSequence
  <2> DEFINE u == s \o t
  <2>2. \A i \in (m + 1)..(m + n) : u[i] = t[i - m]
    <3> TAKE i \in (m + 1)..(m + n)
    <3>1. i - m \in 1..n /\ m + (i - m) = i
      <4> HIDE DEF m, n
      <4> QED
        BY <1>1
    <3> QED
      BY <2>1, <3>1
  <2>3. 1..(m + n) = (1..m) \cup ((m + 1)..(m + n))
    <3> HIDE DEF m, n
    <3> QED
      BY <1>1
  <2>4. \A i \in 1..m : u[i] = s[i]
    BY <2>1
  <2>5. Len(u) = m + n
    BY <2>1
  <2> HIDE DEF u
  <2>6. {i \in 1..Len(u) : u[i] = x} = A \cup C
    <3> HIDE DEF m, n
    <3> QED
      BY <2>2, <2>3, <2>4, <2>5
  <2> QED
    BY <2>6 DEF u
<1>7. Cardinality(A \cup C) = Cardinality(A) + Cardinality(C)
  <2> HIDE DEF A, C
  <2>1. Cardinality(A \cup C) = Cardinality(A) + Cardinality(C) - Cardinality(A \cap C)
    BY <1>2, <1>4, FS_Union
  <2>2. Cardinality(A \cap C) = 0
    BY <1>5, FS_EmptySet
  <2>3. Cardinality(A) \in Nat /\ Cardinality(C) \in Nat
    BY <1>2, <1>4, FS_CardinalityType
  <2> QED
    BY <2>1, <2>2, <2>3
<1>8. Count(s \o t, x) = Cardinality(A \cup C)
  BY <1>6 DEF Count
<1>9. Count(s, x) = Cardinality(A) /\ Count(t, x) = Cardinality(B)
  BY DEF Count
<1> QED
  BY <1>4, <1>7, <1>8, <1>9

\* The occurrences in short sequences and in a sequence with a head.
LEMMA CountOne ==
  ASSUME NEW x, NEW y
  PROVE  Count(<<y>>, x) = IF y = x THEN 1 ELSE 0
<1>1. IsSequence(<<y>>) /\ Len(<<y>>) = 1 /\ <<y>>[1] = y
  BY ShortSequences
<1>2. CASE y = x
  <2>1. {i \in 1..Len(<<y>>) : <<y>>[i] = x} = {1}
    BY <1>1, <1>2
  <2> QED
    BY <1>2, <2>1, FS_Singleton DEF Count
<1>3. CASE y # x
  <2>1. \A i \in 1..Len(<<y>>) : <<y>>[i] # x
    BY <1>1, <1>3
  <2> QED
    BY <1>1, <1>3, <2>1, CountType
<1> QED
  BY <1>2, <1>3

\* The occurrences in a sequence of two.
LEMMA CountTwo ==
  ASSUME NEW x, NEW y, NEW z
  PROVE  Count(<<y, z>>, x) = Count(<<y>>, x) + Count(<<z>>, x)
<1> DEFINE h == <<y>>
           u == <<z>>
           v == <<y, z>>
<1>1. /\ IsSequence(h) /\ Len(h) = 1 /\ h[1] = y
      /\ IsSequence(u) /\ Len(u) = 1 /\ u[1] = z
  BY ShortSequences
<1>2. v = h \o u
  <2>1. h \in Seq({y, z}) /\ u \in Seq({y, z}) /\ v \in Seq({y, z})
    OBVIOUS
  <2>2. Len(v) = 2 /\ v[1] = y /\ v[2] = z
    OBVIOUS
  <2> HIDE DEF h, u, v
  <2>3. h \o u \in Seq({y, z})
    BY <2>1, ConcatProperties
  <2>4. Len(h \o u) = 2 /\ (h \o u)[1] = y /\ (h \o u)[2] = z
    <3>1. Len(h \o u) = Len(h) + Len(u)
      BY <1>1, ConcatSequence
    <3>0. IsSequence(h) /\ IsSequence(u)
      BY <1>1
    <3>2. \A i \in 1..Len(h) : (h \o u)[i] = h[i]
      BY <3>0, ConcatSequence
    <3>3. \A i \in 1..Len(u) : (h \o u)[Len(h) + i] = u[i]
      BY <3>0, ConcatSequence
    <3>4. (h \o u)[Len(h) + 1] = u[1]
      BY <1>1, <3>3
    <3> QED
      BY <1>1, <3>1, <3>2, <3>4
  <2>5. \A i \in 1..2 : v[i] = (h \o u)[i]
    BY <2>2, <2>4
  <2> QED
    BY <2>1, <2>2, <2>3, <2>4, <2>5, SeqEqual
<1> HIDE DEF h, u, v
<1>3. Count(v, x) = Count(h, x) + Count(u, x)
  BY <1>1, <1>2, CountConcat
<1> QED
  BY <1>3 DEF h, u, v

\* The occurrences in the head and in the rest.
LEMMA CountHead ==
  ASSUME NEW s, IsSequence(s), s # <<>>, NEW x
  PROVE  Count(s, x) = (IF s[1] = x THEN 1 ELSE 0) + Count(Tail(s), x)
<1> DEFINE R == Range(s)
<1>1. s \in Seq(R) /\ s # <<>>
  BY DEF IsSequence
<1> HIDE DEF R
<1>2. s = <<s[1]>> \o Tail(s)
  <2>1. Tail(s) \in Seq(R) /\ s[1] \in R /\ Len(s) \in Nat \ {0}
    BY <1>1, HeadTailProperties, TailSequence
  <2>2. <<s[1]>> \in Seq(R)
    BY <2>1
  <2> DEFINE h == <<s[1]>>
             u == h \o Tail(s)
  <2>3. IsSequence(h) /\ IsSequence(Tail(s)) /\ Len(h) = 1 /\ h[1] = s[1]
    BY ShortSequences, TailSequence
  <2>4. /\ u \in Seq(R)
        /\ Len(u) = 1 + Len(Tail(s))
        /\ \A i \in 1..1 : u[i] = h[i]
        /\ \A i \in 1..Len(Tail(s)) : u[1 + i] = Tail(s)[i]
    <3>1. u \in Seq(R)
      BY <2>1, <2>2, ConcatProperties
    <3>2. /\ Len(h \o Tail(s)) = Len(h) + Len(Tail(s))
          /\ \A i \in 1..Len(h) : (h \o Tail(s))[i] = h[i]
          /\ \A i \in 1..Len(Tail(s)) : (h \o Tail(s))[Len(h) + i] = Tail(s)[i]
      <4> HIDE DEF h
      <4>1. Len(h \o Tail(s)) = Len(h) + Len(Tail(s))
        BY <2>3, ConcatSequence
      <4>0. IsSequence(h) /\ IsSequence(Tail(s))
        BY <2>3
      <4>2. \A i \in 1..Len(h) : (h \o Tail(s))[i] = h[i]
        BY <4>0, ConcatSequence
      <4>3. \A i \in 1..Len(Tail(s)) : (h \o Tail(s))[Len(h) + i] = Tail(s)[i]
        BY <4>0, ConcatSequence
      <4> QED
        BY <4>1, <4>2, <4>3
    <3>3. Len(h) = 1
      BY <2>3
    <3> HIDE DEF h
    <3> QED
      BY <3>1, <3>2, <3>3
  <2>5. Len(Tail(s)) = Len(s) - 1 /\ \A i \in 1..Len(Tail(s)) : Tail(s)[i] = s[i + 1]
    BY TailSequence
  <2> HIDE DEF h
  <2> HIDE DEF u
  <2>6. Len(u) = Len(s) /\ u[1] = s[1]
    BY <2>1, <2>3, <2>4, <2>5
  <2>7. \A i \in 2..Len(s) : u[i] = s[i]
    <3> TAKE i \in 2..Len(s)
    <3>1. i - 1 \in 1..Len(Tail(s)) /\ 1 + (i - 1) = i /\ (i - 1) + 1 = i
      BY <2>1, <2>5
    <3>2. u[1 + (i - 1)] = Tail(s)[i - 1] /\ Tail(s)[i - 1] = s[(i - 1) + 1]
      BY <2>4, <2>5, <3>1
    <3> QED
      BY <3>1, <3>2
  <2>8. \A i \in 1..Len(u) : u[i] = s[i]
    BY <2>1, <2>6, <2>7
  <2>9. u = s
    BY <1>1, <2>4, <2>6, <2>8, SeqEqual
  <2> QED
    BY <2>9 DEF u, h
<1>3. IsSequence(<<s[1]>>) /\ IsSequence(Tail(s))
  BY ShortSequences, TailSequence
<1> DEFINE h == <<s[1]>>
           u == Tail(s)
<1>4. Count(h, x) = IF s[1] = x THEN 1 ELSE 0
  BY CountOne
<1>5. Count(h \o u, x) = Count(h, x) + Count(u, x)
  <2> HIDE DEF h, u
  <2>1. IsSequence(h) /\ IsSequence(u)
    BY <1>3 DEF h, u
  <2> QED
    BY <2>1, CountConcat
<1>6. s = h \o u
  BY <1>2
<1> HIDE DEF h
<1> QED
  BY <1>4, <1>5, <1>6

-----------------------------------------------------------------------------
(***************************************************************************)
(* The operations on a function.                                           *)
(***************************************************************************)

\* A block that is open holds no terminator.
LEMMA OpenBlock ==
  ASSUME NEW f, Wf(f), NEW b \in 1..Len(f.blocks), ~Terminated(f, b)
  PROVE  /\ \A i \in 1..Len(f.blocks[b]) : f.blocks[b][i].op \notin Terminators
         /\ f.succ[b] = <<>>
<1> DEFINE v == f.blocks[b]
<1>1. /\ IsSequence(v) /\ f.succ[b] = Targets(f, b)
      /\ \A i \in 1..(Len(v) - 1) : v[i].op \notin Terminators
  BY DEF Wf
<1>2. v = <<>> \/ v[Len(v)].op \notin Terminators
  BY DEF Terminated, Terminators
<1>3. Len(v) \in Nat /\ (v = <<>> <=> Len(v) = 0)
  <2> HIDE DEF v
  <2> QED
    BY <1>1, SequenceFacts
<1>4. \A i \in 1..Len(v) : v[i].op \notin Terminators
  <2> HIDE DEF v
  <2> TAKE i \in 1..Len(v)
  <2>1. i = Len(v) \/ i \in 1..(Len(v) - 1)
    BY <1>3
  <2> QED
    BY <1>1, <1>2, <1>3, <2>1
<1>5. Targets(f, b) = <<>>
  BY <1>2 DEF Targets, Terminators
<1> QED
  BY <1>1, <1>4, <1>5

\* What follows what in a block that has been appended to.
LEMMA Appended ==
  ASSUME NEW v, IsSequence(v), NEW is, IsSequence(is), is # <<>>,
         \A i \in 1..Len(v) : v[i].op \notin Terminators,
         \A i \in 1..(Len(is) - 1) : is[i].op \notin Terminators
  PROVE  /\ IsSequence(v \o is)
         /\ v \o is # <<>>
         /\ (v \o is)[Len(v \o is)] = is[Len(is)]
         /\ \A i \in 1..(Len(v \o is) - 1) : (v \o is)[i].op \notin Terminators
<1> DEFINE w == v \o is
           m == Len(v)
           n == Len(is)
<1>1. IsSequence(w) /\ Len(w) = m + n
  BY ConcatSequence
<1>2. \A i \in 1..m : w[i] = v[i]
  BY ConcatSequence
<1>3. \A i \in 1..n : w[m + i] = is[i]
  BY ConcatSequence
<1>4. m \in Nat /\ n \in Nat /\ (is = <<>> <=> n = 0) /\ (w = <<>> <=> Len(w) = 0)
  <2>1. m \in Nat
    BY SequenceFacts
  <2>2. n \in Nat /\ (is = <<>> <=> n = 0)
    BY SequenceFacts
  <2>3. w = <<>> <=> Len(w) = 0
    <3> HIDE DEF w
    <3> QED
      BY <1>1, SequenceFacts
  <2> QED
    BY <2>1, <2>2, <2>3
<1> HIDE DEF w
<1>5. n \in 1..n /\ n # 0
  <2> HIDE DEF m, n
  <2> QED
    BY <1>4
<1>6. \A i \in 1..m : v[i].op \notin Terminators
  OBVIOUS
<1>7. \A i \in 1..(n - 1) : is[i].op \notin Terminators
  OBVIOUS
<1> HIDE DEF m, n
<1>8. w # <<>> /\ w[Len(w)] = is[n]
  BY <1>1, <1>3, <1>4, <1>5
<1>9. ASSUME NEW i \in 1..(Len(w) - 1)
      PROVE  w[i].op \notin Terminators
  <2>1. CASE i <= m
    <3>1. i \in 1..m
      BY <1>1, <1>4, <2>1
    <3> QED
      BY <1>2, <1>6, <3>1
  <2>2. CASE ~(i <= m)
    <3>1. i - m \in 1..(n - 1) /\ i - m \in 1..n /\ m + (i - m) = i
      BY <1>1, <1>4, <2>2
    <3>2. w[m + (i - m)] = is[i - m]
      BY <1>3, <3>1
    <3>3. is[i - m].op \notin Terminators
      BY <1>7, <3>1
    <3> QED
      BY <3>1, <3>2, <3>3
  <2> QED
    BY <2>1, <2>2
<1> QED
  BY <1>1, <1>8, <1>9 DEF w, n

\* With, field by field.
LEMMA WithFields ==
  ASSUME NEW f, NEW blocks, NEW pre, NEW succ
  PROVE  LET g == With(f, blocks, pre, succ) IN
         /\ g.blocks = blocks /\ g.pre = pre /\ g.succ = succ
         /\ g.name = f.name /\ g.type = f.type /\ g.params = f.params
         /\ g = With(g, g.blocks, g.pre, g.succ)
BY DEF With

\* Put, field by field.
LEMMA PutFields ==
  ASSUME NEW f, Wf(f), NEW b \in 1..Len(f.blocks), NEW is
  PROVE  \E e : /\ Updated(e, f.blocks, b, f.blocks[b] \o is)
                /\ Put(f, b, is) = With(f, e, f.pre, f.succ)
<1> DEFINE h == f.blocks
           w == h[b] \o is
           e == [h EXCEPT ![b] = w]
<1>1. f = With(f, f.blocks, f.pre, f.succ)
  BY DEF Wf
<1>2. Put(f, b, is) = [f EXCEPT !.blocks = e]
  BY <1>1 DEF Put, With
<1>3. IsSequence(h) /\ b \in 1..Len(h)
  BY DEF Wf
<1>4. [f EXCEPT !.blocks = e] = With(f, e, f.pre, f.succ)
  <2> HIDE DEF e
  <2> QED
    BY <1>1 DEF With
<1>5. Updated(e, h, b, w)
  <2> HIDE DEF h, w
  <2> QED
    BY <1>3, ExceptSequence
<1> HIDE DEF e
<1> QED
  BY <1>2, <1>4, <1>5

\* Two functions with the same block b agree on its terminator.
LEMMA SameBlock ==
  ASSUME NEW f, NEW g, NEW b, NEW c, f.blocks[b] = g.blocks[c]
  PROVE  /\ Terminated(f, b) <=> Terminated(g, c)
         /\ Targets(f, b) = Targets(g, c)
BY DEF Terminated, Targets

\* Appending instructions, none of which branches and of which only the last
\* may return, to an open block.
LEMMA PutKeeps ==
  ASSUME NEW f, Wf(f), NEW b \in 1..Len(f.blocks), ~Terminated(f, b),
         NEW is, IsSequence(is),
         \A i \in 1..(Len(is) - 1) : is[i].op \notin Terminators,
         is # <<>> => is[Len(is)].op \notin {"br", "condbr"}
  PROVE  /\ Wf(Put(f, b, is))
         /\ Len(Put(f, b, is).blocks) = Len(f.blocks)
         /\ \A c \in 1..Len(f.blocks) :
              c # b => (Terminated(Put(f, b, is), c) <=> Terminated(f, c))
         /\ Terminated(Put(f, b, is), b) <=> is # <<>> /\ is[Len(is)].op = "ret"
<1> DEFINE v == f.blocks[b]
           w == v \o is
           g == Put(f, b, is)
           n == Len(f.blocks)
<1>1. PICK e : Updated(e, f.blocks, b, w) /\ g = With(f, e, f.pre, f.succ)
  BY PutFields
<1>0. /\ g.blocks = e /\ g.pre = f.pre /\ g.succ = f.succ
      /\ g = With(g, g.blocks, g.pre, g.succ)
  BY <1>1, WithFields
<1>2. /\ IsSequence(f.blocks) /\ IsSequence(f.pre) /\ IsSequence(f.succ)
      /\ Len(f.pre) = n /\ Len(f.succ) = n
      /\ \A c \in 1..n :
           /\ IsSequence(f.blocks[c]) /\ IsSequence(f.pre[c]) /\ IsSequence(f.succ[c])
           /\ \A i \in 1..(Len(f.blocks[c]) - 1) : f.blocks[c][i].op \notin Terminators
           /\ f.succ[c] = Targets(f, c)
           /\ Within(f.pre[c], n) /\ Within(f.succ[c], n)
           /\ \A p \in 1..n : Count(f.pre[c], p) = Count(f.succ[p], c)
  BY DEF Wf
<1>3. /\ \A i \in 1..Len(v) : v[i].op \notin Terminators
      /\ f.succ[b] = <<>>
  BY OpenBlock
<1>4. /\ IsSequence(g.blocks)
      /\ Len(g.blocks) = n
      /\ g.blocks[b] = w
      /\ \A c \in 1..n : c # b => g.blocks[c] = f.blocks[c]
  <2> HIDE DEF g, w
  <2> QED
    BY <1>0, <1>1 DEF Updated
<1>5. /\ IsSequence(w)
      /\ \A i \in 1..(Len(w) - 1) : w[i].op \notin Terminators
      /\ w # <<>> /\ w[Len(w)].op \in Terminators <=> is # <<>> /\ is[Len(is)].op = "ret"
      /\ w # <<>> => w[Len(w)].op \notin {"br", "condbr"}
  <2>0. IsSequence(v)
    BY <1>2
  <2>1. CASE is = <<>>
    <3>1. w = v
      <4>1. v \in Seq(Range(v))
        BY <2>0 DEF IsSequence
      <4> HIDE DEF v
      <4> QED
        BY <2>1, <4>1, ConcatEmptySeq
    <3>2. \A i \in 1..Len(v) : v[i].op \notin Terminators
      BY <1>3
    <3>3. Len(v) \in Nat /\ (v = <<>> <=> Len(v) = 0)
      <4> HIDE DEF v
      <4> QED
        BY <2>0, SequenceFacts
    <3> HIDE DEF v
    <3>4. /\ \A i \in 1..(Len(v) - 1) : v[i].op \notin Terminators
          /\ v # <<>> => v[Len(v)].op \notin Terminators
      BY <3>2, <3>3
    <3>5. v # <<>> => v[Len(v)].op \notin {"br", "condbr"}
      BY <3>4 DEF Terminators
    <3> HIDE DEF w
    <3> QED
      BY <2>0, <2>1, <3>1, <3>4, <3>5
  <2>2. CASE is # <<>>
    <3>1. \A i \in 1..Len(v) : v[i].op \notin Terminators
      BY <1>3
    <3> HIDE DEF v
    <3>2. /\ IsSequence(v \o is)
          /\ v \o is # <<>>
          /\ (v \o is)[Len(v \o is)] = is[Len(is)]
          /\ \A i \in 1..(Len(v \o is) - 1) : (v \o is)[i].op \notin Terminators
      BY <2>0, <2>2, <3>1, Appended
    <3> HIDE DEF w
    <3>3. /\ IsSequence(w) /\ w # <<>> /\ w[Len(w)] = is[Len(is)]
          /\ \A i \in 1..(Len(w) - 1) : w[i].op \notin Terminators
      BY <3>2 DEF w
    <3> QED
      BY <2>2, <3>3 DEF Terminators
  <2> QED
    BY <2>1, <2>2
<1> HIDE DEF g
<1>6. \A c \in 1..n : c # b =>
        /\ Terminated(g, c) <=> Terminated(f, c)
        /\ Targets(g, c) = Targets(f, c)
  BY <1>4, SameBlock
<1> HIDE DEF w
<1>7. Terminated(g, b) <=> is # <<>> /\ is[Len(is)].op = "ret"
  BY <1>4, <1>5 DEF Terminated, Terminators
<1>8. Targets(g, b) = <<>>
  BY <1>4, <1>5 DEF Targets
<1>9. ASSUME NEW c \in 1..n
      PROVE  /\ IsSequence(g.blocks[c])
             /\ \A i \in 1..(Len(g.blocks[c]) - 1) : g.blocks[c][i].op \notin Terminators
             /\ f.succ[c] = Targets(g, c)
  <2>1. CASE c = b
    BY <1>3, <1>4, <1>5, <1>8, <2>1
  <2>2. CASE c # b
    BY <1>2, <1>4, <1>6, <2>2
  <2> QED
    BY <2>1, <2>2
<1>10. Wf(g)
  <2>3. \A c \in 1..n :
           /\ IsSequence(g.blocks[c]) /\ IsSequence(g.pre[c]) /\ IsSequence(g.succ[c])
           /\ \A i \in 1..(Len(g.blocks[c]) - 1) : g.blocks[c][i].op \notin Terminators
           /\ g.succ[c] = Targets(g, c)
           /\ Within(g.pre[c], n) /\ Within(g.succ[c], n)
           /\ \A p \in 1..n : Count(g.pre[c], p) = Count(g.succ[p], c)
    BY <1>0, <1>2, <1>9
  <2>4. /\ IsSequence(g.blocks) /\ IsSequence(g.pre) /\ IsSequence(g.succ)
        /\ Len(g.pre) = Len(g.blocks) /\ Len(g.succ) = Len(g.blocks)
    BY <1>0, <1>2, <1>4
  <2> QED
    BY <1>0, <1>4, <2>3, <2>4 DEF Wf
<1> QED
  BY <1>4, <1>6, <1>7, <1>10 DEF g

\* In the lists of predecessors p, b occurs more often than in the lists pre:
\* in that of c as often as c in ts.
MoreOf(p, pre, ts, b) ==
  /\ IsSequence(p) /\ Len(p) = Len(pre)
  /\ \A c \in 1..Len(pre) :
       /\ IsSequence(p[c])
       /\ \A q : Count(p[c], q) =
                   Count(pre[c], q) + (IF q = b THEN Count(ts, c) ELSE 0)

\* Ending an open block with a branch to the blocks ts, and entering the block
\* in the predecessor lists of these.
LEMMA BranchKeeps ==
  ASSUME NEW f, Wf(f), NEW b \in 1..Len(f.blocks), ~Terminated(f, b),
         NEW r, NEW ts, IsSequence(ts), Within(ts, Len(f.blocks)),
         \/ r.op = "br" /\ ts = <<r.args[1]>>
         \/ r.op = "condbr" /\ ts = <<r.args[3], r.args[2]>>,
         NEW e, Updated(e, f.blocks, b, f.blocks[b] \o <<r>>),
         NEW s, Updated(s, f.succ, b, ts),
         NEW p, MoreOf(p, f.pre, ts, b)
  PROVE  /\ Wf(With(f, e, p, s))
         /\ Len(With(f, e, p, s).blocks) = Len(f.blocks)
         /\ \A c \in 1..Len(f.blocks) :
              Terminated(With(f, e, p, s), c) <=> c = b \/ Terminated(f, c)
<1> DEFINE v == f.blocks[b]
           is == <<r>>
           w == v \o is
           g == With(f, e, p, s)
           n == Len(f.blocks)
<1>0. /\ g.blocks = e /\ g.pre = p /\ g.succ = s
      /\ g = With(g, g.blocks, g.pre, g.succ)
  BY WithFields
<1>2. /\ IsSequence(f.blocks) /\ IsSequence(f.pre) /\ IsSequence(f.succ)
      /\ Len(f.pre) = n /\ Len(f.succ) = n
      /\ \A c \in 1..n :
           /\ IsSequence(f.blocks[c]) /\ IsSequence(f.pre[c]) /\ IsSequence(f.succ[c])
           /\ \A i \in 1..(Len(f.blocks[c]) - 1) : f.blocks[c][i].op \notin Terminators
           /\ f.succ[c] = Targets(f, c)
           /\ Within(f.pre[c], n) /\ Within(f.succ[c], n)
           /\ \A q \in 1..n : Count(f.pre[c], q) = Count(f.succ[q], c)
  BY DEF Wf
<1>15. /\ IsSequence(p) /\ Len(p) = n
       /\ \A c \in 1..n :
            /\ IsSequence(p[c])
            /\ \A q : Count(p[c], q) =
                        Count(f.pre[c], q) + (IF q = b THEN Count(ts, c) ELSE 0)
  BY <1>2 DEF MoreOf
<1>3. /\ \A i \in 1..Len(v) : v[i].op \notin Terminators
      /\ f.succ[b] = <<>>
  BY OpenBlock
<1>4. /\ IsSequence(g.blocks)
      /\ Len(g.blocks) = n
      /\ g.blocks[b] = w
      /\ \A c \in 1..n : c # b => g.blocks[c] = f.blocks[c]
  <2> HIDE DEF g
  <2> QED
    BY <1>0 DEF Updated
<1>5. /\ IsSequence(w)
      /\ \A i \in 1..(Len(w) - 1) : w[i].op \notin Terminators
      /\ w # <<>> /\ w[Len(w)] = r
  <2>1. /\ IsSequence(is) /\ is # <<>> /\ is[Len(is)] = r
        /\ \A i \in 1..(Len(is) - 1) : is[i].op \notin Terminators
    <3>1. IsSequence(is) /\ Len(is) = 1 /\ is[1] = r
      BY ShortSequences
    <3>2. is # <<>>
      OBVIOUS
    <3> HIDE DEF is
    <3> QED
      BY <3>1, <3>2
  <2>2. IsSequence(v) /\ \A i \in 1..Len(v) : v[i].op \notin Terminators
    BY <1>2, <1>3
  <2> HIDE DEF v, is
  <2>3. /\ IsSequence(v \o is)
        /\ v \o is # <<>>
        /\ (v \o is)[Len(v \o is)] = is[Len(is)]
        /\ \A i \in 1..(Len(v \o is) - 1) : (v \o is)[i].op \notin Terminators
    BY <2>1, <2>2, Appended
  <2> QED
    BY <2>1, <2>3
<1> HIDE DEF g
<1>6. \A c \in 1..n : c # b =>
        /\ Terminated(g, c) <=> Terminated(f, c)
        /\ Targets(g, c) = Targets(f, c)
  BY <1>4, SameBlock
<1> HIDE DEF w
<1>7. Terminated(g, b)
  BY <1>4, <1>5 DEF Terminated, Terminators
<1>8. Targets(g, b) = ts
  BY <1>4, <1>5 DEF Targets
<1>9. /\ IsSequence(s) /\ Len(s) = n /\ s[b] = ts
      /\ \A c \in 1..n : c # b => s[c] = f.succ[c]
  BY <1>2 DEF Updated
<1>10. ASSUME NEW c \in 1..n
       PROVE  /\ IsSequence(g.blocks[c]) /\ IsSequence(p[c]) /\ IsSequence(s[c])
              /\ \A i \in 1..(Len(g.blocks[c]) - 1) : g.blocks[c][i].op \notin Terminators
              /\ s[c] = Targets(g, c)
  <2>0. IsSequence(p[c])
    BY <1>15
  <2>1. CASE c = b
    BY <1>4, <1>5, <1>8, <1>9, <2>0, <2>1
  <2>2. CASE c # b
    BY <1>2, <1>4, <1>6, <1>9, <2>0, <2>2
  <2> QED
    BY <2>1, <2>2
<1>11. ASSUME NEW c \in 1..n, NEW q \in 1..n
       PROVE  Count(p[c], q) = Count(s[q], c)
  <2>1. Count(p[c], q) = Count(f.pre[c], q) + (IF q = b THEN Count(ts, c) ELSE 0)
    BY <1>15
  <2>2. Count(f.pre[c], q) = Count(f.succ[q], c) /\ Count(f.succ[q], c) \in Nat
    BY <1>2, CountType
  <2>3. CASE q = b
    <3>1. {i \in 1..Len(<<>>) : <<>>[i] = c} = {}
      OBVIOUS
    <3>4. Count(<<>>, c) = 0
      BY <3>1, FS_EmptySet DEF Count
    <3>2. Count(f.succ[q], c) = 0
      BY <1>3, <2>3, <3>4
    <3>3. Count(ts, c) \in Nat
      BY CountType
    <3> QED
      BY <1>9, <2>1, <2>2, <2>3, <3>2, <3>3
  <2>4. CASE q # b
    BY <1>9, <2>1, <2>2, <2>4
  <2> QED
    BY <2>3, <2>4
<1>14. ASSUME NEW c \in 1..n
       PROVE  Within(p[c], n) /\ Within(s[c], n)
  <2>1. ASSUME NEW x, x \notin 1..n
        PROVE  Count(p[c], x) = 0
    <3>1. Count(p[c], x) = Count(f.pre[c], x)
      <4>1. x # b
        BY <2>1
      <4>2. Count(f.pre[c], x) \in Nat
        BY <1>2, CountType
      <4>3. Count(p[c], x) = Count(f.pre[c], x) + (IF x = b THEN Count(ts, c) ELSE 0)
        BY <1>15
      <4> QED
        BY <4>1, <4>2, <4>3
    <3> QED
      BY <1>2, <2>1, <3>1, WithinCount
  <2>2. Within(p[c], n)
    BY <1>10, <2>1, WithinCount
  <2>3. Within(s[c], n)
    <3>1. CASE c = b
      BY <1>9, <3>1
    <3>2. CASE c # b
      BY <1>2, <1>9, <3>2
    <3> QED
      BY <3>1, <3>2
  <2> QED
    BY <2>2, <2>3
<1>12. Wf(g)
  <2>1. \A c \in 1..n :
           /\ IsSequence(g.blocks[c]) /\ IsSequence(g.pre[c]) /\ IsSequence(g.succ[c])
           /\ \A i \in 1..(Len(g.blocks[c]) - 1) : g.blocks[c][i].op \notin Terminators
           /\ g.succ[c] = Targets(g, c)
           /\ Within(g.pre[c], n) /\ Within(g.succ[c], n)
           /\ \A q \in 1..n : Count(g.pre[c], q) = Count(g.succ[q], c)
    BY <1>0, <1>10, <1>11, <1>14
  <2>2. /\ IsSequence(g.blocks) /\ IsSequence(g.pre) /\ IsSequence(g.succ)
        /\ Len(g.pre) = Len(g.blocks) /\ Len(g.succ) = Len(g.blocks)
    BY <1>0, <1>2, <1>4, <1>9, <1>15
  <2> QED
    BY <1>0, <1>4, <2>1, <2>2 DEF Wf
<1>13. \A c \in 1..n : Terminated(g, c) <=> c = b \/ Terminated(f, c)
  BY <1>6, <1>7
<1> QED
  BY <1>4, <1>12, <1>13 DEF g

\* In the lists of predecessors p, b occurs once more in the one of t than in
\* the lists pre.
OneMore(p, pre, t, b) ==
  /\ IsSequence(p) /\ Len(p) = Len(pre)
  /\ \A c \in 1..Len(pre) :
       /\ IsSequence(p[c])
       /\ \A q : Count(p[c], q) =
                   Count(pre[c], q) + (IF q = b /\ c = t THEN 1 ELSE 0)

\* Entering b in the list of predecessors of the block t.
LEMMA Entered ==
  ASSUME NEW pre, IsSequence(pre), NEW t \in 1..Len(pre), NEW b,
         \A c \in 1..Len(pre) : IsSequence(pre[c]),
         NEW p, Updated(p, pre, t, Append(pre[t], b))
  PROVE  OneMore(p, pre, t, b)
<1> DEFINE l == pre[t]
           m == l \o <<b>>
           o == <<b>>
<1>0. IsSequence(l) /\ IsSequence(o)
  BY ShortSequences
<1>1. Append(l, b) = m
  <2> DEFINE R == Range(l) \cup {b}
  <2>1. l \in Seq(R) /\ b \in R
    <3>1. Range(l) \subseteq R
      OBVIOUS
    <3> QED
      BY <1>0, <3>1, SeqMonotonic DEF IsSequence
  <2> HIDE DEF l, R
  <2> QED
    BY <2>1, AppendIsConcat
<1>2. Updated(p, pre, t, m)
  BY <1>1
<1>3. IsSequence(m) /\ \A q : Count(m, q) = Count(l, q) + (IF q = b THEN 1 ELSE 0)
  <2> HIDE DEF l
  <2>1. \A q : Count(o, q) = IF b = q THEN 1 ELSE 0
    BY CountOne
  <2> HIDE DEF o
  <2>2. IsSequence(l \o o)
    BY <1>0, ConcatSequence
  <2>3. \A q : Count(l \o o, q) = Count(l, q) + Count(o, q)
    BY <1>0, CountConcat
  <2>4. \A q : Count(l \o o, q) = Count(l, q) + (IF q = b THEN 1 ELSE 0)
    BY <2>1, <2>3
  <2> QED
    BY <2>2, <2>4 DEF o
<1> HIDE DEF m
<1>4. IsSequence(p) /\ Len(p) = Len(pre)
  BY <1>2 DEF Updated
<1>5. ASSUME NEW c \in 1..Len(pre)
      PROVE  /\ IsSequence(p[c])
             /\ \A q : Count(p[c], q) =
                         Count(pre[c], q) + (IF q = b /\ c = t THEN 1 ELSE 0)
  <2>1. CASE c = t
    <3>1. p[c] = m
      BY <1>2, <2>1 DEF Updated
    <3> QED
      BY <1>3, <2>1, <3>1
  <2>2. CASE c # t
    <3>1. p[c] = pre[c] /\ IsSequence(pre[c])
      BY <1>2, <2>2 DEF Updated
    <3>2. \A q : Count(pre[c], q) \in Nat
      BY <3>1, CountType
    <3> QED
      BY <2>2, <3>1, <3>2
  <2> QED
    BY <2>1, <2>2
<1> QED
  BY <1>4, <1>5 DEF OneMore

\* Br ends an open block.
LEMMA BrKeeps ==
  ASSUME NEW f, Wf(f), NEW b \in 1..Len(f.blocks), ~Terminated(f, b),
         NEW t \in 1..Len(f.blocks)
  PROVE  /\ Wf(Br(f, b, t))
         /\ Len(Br(f, b, t).blocks) = Len(f.blocks)
         /\ \A c \in 1..Len(f.blocks) :
              Terminated(Br(f, b, t), c) <=> c = b \/ Terminated(f, c)
<1> DEFINE r  == Instr("br", 0, <<t>>)
           n  == Len(f.blocks)
           ts == <<t>>
           p  == [f.pre EXCEPT ![t] = Append(f.pre[t], b)]
           s  == [f.succ EXCEPT ![b] = ts]
<1>1. PICK e : /\ Updated(e, f.blocks, b, f.blocks[b] \o <<r>>)
               /\ Put(f, b, <<r>>) = With(f, e, f.pre, f.succ)
  <2> HIDE DEF r
  <2> QED
    BY PutFields
<1>2. /\ IsSequence(f.pre) /\ IsSequence(f.succ) /\ Len(f.pre) = n /\ Len(f.succ) = n
      /\ \A c \in 1..n : IsSequence(f.pre[c])
  BY DEF Wf
<1>3. f.succ[b] = <<>> /\ Append(<<>>, t) = ts
  <2>1. Append(<<>>, t) = ts
    OBVIOUS
  <2> QED
    BY <2>1, OpenBlock
<1>4. Br(f, b, t) = With(f, e, p, s)
  <2> DEFINE w == With(f, e, f.pre, f.succ)
  <2>1. Br(f, b, t) = [w EXCEPT !.pre[t] = Append(@, b), !.succ[b] = Append(@, t)]
    BY <1>1 DEF Br
  <2>2. w.pre[t] = f.pre[t] /\ w.succ[b] = f.succ[b]
    BY WithFields
  <2>3. [w EXCEPT !.pre[t] = Append(@, b), !.succ[b] = Append(@, t)] =
        [[w EXCEPT !.pre[t] = Append(w.pre[t], b)] EXCEPT !.succ[b] = Append(w.succ[b], t)]
    <3> HIDE DEF w
    <3> QED
      OBVIOUS
  <2>4. [w EXCEPT !.pre[t] = Append(f.pre[t], b)] = With(f, e, p, f.succ)
    <3> DEFINE x == Append(f.pre[t], b)
    <3> HIDE DEF x
    <3>1. [w EXCEPT !.pre[t] = x] = With(f, e, [f.pre EXCEPT ![t] = x], f.succ)
      BY DEF With
    <3> QED
      BY <3>1 DEF x
  <2>5. [With(f, e, p, f.succ) EXCEPT !.succ[b] = ts] = With(f, e, p, s)
    <3> HIDE DEF p, ts
    <3> QED
      BY DEF With
  <2>6. Append(w.succ[b], t) = ts
    BY <1>3, <2>2
  <2> HIDE DEF w, p, s, ts
  <2> QED
    BY <2>1, <2>2, <2>3, <2>4, <2>5, <2>6
<1>5. Updated(s, f.succ, b, ts)
  <2> HIDE DEF ts
  <2> QED
    BY <1>2, ExceptSequence
<1>6. /\ IsSequence(p) /\ Len(p) = Len(f.pre)
      /\ \A c \in 1..Len(f.pre) :
           /\ IsSequence(p[c])
           /\ \A q : Count(p[c], q) =
                       Count(f.pre[c], q) + (IF q = b /\ c = t THEN 1 ELSE 0)
  <2> DEFINE pre == f.pre
             l   == Append(f.pre[t], b)
  <2>1. IsSequence(pre) /\ t \in 1..Len(pre) /\ \A c \in 1..Len(pre) : IsSequence(pre[c])
    BY <1>2
  <2>2. Updated(p, pre, t, l)
    <3> HIDE DEF pre, l
    <3>1. Updated([pre EXCEPT ![t] = l], pre, t, l)
      BY <2>1, ExceptSequence
    <3> QED
      BY <3>1 DEF pre, l
  <2>3. Updated(p, pre, t, Append(pre[t], b))
    BY <2>2
  <2> HIDE DEF pre, p
  <2>4. OneMore(p, pre, t, b)
    BY <2>1, <2>3, Entered
  <2> QED
    BY <2>4 DEF pre, OneMore
<1>7. \A c : Count(ts, c) = IF t = c THEN 1 ELSE 0
  BY CountOne
<1>8. IsSequence(ts) /\ Within(ts, n)
  <2>1. IsSequence(ts)
    BY ShortSequences
  <2>2. Within(ts, n)
    BY DEF Within
  <2> QED
    BY <2>1, <2>2
<1>9. r.op = "br" /\ r.args = <<t>> /\ ts = <<r.args[1]>>
  BY DEF Instr
<1> HIDE DEF p, s, ts, r
<1>10. \A c \in 1..n :
         /\ IsSequence(p[c])
         /\ \A q :
              Count(p[c], q) = Count(f.pre[c], q) + (IF q = b THEN Count(ts, c) ELSE 0)
  <2> TAKE c \in 1..n
  <2>1. c \in 1..Len(f.pre)
    BY <1>2
  <2>2. IsSequence(p[c])
    BY <1>6, <2>1
  <2>3. ASSUME NEW q
        PROVE  Count(p[c], q) = Count(f.pre[c], q) + (IF q = b THEN Count(ts, c) ELSE 0)
    <3>1. Count(p[c], q) = Count(f.pre[c], q) + (IF q = b /\ c = t THEN 1 ELSE 0)
      BY <1>6, <2>1
    <3> QED
      BY <1>7, <3>1
  <2> QED
    BY <2>2, <2>3
<1>13. MoreOf(p, f.pre, ts, b)
  BY <1>2, <1>6, <1>10 DEF MoreOf
<1>11. /\ Wf(With(f, e, p, s))
       /\ Len(With(f, e, p, s).blocks) = Len(f.blocks)
       /\ \A c \in 1..Len(f.blocks) :
            Terminated(With(f, e, p, s), c) <=> c = b \/ Terminated(f, c)
  <2>1. \/ r.op = "br" /\ ts = <<r.args[1]>>
        \/ r.op = "condbr" /\ ts = <<r.args[3], r.args[2]>>
    BY <1>9
  <2> QED
    BY <1>1, <1>5, <1>8, <1>13, <2>1, BranchKeeps
<1> QED
  BY <1>4, <1>11

\* CondBr ends an open block.
LEMMA CondBrKeeps ==
  ASSUME NEW f, Wf(f), NEW b \in 1..Len(f.blocks), ~Terminated(f, b), NEW v,
         NEW t \in 1..Len(f.blocks), NEW u \in 1..Len(f.blocks), t # u
  PROVE  /\ Wf(CondBr(f, b, v, t, u))
         /\ Len(CondBr(f, b, v, t, u).blocks) = Len(f.blocks)
         /\ \A c \in 1..Len(f.blocks) :
              Terminated(CondBr(f, b, v, t, u), c) <=> c = b \/ Terminated(f, c)
<1> DEFINE r  == Instr("condbr", 0, <<v, t, u>>)
           n  == Len(f.blocks)
           ts == <<u, t>>
           p1 == [f.pre EXCEPT ![t] = Append(f.pre[t], b)]
           p  == [p1 EXCEPT ![u] = Append(f.pre[u], b)]
           s  == [f.succ EXCEPT ![b] = ts]
<1>1. PICK e : /\ Updated(e, f.blocks, b, f.blocks[b] \o <<r>>)
               /\ Put(f, b, <<r>>) = With(f, e, f.pre, f.succ)
  <2> HIDE DEF r
  <2> QED
    BY PutFields
<1>2. /\ IsSequence(f.pre) /\ IsSequence(f.succ) /\ Len(f.pre) = n /\ Len(f.succ) = n
      /\ \A c \in 1..n : IsSequence(f.pre[c])
  BY DEF Wf
<1>3. f.succ[b] = <<>> /\ <<>> \o <<u, t>> = ts
  <2>1. ts \in Seq({u, t})
    OBVIOUS
  <2>2. <<>> \o ts = ts
    <3> HIDE DEF ts
    <3> QED
      BY <2>1, ConcatEmptySeq
  <2> QED
    BY <2>2, OpenBlock
<1>4. CondBr(f, b, v, t, u) = With(f, e, p, s)
  <2> DEFINE w == With(f, e, f.pre, f.succ)
  <2>1. CondBr(f, b, v, t, u) =
          [w EXCEPT !.pre[t] = Append(@, b), !.pre[u] = Append(@, b),
                    !.succ[b] = @ \o <<u, t>>]
    BY <1>1 DEF CondBr
  <2>2. w.pre[t] = f.pre[t] /\ w.pre[u] = f.pre[u] /\ w.succ[b] = f.succ[b]
    BY WithFields
  <2>3. [w EXCEPT !.pre[t] = Append(@, b), !.pre[u] = Append(@, b),
                  !.succ[b] = @ \o <<u, t>>] =
        [[[w EXCEPT !.pre[t] = Append(w.pre[t], b)]
             EXCEPT !.pre[u] = Append(w.pre[u], b)]
             EXCEPT !.succ[b] = w.succ[b] \o <<u, t>>]
    <3> HIDE DEF w
    <3> QED
      OBVIOUS
  <2>4. [w EXCEPT !.pre[t] = Append(f.pre[t], b)] = With(f, e, p1, f.succ)
    <3> DEFINE x == Append(f.pre[t], b)
    <3> HIDE DEF x
    <3>1. [w EXCEPT !.pre[t] = x] = With(f, e, [f.pre EXCEPT ![t] = x], f.succ)
      BY DEF With
    <3> QED
      BY <3>1 DEF x
  <2>5. [With(f, e, p1, f.succ) EXCEPT !.pre[u] = Append(f.pre[u], b)] =
          With(f, e, p, f.succ)
    <3> HIDE DEF p1
    <3> QED
      BY DEF With
  <2>6. [With(f, e, p, f.succ) EXCEPT !.succ[b] = ts] = With(f, e, p, s)
    <3> HIDE DEF p, ts
    <3> QED
      BY DEF With
  <2>7. w.succ[b] \o <<u, t>> = ts
    BY <1>3, <2>2
  <2> HIDE DEF w, p, p1, s, ts
  <2> QED
    BY <2>1, <2>2, <2>3, <2>4, <2>5, <2>6, <2>7
<1>5. Updated(s, f.succ, b, ts)
  <2> HIDE DEF ts
  <2> QED
    BY <1>2, ExceptSequence
<1>6. /\ IsSequence(p) /\ Len(p) = n
      /\ \A c \in 1..n :
           /\ IsSequence(p[c])
           /\ \A q : Count(p[c], q) =
                       Count(f.pre[c], q) + (IF q = b /\ c = t THEN 1 ELSE 0)
                                          + (IF q = b /\ c = u THEN 1 ELSE 0)
  <2> DEFINE pre == f.pre
             l   == Append(f.pre[t], b)
             k   == Append(f.pre[u], b)
  <2>1. /\ IsSequence(pre) /\ t \in 1..Len(pre) /\ Len(pre) = n
        /\ \A c \in 1..Len(pre) : IsSequence(pre[c])
    BY <1>2
  <2>2. Updated(p1, pre, t, l)
    <3> HIDE DEF pre, l
    <3>1. Updated([pre EXCEPT ![t] = l], pre, t, l)
      BY <2>1, ExceptSequence
    <3> QED
      BY <3>1 DEF pre, l
  <2>3. Updated(p1, pre, t, Append(pre[t], b))
    BY <2>2
  <2> HIDE DEF pre, p1
  <2>4. OneMore(p1, pre, t, b)
    BY <2>1, <2>3, Entered
  <2>5. /\ IsSequence(p1) /\ Len(p1) = n
        /\ \A c \in 1..n :
              /\ IsSequence(p1[c])
              /\ \A q : Count(p1[c], q) =
                          Count(pre[c], q) + (IF q = b /\ c = t THEN 1 ELSE 0)
    BY <2>1, <2>4 DEF OneMore
  <2>6. /\ u \in 1..Len(p1) /\ p1[u] = pre[u]
        /\ \A c \in 1..Len(p1) : IsSequence(p1[c])
    BY <2>1, <2>3, <2>5 DEF Updated
  <2>7. Updated(p, p1, u, k)
    <3> HIDE DEF k
    <3>1. Updated([p1 EXCEPT ![u] = k], p1, u, k)
      BY <2>5, <2>6, ExceptSequence
    <3> QED
      BY <3>1 DEF k
  <2>8. Updated(p, p1, u, Append(p1[u], b))
    BY <2>6, <2>7 DEF pre
  <2> HIDE DEF p
  <2>9. OneMore(p, p1, u, b)
    BY <2>5, <2>6, <2>8, Entered
  <2>10. /\ IsSequence(p) /\ Len(p) = n
         /\ \A c \in 1..n :
              /\ IsSequence(p[c])
              /\ \A q : Count(p[c], q) =
                          Count(p1[c], q) + (IF q = b /\ c = u THEN 1 ELSE 0)
    BY <2>5, <2>9 DEF OneMore
  <2> QED
    <3>2. ASSUME NEW c \in 1..n, NEW q
          PROVE  Count(p[c], q) = Count(pre[c], q)
                                    + (IF q = b /\ c = t THEN 1 ELSE 0)
                                    + (IF q = b /\ c = u THEN 1 ELSE 0)
      <4>1. Count(pre[c], q) \in Nat
        BY <2>1, CountType
      <4>2. Count(p1[c], q) = Count(pre[c], q) + (IF q = b /\ c = t THEN 1 ELSE 0)
        BY <2>5
      <4>3. Count(p[c], q) = Count(p1[c], q) + (IF q = b /\ c = u THEN 1 ELSE 0)
        BY <2>10
      <4> QED
        BY <4>1, <4>2, <4>3
    <3> QED
      BY <2>10, <3>2 DEF pre
<1>7. \A c : Count(ts, c) = (IF u = c THEN 1 ELSE 0) + (IF t = c THEN 1 ELSE 0)
  <2> TAKE c
  <2>1. Count(<<u>>, c) = IF u = c THEN 1 ELSE 0
    BY CountOne
  <2>2. Count(<<t>>, c) = IF t = c THEN 1 ELSE 0
    BY CountOne
  <2>3. Count(ts, c) = Count(<<u>>, c) + Count(<<t>>, c)
    BY CountTwo
  <2> QED
    BY <2>1, <2>2, <2>3
<1>8. IsSequence(ts) /\ Within(ts, n)
  <2>1. IsSequence(ts)
    BY ShortSequences
  <2>2. Within(ts, n)
    BY DEF Within
  <2> QED
    BY <2>1, <2>2
<1>9. r.op = "condbr" /\ r.args = <<v, t, u>> /\ ts = <<r.args[3], r.args[2]>>
  BY DEF Instr
<1> HIDE DEF p, s, ts, r
<1>10. \A c \in 1..n :
         /\ IsSequence(p[c])
         /\ \A q :
              Count(p[c], q) = Count(f.pre[c], q) + (IF q = b THEN Count(ts, c) ELSE 0)
  <2> TAKE c \in 1..n
  <2>2. IsSequence(p[c])
    BY <1>6
  <2>3. ASSUME NEW q
        PROVE  Count(p[c], q) = Count(f.pre[c], q) + (IF q = b THEN Count(ts, c) ELSE 0)
    <3>1. Count(p[c], q) = Count(f.pre[c], q) + (IF q = b /\ c = t THEN 1 ELSE 0)
                                              + (IF q = b /\ c = u THEN 1 ELSE 0)
      BY <1>6
    <3>2. Count(f.pre[c], q) \in Nat
      BY <1>2, CountType
    <3> QED
      BY <1>7, <3>1, <3>2
  <2> QED
    BY <2>2, <2>3
<1>13. MoreOf(p, f.pre, ts, b)
  BY <1>2, <1>6, <1>10 DEF MoreOf
<1>11. /\ Wf(With(f, e, p, s))
       /\ Len(With(f, e, p, s).blocks) = Len(f.blocks)
       /\ \A c \in 1..Len(f.blocks) :
            Terminated(With(f, e, p, s), c) <=> c = b \/ Terminated(f, c)
  <2>1. \/ r.op = "br" /\ ts = <<r.args[1]>>
        \/ r.op = "condbr" /\ ts = <<r.args[3], r.args[2]>>
    BY <1>9
  <2> QED
    BY <1>1, <1>5, <1>8, <1>13, <2>1, BranchKeeps
<1> QED
  BY <1>4, <1>11

\* m empty lists.
LEMMA EmptyLists ==
  ASSUME NEW m \in Nat
  PROVE  LET none == [i \in 1..m |-> <<>>] IN
         /\ IsSequence(none) /\ Len(none) = m
         /\ \A i \in 1..m : none[i] = <<>>
<1> DEFINE none == [i \in 1..m |-> <<>>]
<1>1. none = [i \in 1..m |-> none[i]] /\ \A i \in 1..m : none[i] = <<>>
  OBVIOUS
<1>2. IsSequence(none) /\ Len(none) = m
  <2> HIDE DEF none
  <2> QED
    BY <1>1, FunctionIsSequence
<1> QED
  BY <1>1, <1>2

\* The sequence e is h with m empty lists at the end.
Extended(e, h, m) ==
  /\ IsSequence(e) /\ Len(e) = Len(h) + m
  /\ \A c \in 1..Len(h) : e[c] = h[c]
  /\ \A c \in (Len(h) + 1)..(Len(h) + m) : e[c] = <<>>

\* Empty elements appended to a sequence.
LEMMA Extending ==
  ASSUME NEW h, IsSequence(h), NEW m \in Nat
  PROVE  Extended(h \o [i \in 1..m |-> <<>>], h, m)
<1> DEFINE none == [i \in 1..m |-> <<>>]
           n == Len(h)
<1>1. IsSequence(none) /\ Len(none) = m /\ \A i \in 1..m : none[i] = <<>>
  BY EmptyLists
<1> HIDE DEF none
<1>0. IsSequence(none)
  BY <1>1
<1>2. IsSequence(h \o none)
  BY <1>0, ConcatSequence
<1>3. Len(h \o none) = n + Len(none)
  BY <1>0, ConcatSequence
<1>4. \A i \in 1..n : (h \o none)[i] = h[i]
  BY <1>0, ConcatSequence
<1>5. \A i \in 1..Len(none) : (h \o none)[n + i] = none[i]
  BY <1>0, ConcatSequence
<1>6. ASSUME NEW c \in (n + 1)..(n + m)
      PROVE  (h \o none)[c] = <<>>
  <2>1. n \in Nat
    BY SequenceFacts
  <2> DEFINE i == c - n
  <2>2. i \in 1..m /\ n + i = c
    <3> HIDE DEF n
    <3> QED
      BY <2>1
  <2> HIDE DEF i
  <2>3. (h \o none)[n + i] = none[i]
    BY <1>1, <1>5, <2>2
  <2> QED
    BY <1>1, <2>2, <2>3
<1>7. Extended(h \o none, h, m)
  BY <1>1, <1>2, <1>3, <1>4, <1>6 DEF Extended
<1> QED
  BY <1>7 DEF none

\* The new blocks are empty.
LEMMA NewBlocksKeeps ==
  ASSUME NEW f, Wf(f), NEW m \in Nat
  PROVE  LET g == NewBlocks(f, m)
             n == Len(f.blocks)
         IN
         /\ Wf(g)
         /\ Len(g.blocks) = n + m
         /\ \A c \in 1..n : Terminated(g, c) <=> Terminated(f, c)
         /\ \A c \in (n + 1)..(n + m) : ~Terminated(g, c)
<1> DEFINE none == [i \in 1..m |-> <<>>]
           e == f.blocks \o none
           p == f.pre \o none
           s == f.succ \o none
           g == NewBlocks(f, m)
           n == Len(f.blocks)
<1>1. g = With(f, e, p, s)
  <2>1. f = With(f, f.blocks, f.pre, f.succ)
    BY DEF Wf
  <2>2. g = [[[f EXCEPT !.blocks = e] EXCEPT !.pre = p] EXCEPT !.succ = s]
    BY <2>1 DEF NewBlocks, With
  <2> HIDE DEF e, p, s, g
  <2>3. [With(f, f.blocks, f.pre, f.succ) EXCEPT !.blocks = e] = With(f, e, f.pre, f.succ)
    BY DEF With
  <2>4. [With(f, e, f.pre, f.succ) EXCEPT !.pre = p] = With(f, e, p, f.succ)
    BY DEF With
  <2>5. [With(f, e, p, f.succ) EXCEPT !.succ = s] = With(f, e, p, s)
    BY DEF With
  <2> QED
    BY <2>1, <2>2, <2>3, <2>4, <2>5
<1>2. /\ IsSequence(f.blocks) /\ IsSequence(f.pre) /\ IsSequence(f.succ)
      /\ Len(f.pre) = n /\ Len(f.succ) = n
      /\ \A c \in 1..n :
           /\ IsSequence(f.blocks[c]) /\ IsSequence(f.pre[c]) /\ IsSequence(f.succ[c])
           /\ \A i \in 1..(Len(f.blocks[c]) - 1) : f.blocks[c][i].op \notin Terminators
           /\ f.succ[c] = Targets(f, c)
           /\ Within(f.pre[c], n) /\ Within(f.succ[c], n)
           /\ \A q \in 1..n : Count(f.pre[c], q) = Count(f.succ[q], c)
  BY DEF Wf
<1>3. Extended(e, f.blocks, m)
  BY <1>2, Extending
<1>4. Extended(p, f.pre, m)
  BY <1>2, Extending
<1>5. Extended(s, f.succ, m)
  BY <1>2, Extending
<1>6. n \in Nat
  BY <1>2, SequenceFacts
<1> HIDE DEF e, p, s, g
<1>7. /\ g.blocks = e /\ g.pre = p /\ g.succ = s
      /\ g = With(g, g.blocks, g.pre, g.succ)
  BY <1>1, WithFields
<1>8. /\ IsSequence(e) /\ IsSequence(p) /\ IsSequence(s)
      /\ Len(e) = n + m /\ Len(p) = n + m /\ Len(s) = n + m
      /\ \A c \in 1..n : e[c] = f.blocks[c] /\ p[c] = f.pre[c] /\ s[c] = f.succ[c]
      /\ \A c \in (n + 1)..(n + m) : e[c] = <<>> /\ p[c] = <<>> /\ s[c] = <<>>
  BY <1>2, <1>3, <1>4, <1>5 DEF Extended
<1> HIDE DEF n
<1>9. \A c \in 1..(n + m) : c \in 1..n \/ c \in (n + 1)..(n + m)
  BY <1>6
<1>10. \A c \in 1..n : /\ Terminated(g, c) <=> Terminated(f, c)
                       /\ Targets(g, c) = Targets(f, c)
  BY <1>7, <1>8, SameBlock
<1>11. \A c \in (n + 1)..(n + m) : ~Terminated(g, c) /\ Targets(g, c) = <<>>
  BY <1>7, <1>8 DEF Terminated, Targets
<1>12. /\ IsSequence(<<>>) /\ Len(<<>>) = 0 /\ Within(<<>>, n + m)
       /\ \A x : Count(<<>>, x) = 0
  <2>1. IsSequence(<<>>) /\ Len(<<>>) = 0
    BY ShortSequences
  <2>2. Within(<<>>, n + m)
    BY <2>1 DEF Within
  <2>3. ASSUME NEW x PROVE Count(<<>>, x) = 0
    <3>1. {i \in 1..Len(<<>>) : <<>>[i] = x} = {}
      OBVIOUS
    <3> QED
      BY <3>1, FS_EmptySet DEF Count
  <2> QED
    BY <2>1, <2>2, <2>3
<1>13. ASSUME NEW c \in 1..(n + m)
       PROVE  /\ IsSequence(e[c]) /\ IsSequence(p[c]) /\ IsSequence(s[c])
              /\ \A i \in 1..(Len(e[c]) - 1) : e[c][i].op \notin Terminators
              /\ s[c] = Targets(g, c)
              /\ Within(p[c], n + m) /\ Within(s[c], n + m)
  <2>1. CASE c \in 1..n
    <3>1. /\ IsSequence(e[c]) /\ IsSequence(p[c]) /\ IsSequence(s[c])
          /\ \A i \in 1..(Len(e[c]) - 1) : e[c][i].op \notin Terminators
          /\ s[c] = Targets(g, c)
      BY <1>2, <1>8, <1>10, <2>1 DEF n
    <3>2. Within(p[c], n) /\ Within(s[c], n)
      BY <1>2, <1>8, <2>1 DEF n
    <3>3. Within(p[c], n + m) /\ Within(s[c], n + m)
      BY <1>6, <3>2 DEF Within
    <3> QED
      BY <3>1, <3>3
  <2>2. CASE c \in (n + 1)..(n + m)
    <3>1. e[c] = <<>> /\ p[c] = <<>> /\ s[c] = <<>> /\ Targets(g, c) = <<>>
      BY <1>8, <1>11, <2>2
    <3>2. \A i \in 1..(Len(<<>>) - 1) : <<>>[i].op \notin Terminators
      BY <1>12
    <3> QED
      BY <1>12, <3>1, <3>2
  <2> QED
    BY <1>9, <2>1, <2>2
<1>14. ASSUME NEW c \in 1..(n + m), NEW q \in 1..(n + m)
       PROVE  Count(p[c], q) = Count(s[q], c)
  <2>1. c \in 1..n => p[c] = f.pre[c] /\ IsSequence(f.pre[c]) /\ Within(f.pre[c], n)
    BY <1>2, <1>8 DEF n
  <2>2. q \in 1..n => s[q] = f.succ[q] /\ IsSequence(f.succ[q]) /\ Within(f.succ[q], n)
    BY <1>2, <1>8 DEF n
  <2>3. c \notin 1..n => Count(p[c], q) = 0
    BY <1>8, <1>9, <1>12
  <2>4. q \notin 1..n => Count(s[q], c) = 0
    BY <1>8, <1>9, <1>12
  <2>5. CASE c \in 1..n /\ q \in 1..n
    BY <1>2, <2>1, <2>2, <2>5 DEF n
  <2>6. CASE c \in 1..n /\ q \notin 1..n
    <3>1. Count(p[c], q) = 0
      BY <2>1, <2>6, WithinCount
    <3> QED
      BY <2>4, <2>6, <3>1
  <2>7. CASE c \notin 1..n /\ q \in 1..n
    <3>1. Count(s[q], c) = 0
      BY <2>2, <2>7, WithinCount
    <3> QED
      BY <2>3, <2>7, <3>1
  <2>8. CASE c \notin 1..n /\ q \notin 1..n
    BY <2>3, <2>4, <2>8
  <2> QED
    BY <2>5, <2>6, <2>7, <2>8
<1>15. Wf(g)
  <2>1. Len(g.blocks) = n + m
    BY <1>7, <1>8
  <2>2. \A c \in 1..(n + m) :
           /\ IsSequence(g.blocks[c]) /\ IsSequence(g.pre[c]) /\ IsSequence(g.succ[c])
           /\ \A i \in 1..(Len(g.blocks[c]) - 1) : g.blocks[c][i].op \notin Terminators
           /\ g.succ[c] = Targets(g, c)
           /\ Within(g.pre[c], n + m) /\ Within(g.succ[c], n + m)
           /\ \A q \in 1..(n + m) : Count(g.pre[c], q) = Count(g.succ[q], c)
    BY <1>7, <1>13, <1>14
  <2>3. /\ IsSequence(g.blocks) /\ IsSequence(g.pre) /\ IsSequence(g.succ)
        /\ Len(g.pre) = Len(g.blocks) /\ Len(g.succ) = Len(g.blocks)
    BY <1>7, <1>8
  <2> QED
    BY <1>7, <2>1, <2>2, <2>3 DEF Wf
<1>16. Len(g.blocks) = n + m
  BY <1>7, <1>8
<1> QED
  BY <1>10, <1>11, <1>15, <1>16 DEF g, n

-----------------------------------------------------------------------------
(***************************************************************************)
(* What the operations on a function make of its open blocks.              *)
(***************************************************************************)

\* The function f is well formed, has n blocks, and those in U are open.
Shape(f, n, U) == Wf(f) /\ Len(f.blocks) = n /\ Open(f) = U

\* Instructions that do not end a block,
Plain(is) == IsSequence(is) /\ \A i \in 1..Len(is) : is[i].op \notin Terminators

\* and such ones with a ret after them.
Returning(is) ==
  /\ IsSequence(is) /\ is # <<>>
  /\ \A i \in 1..(Len(is) - 1) : is[i].op \notin Terminators
  /\ is[Len(is)].op = "ret"

\* The instructions of the builder are plain, but for the terminators.
LEMMA PlainInstructions ==
  /\ Plain(<<>>)
  /\ \A x : x.op \notin Terminators => Plain(<<x>>)
  /\ \A x, y : x.op \notin Terminators /\ y.op \notin Terminators => Plain(<<x, y>>)
<1>1. Plain(<<>>)
  <2>1. IsSequence(<<>>)
    BY ShortSequences
  <2> QED
    BY <2>1 DEF Plain
<1>2. ASSUME NEW x, x.op \notin Terminators
      PROVE  Plain(<<x>>)
  <2>1. IsSequence(<<x>>)
    BY ShortSequences
  <2> QED
    BY <1>2, <2>1 DEF Plain
<1>3. ASSUME NEW x, NEW y, x.op \notin Terminators, y.op \notin Terminators
      PROVE  Plain(<<x, y>>)
  <2>1. IsSequence(<<x, y>>)
    BY ShortSequences
  <2> QED
    BY <1>3, <2>1 DEF Plain
<1> QED
  BY <1>1, <1>2, <1>3

\* Plain instructions one after the other are plain.
LEMMA PlainConcat ==
  ASSUME NEW s, NEW t, Plain(s), Plain(t)
  PROVE  Plain(s \o t)
<1> DEFINE m == Len(s)
           n == Len(t)
           c == s \o t
<1>1. IsSequence(s) /\ IsSequence(t) /\ m \in Nat /\ n \in Nat
  BY SequenceFacts DEF Plain
<1>2. /\ IsSequence(c) /\ Len(c) = m + n
      /\ \A i \in 1..m : c[i] = s[i]
      /\ \A i \in 1..n : c[m + i] = t[i]
  BY <1>1, ConcatSequence
<1>3. ASSUME NEW i \in 1..Len(c)
      PROVE  c[i].op \notin Terminators
  <2> HIDE DEF c
  <2>1. CASE i <= m
    <3>1. i \in 1..m
      BY <1>1, <1>2, <2>1
    <3>2. c[i] = s[i] /\ s[i].op \notin Terminators
      BY <1>2, <3>1 DEF Plain
    <3> QED
      BY <3>2
  <2>2. CASE ~(i <= m)
    <3>1. i - m \in 1..n /\ m + (i - m) = i
      BY <1>1, <1>2, <2>2
    <3>2. c[m + (i - m)] = t[i - m] /\ t[i - m].op \notin Terminators
      BY <1>2, <3>1 DEF Plain
    <3> QED
      BY <3>1, <3>2
  <2> QED
    BY <2>1, <2>2
<1> QED
  BY <1>2, <1>3 DEF Plain

\* A ret, and a ret after plain instructions.
LEMMA ReturningInstructions ==
  ASSUME NEW r, r.op = "ret"
  PROVE  /\ Returning(<<r>>)
         /\ \A s : Plain(s) => Returning(s \o <<r>>)
<1>1. IsSequence(<<r>>) /\ Len(<<r>>) = 1 /\ <<r>>[1] = r
  BY ShortSequences
<1>2. Returning(<<r>>)
  BY <1>1 DEF Returning
<1>3. ASSUME NEW s, Plain(s)
      PROVE  Returning(s \o <<r>>)
  <2> DEFINE o == <<r>>
             c == s \o o
  <2>1. IsSequence(s) /\ \A i \in 1..Len(s) : s[i].op \notin Terminators
    BY <1>3 DEF Plain
  <2>2. IsSequence(o) /\ o # <<>> /\ o[Len(o)] = r
    BY <1>1
  <2>3. \A i \in 1..(Len(o) - 1) : o[i].op \notin Terminators
    BY <1>1
  <2> HIDE DEF o
  <2>4. /\ IsSequence(c) /\ c # <<>> /\ c[Len(c)] = o[Len(o)]
        /\ \A i \in 1..(Len(c) - 1) : c[i].op \notin Terminators
    BY <2>1, <2>2, <2>3, Appended
  <2> HIDE DEF c
  <2>5. Returning(c)
    BY <2>2, <2>4 DEF Returning
  <2> QED
    BY <2>5 DEF c, o
<1> QED
  BY <1>2, <1>3

\* A conversion is one plain instruction or none.
LEMMA ConvertPlain ==
  ASSUME NEW v, NEW t, NEW id
  PROVE  Plain(Convert(v, t, id).is)
<1>1. \/ Convert(v, t, id).is = <<>>
      \/ Convert(v, t, id).is = <<Instr("fptosi", id, <<v>>)>>
      \/ Convert(v, t, id).is = <<Instr("sitofp", id, <<v>>)>>
  BY DEF Convert
<1>2. /\ Plain(<<>>)
      /\ Plain(<<Instr("fptosi", id, <<v>>)>>)
      /\ Plain(<<Instr("sitofp", id, <<v>>)>>)
  BY PlainInstructions DEF Instr, Terminators
<1> QED
  BY <1>1, <1>2

\* The open blocks of a function.
LEMMA ShapeFacts ==
  ASSUME NEW f, NEW n, NEW U, Shape(f, n, U)
  PROVE  /\ n \in Nat /\ n = Len(f.blocks) /\ Wf(f)
         /\ U \subseteq 1..n
         /\ \A b : b \in U <=> b \in 1..n /\ ~Terminated(f, b)
<1>1. IsSequence(f.blocks) /\ n = Len(f.blocks) /\ Wf(f)
  BY DEF Shape, Wf
<1>2. n \in Nat
  BY <1>1, SequenceFacts
<1> QED
  BY <1>1, <1>2 DEF Shape, Open

\* Plain instructions leave a block open.
LEMMA ShapePlain ==
  ASSUME NEW f, NEW n, NEW U, Shape(f, n, U), NEW b \in U, NEW is, Plain(is)
  PROVE  Shape(Put(f, b, is), n, U)
<1> DEFINE g == Put(f, b, is)
<1>1. /\ n \in Nat /\ n = Len(f.blocks) /\ Wf(f)
      /\ b \in 1..n /\ ~Terminated(f, b)
      /\ \A c : c \in U <=> c \in 1..n /\ ~Terminated(f, c)
  BY ShapeFacts
<1>2. /\ IsSequence(is) /\ Len(is) \in Nat
      /\ is = <<>> <=> Len(is) = 0
      /\ \A i \in 1..Len(is) : is[i].op \notin Terminators
  BY SequenceFacts DEF Plain
<1>3. \A i \in 1..(Len(is) - 1) : is[i].op \notin Terminators
  BY <1>2
<1>4. is # <<>> => is[Len(is)].op \notin {"br", "condbr", "ret"}
  BY <1>2 DEF Terminators
<1>5. is # <<>> => is[Len(is)].op \notin {"br", "condbr"}
  BY <1>4
<1>6. /\ Wf(g)
      /\ Len(g.blocks) = n
      /\ \A c \in 1..n : c # b => (Terminated(g, c) <=> Terminated(f, c))
      /\ Terminated(g, b) <=> is # <<>> /\ is[Len(is)].op = "ret"
  BY <1>1, <1>2, <1>3, <1>5, PutKeeps
<1> HIDE DEF g
<1>7. ~Terminated(g, b)
  BY <1>4, <1>6
<1>8. Open(g) = U
  BY <1>1, <1>6, <1>7 DEF Open
<1>9. Shape(g, n, U)
  BY <1>6, <1>8 DEF Shape
<1> QED
  BY <1>9 DEF g

\* A ret closes the block.
LEMMA ShapeReturn ==
  ASSUME NEW f, NEW n, NEW U, Shape(f, n, U), NEW b \in U, NEW is, Returning(is)
  PROVE  Shape(Put(f, b, is), n, U \ {b})
<1> DEFINE g == Put(f, b, is)
<1>1. /\ n \in Nat /\ n = Len(f.blocks) /\ Wf(f)
      /\ b \in 1..n /\ ~Terminated(f, b)
      /\ \A c : c \in U <=> c \in 1..n /\ ~Terminated(f, c)
  BY ShapeFacts
<1>2. /\ IsSequence(is) /\ is # <<>>
      /\ \A i \in 1..(Len(is) - 1) : is[i].op \notin Terminators
      /\ is[Len(is)].op = "ret"
  BY DEF Returning
<1>3. is[Len(is)].op \notin {"br", "condbr"}
  BY <1>2
<1>4. /\ Wf(g)
      /\ Len(g.blocks) = n
      /\ \A c \in 1..n : c # b => (Terminated(g, c) <=> Terminated(f, c))
      /\ Terminated(g, b) <=> is # <<>> /\ is[Len(is)].op = "ret"
  BY <1>1, <1>2, <1>3, PutKeeps
<1> HIDE DEF g
<1>5. Open(g) = U \ {b}
  BY <1>1, <1>2, <1>4 DEF Open
<1>6. Shape(g, n, U \ {b})
  BY <1>4, <1>5 DEF Shape
<1> QED
  BY <1>6 DEF g

\* So does a br,
LEMMA ShapeBr ==
  ASSUME NEW f, NEW n, NEW U, Shape(f, n, U), NEW b \in U, NEW t \in 1..n
  PROVE  Shape(Br(f, b, t), n, U \ {b})
<1> DEFINE g == Br(f, b, t)
<1>1. /\ n \in Nat /\ n = Len(f.blocks) /\ Wf(f)
      /\ b \in 1..n /\ ~Terminated(f, b)
      /\ \A c : c \in U <=> c \in 1..n /\ ~Terminated(f, c)
  BY ShapeFacts
<1>2. /\ Wf(g)
      /\ Len(g.blocks) = n
      /\ \A c \in 1..n : Terminated(g, c) <=> c = b \/ Terminated(f, c)
  BY <1>1, BrKeeps
<1> HIDE DEF g
<1>3. Open(g) = U \ {b}
  BY <1>1, <1>2 DEF Open
<1>4. Shape(g, n, U \ {b})
  BY <1>2, <1>3 DEF Shape
<1> QED
  BY <1>4 DEF g

\* a conditional one,
LEMMA ShapeCondBr ==
  ASSUME NEW f, NEW n, NEW U, Shape(f, n, U), NEW b \in U, NEW v,
         NEW t \in 1..n, NEW u \in 1..n, t # u
  PROVE  Shape(CondBr(f, b, v, t, u), n, U \ {b})
<1> DEFINE g == CondBr(f, b, v, t, u)
<1>1. /\ n \in Nat /\ n = Len(f.blocks) /\ Wf(f)
      /\ b \in 1..n /\ ~Terminated(f, b)
      /\ \A c : c \in U <=> c \in 1..n /\ ~Terminated(f, c)
  BY ShapeFacts
<1>2. /\ Wf(g)
      /\ Len(g.blocks) = n
      /\ \A c \in 1..n : Terminated(g, c) <=> c = b \/ Terminated(f, c)
  BY <1>1, CondBrKeeps
<1> HIDE DEF g
<1>3. Open(g) = U \ {b}
  BY <1>1, <1>2 DEF Open
<1>4. Shape(g, n, U \ {b})
  BY <1>2, <1>3 DEF Shape
<1> QED
  BY <1>4 DEF g

\* and the branch that a statement leaves, whether it returned or not.
LEMMA ShapeBrUnless ==
  ASSUME NEW f, NEW n, NEW U, Shape(f, n, U), NEW b \in 1..n, NEW t \in 1..n
  PROVE  Shape(BrUnlessTerminated(f, b, t), n, U \ {b})
<1>1. b \in U <=> ~Terminated(f, b)
  BY ShapeFacts
<1>2. CASE Terminated(f, b)
  <2>1. BrUnlessTerminated(f, b, t) = f /\ U \ {b} = U
    BY <1>1, <1>2 DEF BrUnlessTerminated
  <2> QED
    BY <2>1
<1>3. CASE ~Terminated(f, b)
  <2>1. BrUnlessTerminated(f, b, t) = Br(f, b, t)
    BY <1>3 DEF BrUnlessTerminated
  <2>2. Shape(Br(f, b, t), n, U \ {b})
    BY <1>1, <1>3, ShapeBr
  <2> QED
    BY <2>1, <2>2
<1> QED
  BY <1>2, <1>3

\* New blocks are open.
LEMMA ShapeNew ==
  ASSUME NEW f, NEW n, NEW U, Shape(f, n, U), NEW m \in Nat
  PROVE  Shape(NewBlocks(f, m), n + m, U \cup (n + 1)..(n + m))
<1> DEFINE g == NewBlocks(f, m)
<1>1. /\ n \in Nat /\ n = Len(f.blocks) /\ Wf(f)
      /\ \A c : c \in U <=> c \in 1..n /\ ~Terminated(f, c)
  BY ShapeFacts
<1>2. /\ Wf(g)
      /\ Len(g.blocks) = n + m
      /\ \A c \in 1..n : Terminated(g, c) <=> Terminated(f, c)
      /\ \A c \in (n + 1)..(n + m) : ~Terminated(g, c)
  BY <1>1, NewBlocksKeeps
<1> HIDE DEF g
<1>3. \A c : c \in 1..(n + m) <=> c \in 1..n \/ c \in (n + 1)..(n + m)
  BY <1>1
<1>4. 1..n \cap (n + 1)..(n + m) = {}
  BY <1>1
<1>5. Open(g) = U \cup (n + 1)..(n + m)
  BY <1>1, <1>2, <1>3, <1>4 DEF Open
<1>6. Shape(g, n + m, U \cup (n + 1)..(n + m))
  BY <1>2, <1>5 DEF Shape
<1> QED
  BY <1>6 DEF g

-----------------------------------------------------------------------------
(***************************************************************************)
(* What a visit makes of the agenda.                                       *)
(***************************************************************************)

\* The items may come in the place of x, in a function of n blocks.
Fits(x, items, n) ==
  /\ IsSequence(items)
  /\ \A i \in 1..Len(items) : IsItem(items[i], n) /\ items[i][1] # "funend"
  /\ \A i \in 1..(Len(items) - 1) :
       Follows(items[i], items[i + 1]) /\ Pending(items[i]) = {}
  /\ items # <<>> => \A y : Follows(x, y) => Follows(items[Len(items)], y)

\* The blocks that they wait for: only the last does.
PendingLast(items) == IF items = <<>> THEN {} ELSE Pending(items[Len(items)])

\* An item of a function stays one when blocks are added.
LEMMA ItemGrows ==
  ASSUME NEW n \in Nat, NEW m \in Nat, n <= m, NEW x, IsItem(x, n)
  PROVE  IsItem(x, m)
<1>1. 1..n \subseteq 1..m
  OBVIOUS
<1> QED
  BY <1>1 DEF IsItem

\* The agenda after a visit within a function.
LEMMA AgendaStep ==
  ASSUME NEW t, NEW n \in Nat, NEW m \in Nat, n <= m,
         NEW k \in Nat, k # 0, Agenda(t, k, n), t[1][1] # "funend",
         NEW items, Fits(t[1], items, m)
  PROVE  /\ k - 1 + Len(items) # 0
         /\ Agenda(items \o Tail(t), k - 1 + Len(items), m)
<1> DEFINE r == Tail(t)
           q == Len(items)
           u == items \o r
           j == k - 1 + q
<1>1. /\ IsSequence(t) /\ k \in 0..Len(t) /\ t[k] = <<"funend">>
      /\ \A i \in 1..(k - 1) :
           IsItem(t[i], n) /\ t[i][1] # "funend" /\ Follows(t[i], t[i + 1])
      /\ \A i \in (k + 1)..Len(t) : t[i] \in Declarations
  BY DEF Agenda
<1>2. Len(t) \in Nat /\ t # <<>>
  BY <1>1, SequenceFacts
<1>3. k # 1
  BY <1>1
<1>4. /\ IsSequence(r) /\ Len(r) = Len(t) - 1
      /\ \A i \in 1..Len(r) : r[i] = t[i + 1]
  BY <1>1, <1>2, TailSequence
<1>5. IsSequence(items)
  BY DEF Fits
<1>6. q \in Nat
  BY <1>5, SequenceFacts
<1>7. /\ IsSequence(u) /\ Len(u) = q + Len(r)
      /\ \A i \in 1..q : u[i] = items[i]
      /\ \A i \in 1..Len(r) : u[q + i] = r[i]
  BY <1>4, <1>5, ConcatSequence
<1>8. \A i \in (q + 1)..(q + Len(r)) : u[i] = t[i - q + 1]
  <2> TAKE i \in (q + 1)..(q + Len(r))
  <2>1. i - q \in 1..Len(r) /\ q + (i - q) = i
    BY <1>2, <1>4, <1>6
  <2>2. u[q + (i - q)] = r[i - q] /\ r[i - q] = t[i - q + 1]
    BY <1>4, <1>7, <2>1
  <2> QED
    BY <2>1, <2>2
<1> HIDE DEF u, r, q
<1>9. j \in 0..Len(u) /\ j # 0 /\ j \in Nat
  BY <1>1, <1>2, <1>3, <1>4, <1>6, <1>7
<1>10. u[j] = <<"funend">>
  <2>1. j \in (q + 1)..(q + Len(r)) /\ j - q + 1 = k
    BY <1>1, <1>2, <1>3, <1>4, <1>6
  <2> QED
    BY <1>1, <1>8, <2>1
<1>11. ASSUME NEW i \in 1..(j - 1)
       PROVE  IsItem(u[i], m) /\ u[i][1] # "funend" /\ Follows(u[i], u[i + 1])
  <2>1. CASE i < q
    <3>1. i \in 1..q /\ i + 1 \in 1..q /\ i \in 1..(q - 1)
      BY <1>6, <2>1
    <3>2. u[i] = items[i] /\ u[i + 1] = items[i + 1]
      BY <1>7, <3>1
    <3>3. /\ IsItem(items[i], m) /\ items[i][1] # "funend"
          /\ Follows(items[i], items[i + 1])
      BY <3>1 DEF Fits, q
    <3> QED
      BY <3>2, <3>3
  <2>2. CASE i = q
    <3>1. i \in 1..q /\ i + 1 \in (q + 1)..(q + Len(r)) /\ (i + 1) - q + 1 = 2
      BY <1>1, <1>2, <1>3, <1>4, <1>6, <2>2
    <3>2. u[i] = items[q] /\ u[i + 1] = t[2]
      BY <1>7, <1>8, <2>2, <3>1
    <3>3. 1 \in 1..(k - 1)
      BY <1>3
    <3>4. Follows(t[1], t[1 + 1])
      BY <1>1, <3>3
    <3>5. items # <<>>
      BY <1>5, <1>6, <2>2, SequenceFacts DEF q
    <3>6. Follows(items[q], t[2])
      BY <3>4, <3>5 DEF Fits, q
    <3>7. IsItem(items[q], m) /\ items[q][1] # "funend"
      BY <2>2, <3>1 DEF Fits, q
    <3> QED
      BY <3>2, <3>6, <3>7
  <2>3. CASE i > q
    <3>1. /\ i \in (q + 1)..(q + Len(r)) /\ i + 1 \in (q + 1)..(q + Len(r))
          /\ i - q + 1 \in 1..(k - 1) /\ (i + 1) - q + 1 = (i - q + 1) + 1
      BY <1>1, <1>2, <1>3, <1>4, <1>6, <2>3
    <3>2. u[i] = t[i - q + 1] /\ u[i + 1] = t[(i - q + 1) + 1]
      BY <1>8, <3>1
    <3>3. /\ IsItem(t[i - q + 1], n) /\ t[i - q + 1][1] # "funend"
          /\ Follows(t[i - q + 1], t[(i - q + 1) + 1])
      BY <1>1, <3>1
    <3>4. IsItem(t[i - q + 1], m)
      BY <3>3, ItemGrows
    <3> QED
      BY <3>2, <3>3, <3>4
  <2> QED
    BY <1>6, <1>9, <2>1, <2>2, <2>3
<1>12. ASSUME NEW i \in (j + 1)..Len(u)
       PROVE  u[i] \in Declarations
  <2>1. i \in (q + 1)..(q + Len(r)) /\ i - q + 1 \in (k + 1)..Len(t)
    BY <1>1, <1>2, <1>3, <1>4, <1>6, <1>7
  <2> QED
    BY <1>1, <1>8, <2>1
<1>13. Agenda(u, j, m)
  <2> HIDE DEF j
  <2> QED
    BY <1>7, <1>9, <1>10, <1>11, <1>12 DEF Agenda
<1> QED
  BY <1>9, <1>13 DEF u, r, q

\* The blocks that are waited for after a visit.
LEMMA WaitingStep ==
  ASSUME NEW t, IsSequence(t), t # <<>>, NEW U, NEW ins, Waiting(t, U, ins),
         NEW items, NEW m, Fits(t[1], items, m), NEW V, NEW now,
         V \ {now} = ((U \ {ins}) \ Pending(t[1])) \cup PendingLast(items),
         ((U \ {ins}) \ Pending(t[1])) \cap PendingLast(items) = {}
  PROVE  Waiting(items \o Tail(t), V, now)
<1> DEFINE r == Tail(t)
           q == Len(items)
           u == items \o r
           P == PendingLast(items)
           W == (U \ {ins}) \ Pending(t[1])
<1>1. /\ IsSequence(r) /\ Len(r) = Len(t) - 1
      /\ \A i \in 1..Len(r) : r[i] = t[i + 1]
      /\ Len(t) \in Nat \ {0}
  BY TailSequence
<1>2. IsSequence(items)
  BY DEF Fits
<1>3. q \in Nat /\ (items = <<>> <=> q = 0)
  BY <1>2, SequenceFacts
<1>4. /\ IsSequence(u) /\ Len(u) = q + Len(r)
      /\ \A i \in 1..q : u[i] = items[i]
      /\ \A i \in 1..Len(r) : u[q + i] = r[i]
  BY <1>1, <1>2, ConcatSequence
<1>5. \A i \in (q + 1)..(q + Len(r)) : i - q + 1 \in 2..Len(t) /\ u[i] = t[i - q + 1]
  <2> TAKE i \in (q + 1)..(q + Len(r))
  <2>1. i - q \in 1..Len(r) /\ q + (i - q) = i
    BY <1>1, <1>3
  <2>2. u[q + (i - q)] = r[i - q] /\ r[i - q] = t[i - q + 1]
    BY <1>1, <1>4, <2>1
  <2> QED
    BY <1>1, <2>1, <2>2
<1>6. /\ \A i \in 1..Len(t) : Pending(t[i]) \subseteq U \ {ins}
      /\ \A i, j \in 1..Len(t) : i # j => Pending(t[i]) \cap Pending(t[j]) = {}
      /\ \A b \in U \ {ins} : \E i \in 1..Len(t) : b \in Pending(t[i])
  BY DEF Waiting
<1>7. \A i \in 2..Len(t) : Pending(t[i]) \subseteq W
  <2> TAKE i \in 2..Len(t)
  <2>1. 1 \in 1..Len(t) /\ i \in 1..Len(t) /\ i # 1
    BY <1>1
  <2>2. Pending(t[i]) \cap Pending(t[1]) = {}
    BY <1>6, <2>1
  <2>3. Pending(t[i]) \subseteq U \ {ins}
    BY <1>6, <2>1
  <2> QED
    BY <2>2, <2>3
<1>8. \A b \in W : \E i \in 2..Len(t) : b \in Pending(t[i])
  <2> TAKE b \in W
  <2>1. PICK i \in 1..Len(t) : b \in Pending(t[i])
    BY <1>6
  <2>2. i # 1
    BY <2>1
  <2> QED
    BY <1>1, <2>1, <2>2
<1>9. \A i \in 1..q : Pending(items[i]) = IF i = q THEN P ELSE {}
  <2> TAKE i \in 1..q
  <2>1. CASE i = q
    BY <1>3, <2>1 DEF PendingLast
  <2>2. CASE i # q
    <3>1. i \in 1..(Len(items) - 1)
      BY <1>3, <2>2
    <3> QED
      BY <2>2, <3>1 DEF Fits
  <2> QED
    BY <2>1, <2>2
<1>10. q = 0 => P = {}
  BY <1>3 DEF PendingLast
<1>11. V \ {now} = W \cup P /\ W \cap P = {}
  OBVIOUS
<1> HIDE DEF u, r, q, W, P
<1>12. \A i \in 1..Len(u) :
         \/ i \in 1..q /\ u[i] = items[i]
         \/ i \in (q + 1)..(q + Len(r)) /\ i - q + 1 \in 2..Len(t) /\ u[i] = t[i - q + 1]
  BY <1>1, <1>3, <1>4, <1>5
<1>13. \A i \in 1..Len(u) : Pending(u[i]) \subseteq V \ {now}
  BY <1>7, <1>9, <1>11, <1>12
<1>14. ASSUME NEW i \in 1..Len(u), NEW j \in 1..Len(u), i # j
       PROVE  Pending(u[i]) \cap Pending(u[j]) = {}
  <2>1. CASE i \in 1..q /\ j \in 1..q
    BY <1>4, <1>9, <1>14, <2>1
  <2>2. CASE i \in 1..q /\ j \notin 1..q
    <3>1. Pending(u[i]) \subseteq P
      BY <1>4, <1>9, <2>2
    <3>2. j - q + 1 \in 2..Len(t) /\ u[j] = t[j - q + 1]
      BY <1>12, <2>2
    <3>3. Pending(u[j]) \subseteq W
      BY <1>7, <3>2
    <3> QED
      BY <1>11, <3>1, <3>3
  <2>3. CASE i \notin 1..q /\ j \in 1..q
    <3>1. Pending(u[j]) \subseteq P
      BY <1>4, <1>9, <2>3
    <3>2. i - q + 1 \in 2..Len(t) /\ u[i] = t[i - q + 1]
      BY <1>12, <2>3
    <3>3. Pending(u[i]) \subseteq W
      BY <1>7, <3>2
    <3> QED
      BY <1>11, <3>1, <3>3
  <2>4. CASE i \notin 1..q /\ j \notin 1..q
    <3>1. /\ i - q + 1 \in 2..Len(t) /\ u[i] = t[i - q + 1]
          /\ j - q + 1 \in 2..Len(t) /\ u[j] = t[j - q + 1]
      BY <1>12, <2>4
    <3>2. /\ i - q + 1 \in 1..Len(t) /\ j - q + 1 \in 1..Len(t)
          /\ i - q + 1 # j - q + 1
      BY <1>1, <1>3, <1>4, <1>14, <3>1
    <3>3. Pending(t[i - q + 1]) \cap Pending(t[j - q + 1]) = {}
      BY <1>6, <3>2
    <3> QED
      BY <3>1, <3>3
  <2> QED
    BY <2>1, <2>2, <2>3, <2>4
<1>15. ASSUME NEW b \in V \ {now}
       PROVE  \E i \in 1..Len(u) : b \in Pending(u[i])
  <2>1. CASE b \in P
    <3>1. q \in 1..q /\ q \in 1..Len(u)
      BY <1>1, <1>3, <1>4, <1>10, <2>1
    <3> QED
      BY <1>4, <1>9, <2>1, <3>1
  <2>2. CASE b \in W
    <3>1. PICK i \in 2..Len(t) : b \in Pending(t[i])
      BY <1>8, <2>2
    <3>2. /\ q + i - 1 \in (q + 1)..(q + Len(r)) /\ q + i - 1 \in 1..Len(u)
          /\ (q + i - 1) - q + 1 = i
      BY <1>1, <1>3, <1>4, <3>1
    <3>3. u[q + i - 1] = t[i]
      BY <1>5, <3>2
    <3> QED
      BY <3>1, <3>2, <3>3
  <2> QED
    BY <1>11, <2>1, <2>2
<1>16. Waiting(u, V, now)
  BY <1>13, <1>14, <1>15 DEF Waiting
<1> QED
  BY <1>16 DEF u, r

\* The scopes to be left after a visit.
LEMMA ExitsStep ==
  ASSUME NEW t, IsSequence(t), t # <<>>, NEW items, IsSequence(items), NEW x
  PROVE  /\ Count(t, x) \in Nat /\ Count(items, x) \in Nat
         /\ Count(items \o Tail(t), x) + (IF t[1] = x THEN 1 ELSE 0) =
              Count(items, x) + Count(t, x)
<1> DEFINE r == Tail(t)
<1>1. IsSequence(r)
  BY TailSequence
<1>2. Count(t, x) = (IF t[1] = x THEN 1 ELSE 0) + Count(r, x)
  BY CountHead
<1> HIDE DEF r
<1>3. Count(items \o r, x) = Count(items, x) + Count(r, x)
  BY <1>1, CountConcat
<1>4. Count(t, x) \in Nat /\ Count(items, x) \in Nat /\ Count(r, x) \in Nat
  BY <1>1, CountType
<1>5. Count(items \o r, x) + (IF t[1] = x THEN 1 ELSE 0) = Count(items, x) + Count(t, x)
  BY <1>2, <1>3, <1>4
<1> QED
  BY <1>4, <1>5 DEF r

\* A visit within a function that puts items in the place of the head keeps
\* the invariant, if the blocks and the scopes fit.
LEMMA GoesOn ==
  ASSUME NEW k \in 1..Len(todo), Inside(k), todo[1][1] # "funend",
         NEW items, todo' = items \o Tail(todo),
         NEW n \in Nat, Len(fun.blocks) <= n, NEW U, Shape(fun', n, U),
         Fits(todo[1], items, n),
         insert' \in 1..n,
         \/ insert' \in U
         \/ items = <<>> /\ todo[1][1] \notin ExprKinds \cup TermKinds \cup {"vardecl"},
         U \ {insert'} = ((Open(fun) \ {insert}) \ Pending(todo[1])) \cup PendingLast(items),
         ((Open(fun) \ {insert}) \ Pending(todo[1])) \cap PendingLast(items) = {},
         IsSequence(scope'),
         Len(scope') + (IF todo[1] = <<"exit">> THEN 1 ELSE 0) =
           Len(scope) + Count(items, <<"exit">>)
  PROVE  IInv'
<1> DEFINE m == Len(fun.blocks)
           j == k - 1 + Len(items)
           x == todo[1]
<1>1. /\ Wf(fun) /\ Agenda(todo, k, m) /\ Waiting(todo, Open(fun), insert)
      /\ Len(scope) = 2 + Count(todo, <<"exit">>)
  BY DEF Inside
<1>2. IsSequence(todo) /\ Len(todo) \in Nat /\ todo # <<>> /\ IsSequence(items)
  <2>1. IsSequence(todo)
    BY <1>1 DEF Agenda
  <2>2. IsSequence(items)
    BY DEF Fits
  <2>3. Len(todo) \in Nat /\ todo # <<>>
    BY <2>1, SequenceFacts
  <2> QED
    BY <2>1, <2>2, <2>3
<1>3. m \in Nat
  BY <1>1, SequenceFacts DEF Wf
<1>4. j # 0 /\ Agenda(todo', j, n)
  <2>1. k \in Nat /\ k # 0
    OBVIOUS
  <2>2. /\ k - 1 + Len(items) # 0
        /\ Agenda(items \o Tail(todo), k - 1 + Len(items), n)
    <3> HIDE DEF m
    <3>1. m <= n
      BY DEF m
    <3> QED
      BY <1>1, <1>3, <2>1, <3>1, AgendaStep
  <2> QED
    BY <2>2
<1>5. Waiting(todo', U, insert')
  <2>1. Waiting(items \o Tail(todo), U, insert')
    BY <1>1, <1>2, WaitingStep
  <2> QED
    BY <2>1
<1>6. Len(scope') = 2 + Count(todo', <<"exit">>)
  <2> DEFINE ex == <<"exit">>
             d  == IF x = ex THEN 1 ELSE 0
  <2>1. /\ Count(todo, ex) \in Nat /\ Count(items, ex) \in Nat
        /\ Count(items \o Tail(todo), ex) + d = Count(items, ex) + Count(todo, ex)
    BY <1>2, ExitsStep
  <2>2. Count(items \o Tail(todo), ex) \in Nat
    <3>1. IsSequence(Tail(todo))
      BY <1>2, TailSequence
    <3>2. IsSequence(items \o Tail(todo))
      BY <1>2, <3>1, ConcatSequence
    <3> QED
      BY <3>2, CountType
  <2>3. Len(scope') \in Nat
    BY SequenceFacts
  <2>4. Len(scope') + d = Len(scope) + Count(items, ex)
    OBVIOUS
  <2>5. Len(scope) = 2 + Count(todo, ex) /\ d \in {0, 1}
    BY <1>1
  <2>6. todo' = items \o Tail(todo)
    OBVIOUS
  <2> HIDE DEF ex, d
  <2>7. Len(scope') = 2 + Count(items \o Tail(todo), ex)
    <3>1. \A a, b, c, l, e \in Nat :
             c + d = b + a /\ e + d = l + b /\ l = 2 + a => e = 2 + c
      BY <2>5
    <3>2. Len(scope) \in Nat
      BY <2>1, <2>5
    <3> QED
      BY <2>1, <2>2, <2>3, <2>4, <2>5, <3>1, <3>2
  <2> QED
    BY <2>6, <2>7 DEF ex
<1>7. Wf(fun') /\ Len(fun'.blocks) = n /\ Open(fun') = U
  BY DEF Shape
<1>8. insert' \in U \/ todo'[1][1] \in TestKinds
  <2>1. ASSUME items = <<>>, x[1] \notin ExprKinds \cup TermKinds \cup {"vardecl"}
        PROVE  todo'[1][1] \in TestKinds
    <3>1. /\ k \in 0..Len(todo) /\ todo[k] = <<"funend">>
          /\ \A i \in 1..(k - 1) : Follows(todo[i], todo[i + 1])
      BY <1>1 DEF Agenda
    <3>2. k # 1 /\ 1 \in 1..(k - 1)
      BY <3>1
    <3>3. Follows(todo[1], todo[2])
      BY <3>1, <3>2
    <3>4. todo[2][1] \in TestKinds
      BY <2>1, <3>3 DEF Follows
    <3>5. /\ IsSequence(Tail(todo)) /\ Len(Tail(todo)) = Len(todo) - 1
          /\ \A i \in 1..Len(Tail(todo)) : Tail(todo)[i] = todo[i + 1]
      BY <1>2, TailSequence
    <3>6. Tail(todo)[1] = todo[2]
      BY <1>2, <3>2, <3>5
    <3>7. Len(items) = 0
      BY <2>1
    <3>8. \A i \in 1..Len(Tail(todo)) : (items \o Tail(todo))[Len(items) + i] = Tail(todo)[i]
      BY <1>2, <3>5, ConcatSequence
    <3>9. 1 \in 1..Len(Tail(todo))
      BY <1>2, <3>2, <3>5
    <3>10. (items \o Tail(todo))[Len(items) + 1] = Tail(todo)[1]
      BY <3>8, <3>9
    <3>11. (items \o Tail(todo))[1] = Tail(todo)[1]
      <4>1. Len(items) + 1 = 1
        BY <3>7
      <4> QED
        BY <3>10, <4>1
    <3> QED
      BY <3>4, <3>6, <3>11
  <2> QED
    BY <2>1
<1> HIDE DEF m, j, x
<1>9. Inside(j)'
  BY <1>4, <1>5, <1>6, <1>7, <1>8 DEF Inside
<1>10. j \in 1..Len(todo')
  <2>1. IsSequence(todo') /\ j \in 0..Len(todo')
    BY <1>4 DEF Agenda
  <2> QED
    BY <1>4, <2>1
<1> QED
  BY <1>9, <1>10 DEF IInv

\* The kinds of the statements and expressions of the program.
LEMMA Syntax ==
  /\ \A p \in Programs : AST(p) \in Seq(Declarations)
  /\ \A d \in Declarations : IsDeclaration(d, Statements)
  /\ \A s \in Statements :
       IsStatement(s, {d \in Declarations : d[1] = "vardecl"}, Statements, Expressions)
  /\ \A e \in Expressions : IsExpression(e, Expressions)
BY SyntaxAssumption

\* Expressions as items.
LEMMA ExpressionItem ==
  ASSUME NEW e \in Expressions, NEW n
  PROVE  /\ IsItem(e, n) /\ e[1] \in ExprKinds
         /\ Pending(e) = {}
         /\ e[1] # "funend" /\ e # <<"exit">>
<1>1. IsExpression(e, Expressions)
  BY Syntax
<1>2. e[1] \in ExprKinds
  BY <1>1 DEF IsExpression, ExprKinds
<1>3. IsItem(e, n)
  BY <1>2 DEF IsItem, ExprKinds, StmtKinds
<1>4. Pending(e) = {}
  BY <1>2 DEF Pending, ExprKinds
<1>5. e[1] # "funend" /\ e[1] # "exit"
  BY <1>2 DEF ExprKinds
<1>6. <<"exit">>[1] = "exit"
  OBVIOUS
<1> QED
  BY <1>2, <1>3, <1>4, <1>5, <1>6

\* Statements as items.
LEMMA StatementItem ==
  ASSUME NEW s \in Statements, NEW n
  PROVE  /\ IsItem(s, n) /\ s[1] \in StmtKinds
         /\ Pending(s) = {}
         /\ s[1] # "funend" /\ s # <<"exit">>
<1>1. IsStatement(s, {d \in Declarations : d[1] = "vardecl"}, Statements, Expressions)
  BY Syntax
<1>2. s[1] \in StmtKinds
  BY <1>1 DEF IsStatement, StmtKinds
<1>3. IsItem(s, n)
  BY <1>2 DEF IsItem, ExprKinds, StmtKinds
<1>4. Pending(s) = {}
  BY <1>2 DEF Pending, StmtKinds
<1>5. s[1] # "funend" /\ s[1] # "exit"
  BY <1>2 DEF StmtKinds
<1>6. <<"exit">>[1] = "exit"
  OBVIOUS
<1> QED
  BY <1>2, <1>3, <1>4, <1>5, <1>6

\* Nothing in the place of an item.
LEMMA FitsNone ==
  ASSUME NEW x, NEW n
  PROVE  /\ Fits(x, <<>>, n) /\ PendingLast(<<>>) = {}
         /\ Count(<<>>, <<"exit">>) = 0
<1>1. IsSequence(<<>>) /\ Len(<<>>) = 0
  BY ShortSequences
<1>2. Fits(x, <<>>, n)
  BY <1>1 DEF Fits
<1>3. PendingLast(<<>>) = {}
  BY DEF PendingLast
<1> DEFINE ex == <<"exit">>
<1>4. \A i \in 1..Len(<<>>) : <<>>[i] # ex
  BY <1>1
<1> HIDE DEF ex
<1>5. Count(<<>>, ex) = 0
  BY <1>1, <1>4, CountType
<1> QED
  BY <1>2, <1>3, <1>5 DEF ex

\* One item in the place of another.
LEMMA FitsOne ==
  ASSUME NEW x, NEW n, NEW y, IsItem(y, n), y[1] # "funend", y # <<"exit">>,
         \A z : Follows(x, z) => Follows(y, z)
  PROVE  /\ Fits(x, <<y>>, n) /\ PendingLast(<<y>>) = Pending(y)
         /\ Count(<<y>>, <<"exit">>) = 0
<1> DEFINE o == <<y>>
<1>1. IsSequence(o) /\ Len(o) = 1 /\ o[1] = y /\ o # <<>>
  BY ShortSequences
<1>2. Count(o, <<"exit">>) = 0
  BY CountOne
<1> HIDE DEF o
<1>3. Fits(x, o, n)
  BY <1>1 DEF Fits
<1>4. PendingLast(o) = Pending(y)
  BY <1>1 DEF PendingLast
<1> QED
  BY <1>2, <1>3, <1>4 DEF o

\* Two items in the place of another.
LEMMA FitsTwo ==
  ASSUME NEW x, NEW n, NEW y, IsItem(y, n), y[1] # "funend", y # <<"exit">>,
         NEW w, IsItem(w, n), w[1] # "funend", w # <<"exit">>,
         Follows(y, w), Pending(y) = {},
         \A z : Follows(x, z) => Follows(w, z)
  PROVE  /\ Fits(x, <<y, w>>, n) /\ PendingLast(<<y, w>>) = Pending(w)
         /\ Count(<<y, w>>, <<"exit">>) = 0
<1> DEFINE o == <<y, w>>
<1>1. IsSequence(o) /\ Len(o) = 2 /\ o[1] = y /\ o[2] = w /\ o # <<>>
  BY ShortSequences
<1>2. Count(o, <<"exit">>) = 0
  <2>1. Count(<<y>>, <<"exit">>) = 0
    BY CountOne
  <2>2. Count(<<w>>, <<"exit">>) = 0
    BY CountOne
  <2>3. Count(o, <<"exit">>) = Count(<<y>>, <<"exit">>) + Count(<<w>>, <<"exit">>)
    BY CountTwo
  <2> QED
    BY <2>1, <2>2, <2>3
<1> HIDE DEF o
<1>3. Fits(x, o, n)
  <2>1. \A i \in 1..Len(o) : i = 1 \/ i = 2
    BY <1>1
  <2>2. \A i \in 1..(Len(o) - 1) : i = 1
    BY <1>1
  <2>3. \A i \in 1..Len(o) : IsItem(o[i], n) /\ o[i][1] # "funend"
    BY <1>1, <2>1
  <2>4. \A i \in 1..(Len(o) - 1) : Follows(o[i], o[i + 1]) /\ Pending(o[i]) = {}
    BY <1>1, <2>2
  <2> QED
    BY <1>1, <2>3, <2>4 DEF Fits
<1>4. PendingLast(o) = Pending(w)
  BY <1>1 DEF PendingLast
<1> QED
  BY <1>2, <1>3, <1>4 DEF o

\* What holds at the head of the agenda within a function.
LEMMA InsideFacts ==
  ASSUME NEW k \in 1..Len(todo), Inside(k)
  PROVE  /\ Shape(fun, Len(fun.blocks), Open(fun))
         /\ Len(fun.blocks) \in Nat /\ insert \in 1..Len(fun.blocks)
         /\ todo # <<>> /\ Head(todo) = todo[1] /\ IsSequence(todo)
         /\ todo[1][1] # "funend" => IsItem(todo[1], Len(fun.blocks))
         /\ todo[1][1] \notin TestKinds => insert \in Open(fun)
<1>1. /\ Wf(fun) /\ Agenda(todo, k, Len(fun.blocks))
      /\ insert \in 1..Len(fun.blocks)
      /\ insert \in Open(fun) \/ todo[1][1] \in TestKinds
  BY DEF Inside
<1>2. Shape(fun, Len(fun.blocks), Open(fun))
  BY <1>1 DEF Shape
<1>3. Len(fun.blocks) \in Nat
  BY <1>2, ShapeFacts
<1>4. IsSequence(todo)
  BY <1>1 DEF Agenda
<1>5. todo # <<>> /\ Head(todo) = todo[1]
  <2>1. Len(todo) # 0
    OBVIOUS
  <2>2. todo # <<>>
    BY <1>4, <2>1, SequenceFacts
  <2> QED
    BY <1>4, <2>2, TailSequence
<1>6. ASSUME todo[1][1] # "funend"
      PROVE  IsItem(todo[1], Len(fun.blocks))
  <2>1. todo[k] = <<"funend">>
    BY <1>1 DEF Agenda
  <2>2. k # 1 /\ 1 \in 1..(k - 1)
    BY <1>6, <2>1
  <2> QED
    BY <1>1, <2>2 DEF Agenda
<1> QED
  BY <1>1, <1>2, <1>3, <1>4, <1>5, <1>6

\* A visit that keeps the blocks, their open ones and the scopes.
LEMMA Continues ==
  ASSUME NEW k \in 1..Len(todo), Inside(k), IsSequence(scope),
         todo[1][1] # "funend", todo[1] # <<"exit">>, Pending(todo[1]) = {},
         insert \in Open(fun),
         NEW items, todo' = items \o Tail(todo),
         Fits(todo[1], items, Len(fun.blocks)), PendingLast(items) = {},
         Count(items, <<"exit">>) = 0,
         Shape(fun', Len(fun.blocks), Open(fun)),
         scope' = scope, insert' = insert
  PROVE  IInv'
<1> DEFINE n == Len(fun.blocks)
           U == Open(fun)
<1>1. n \in Nat /\ n <= n /\ insert' \in 1..n /\ insert' \in U
  BY InsideFacts
<1>2. U \ {insert'} = ((Open(fun) \ {insert}) \ Pending(todo[1])) \cup PendingLast(items)
  OBVIOUS
<1>3. ((Open(fun) \ {insert}) \ Pending(todo[1])) \cap PendingLast(items) = {}
  OBVIOUS
<1>4. IsSequence(scope') /\ Len(scope) \in Nat
  BY SequenceFacts
<1>5. Len(scope') + (IF todo[1] = <<"exit">> THEN 1 ELSE 0) =
           Len(scope) + Count(items, <<"exit">>)
  BY <1>4
<1>6. Shape(fun', n, U) /\ Fits(todo[1], items, n) /\ Len(fun.blocks) <= n
  BY <1>1
<1>7. \/ insert' \in U
      \/ items = <<>> /\ todo[1][1] \notin ExprKinds \cup TermKinds \cup {"vardecl"}
  BY <1>1
<1> HIDE DEF n, U
<1> QED
  BY <1>1, <1>2, <1>3, <1>4, <1>5, <1>6, <1>7, GoesOn

-----------------------------------------------------------------------------
(***************************************************************************)
(* The visits.                                                             *)
(***************************************************************************)

\* Only declarations are visited outside of a function.
LEMMA VisitInside ==
  ASSUME IInv, NEW kind, Visit(kind), kind \notin {"vardecl", "fundecl"}
  PROVE  /\ IsSequence(scope) /\ Item = todo[1] /\ todo[1][1] = kind
         /\ \E k \in 1..Len(todo) : Inside(k)
<1>1. todo # <<>> /\ Head(todo)[1] = kind
  BY DEF Visit
<1>2. IsSequence(todo)
  BY DEF IInv, Between, Inside, Agenda
<1>3. Head(todo) = todo[1] /\ Len(todo) \in Nat \ {0}
  BY <1>1, <1>2, TailSequence
<1>4. ASSUME Between
      PROVE  FALSE
  <2>1. Agenda(todo, 0, 0) /\ 1 \in (0 + 1)..Len(todo)
    BY <1>3, <1>4 DEF Between
  <2>2. todo[1] \in Declarations
    BY <2>1 DEF Agenda
  <2>3. IsDeclaration(todo[1], Statements)
    BY <2>2, Syntax
  <2>4. todo[1][1] \in {"vardecl", "fundecl"}
    BY <2>3 DEF IsDeclaration
  <2> QED
    BY <1>1, <1>3, <2>4
<1> QED
  BY <1>1, <1>3, <1>4 DEF IInv, Item

\* A visit that does not follow a statement appends to an open block.
LEMMA AtVisit ==
  ASSUME IInv, NEW kind, Visit(kind),
         kind \notin TestKinds \cup {"vardecl", "fundecl"}
  PROVE  /\ Shape(fun, Len(fun.blocks), Open(fun)) /\ Len(fun.blocks) \in Nat
         /\ insert \in Open(fun)
         /\ Item = todo[1] /\ Item[1] = kind /\ IsItem(Item, Len(fun.blocks))
         /\ Pending(Item) = {} /\ Item # <<"exit">> /\ Item[1] # "funend"
         /\ IsSequence(scope)
         /\ \E k \in 1..Len(todo) : Inside(k)
<1>1. /\ IsSequence(scope) /\ Item = todo[1] /\ todo[1][1] = kind
      /\ \E k \in 1..Len(todo) : Inside(k)
  BY VisitInside
<1>2. PICK k \in 1..Len(todo) : Inside(k)
  BY <1>1
<1>3. kind \notin TestKinds /\ kind # "funend"
  BY DEF TestKinds
<1>4. /\ Shape(fun, Len(fun.blocks), Open(fun))
      /\ Len(fun.blocks) \in Nat
      /\ todo[1][1] # "funend" => IsItem(todo[1], Len(fun.blocks))
      /\ todo[1][1] \notin TestKinds => insert \in Open(fun)
  BY <1>2, InsideFacts
<1>5. Pending(Item) = {}
  BY <1>1, <1>3 DEF Pending, TestKinds
<1>6. Item # <<"exit">>
  <2>1. <<"exit">>[1] = "exit"
    OBVIOUS
  <2> QED
    BY <1>1, <1>3, <2>1 DEF TestKinds
<1> QED
  BY <1>1, <1>3, <1>4, <1>5, <1>6

\* A visit that appends at most plain instructions and keeps the scopes.
LEMMA VisitContinues ==
  ASSUME IInv, NEW kind, Visit(kind),
         kind \notin TestKinds \cup {"vardecl", "fundecl"},
         NEW items, Then(items),
         Fits(Item, items, Len(fun.blocks)), PendingLast(items) = {},
         Count(items, <<"exit">>) = 0,
         fun' = fun \/ \E is : Plain(is) /\ fun' = Put(fun, insert, is),
         scope' = scope, insert' = insert
  PROVE  IInv'
<1>1. /\ Shape(fun, Len(fun.blocks), Open(fun)) /\ Len(fun.blocks) \in Nat
      /\ insert \in Open(fun)
      /\ Item = todo[1] /\ Item[1] = kind
      /\ Pending(Item) = {} /\ Item # <<"exit">> /\ Item[1] # "funend"
      /\ IsSequence(scope)
  BY AtVisit
<1>2. PICK k \in 1..Len(todo) : Inside(k)
  BY AtVisit
<1>3. Shape(fun', Len(fun.blocks), Open(fun))
  <2>1. CASE fun' = fun
    BY <1>1, <2>1
  <2>2. CASE \E is : Plain(is) /\ fun' = Put(fun, insert, is)
    <3>1. PICK is : Plain(is) /\ fun' = Put(fun, insert, is)
      BY <2>2
    <3>2. Shape(Put(fun, insert, is), Len(fun.blocks), Open(fun))
      BY <1>1, <3>1, ShapePlain
    <3> QED
      BY <3>1, <3>2
  <2> QED
    BY <2>1, <2>2
<1>4. todo' = items \o Tail(todo)
  BY DEF Then
<1> QED
  BY <1>1, <1>2, <1>3, <1>4, Continues

\* Expressions: a constant,
LEMMA VisitNumKeeps ==
  ASSUME IInv, VisitNum
  PROVE  IInv'
<1>1. Visit("num") /\ Then(<<>>) /\ fun' = fun /\ scope' = scope /\ insert' = insert
  BY DEF VisitNum
<1>2. "num" \notin TestKinds \cup {"vardecl", "fundecl"}
  BY DEF TestKinds
<1>3. /\ Fits(Item, <<>>, Len(fun.blocks)) /\ PendingLast(<<>>) = {}
      /\ Count(<<>>, <<"exit">>) = 0
  BY FitsNone
<1> QED
  BY <1>1, <1>2, <1>3, VisitContinues

\* and a visit of one operand that goes on with the item w after it.
LEMMA OperandFirst ==
  ASSUME IInv, NEW kind, Visit(kind), kind \in ExprKinds \cup TermKinds,
         NEW e \in Expressions, NEW w, w[1] \in TermKinds,
         IsItem(w, Len(fun.blocks)), Then(<<e, w>>),
         fun' = fun, scope' = scope, insert' = insert
  PROVE  IInv'
<1> DEFINE n == Len(fun.blocks)
<1>1. kind \notin TestKinds \cup {"vardecl", "fundecl"}
  BY DEF ExprKinds, TermKinds, TestKinds
<1>2. Item[1] = kind
  BY <1>1, AtVisit
<1>3. /\ IsItem(e, n) /\ e[1] \in ExprKinds /\ Pending(e) = {}
      /\ e[1] # "funend" /\ e # <<"exit">>
  BY ExpressionItem
<1>4. w[1] # "funend" /\ w # <<"exit">> /\ Pending(w) = {}
  <2>1. <<"exit">>[1] = "exit"
    OBVIOUS
  <2> QED
    BY <2>1 DEF TermKinds, Pending
<1>5. Follows(e, w)
  BY <1>3 DEF Follows, ExprKinds, TermKinds
<1>6. \A z : Follows(Item, z) => Follows(w, z)
  BY <1>2 DEF Follows, ExprKinds, TermKinds
<1>7. /\ Fits(Item, <<e, w>>, n) /\ PendingLast(<<e, w>>) = {}
      /\ Count(<<e, w>>, <<"exit">>) = 0
  BY <1>3, <1>4, <1>5, <1>6, FitsTwo
<1> HIDE DEF n
<1> QED
  BY <1>1, <1>7, VisitContinues DEF n

\* The end of the visit of an expression.
LEMMA ExpressionDone ==
  ASSUME IInv, NEW kind, Visit(kind),
         kind \notin TestKinds \cup {"vardecl", "fundecl"}, Then(<<>>),
         fun' = fun \/ \E is : Plain(is) /\ fun' = Put(fun, insert, is),
         scope' = scope, insert' = insert
  PROVE  IInv'
<1>1. /\ Fits(Item, <<>>, Len(fun.blocks)) /\ PendingLast(<<>>) = {}
      /\ Count(<<>>, <<"exit">>) = 0
  BY FitsNone
<1> QED
  BY <1>1, VisitContinues

\* The operands of an expression.
LEMMA Operands ==
  ASSUME IInv, NEW kind, Visit(kind), kind \in ExprKinds
  PROVE  /\ Item[1] = kind
         /\ kind \in {"elem", "assign", "rel", "arith"} => Item[3] \in Expressions
         /\ kind = "assign" => Item[2] \in Expressions
         /\ kind \in {"rel", "arith"} => Item[4] \in Expressions
         /\ kind = "call" => Item[3] \in Seq(Expressions)
<1>1. kind \notin TestKinds \cup {"vardecl", "fundecl"}
  BY DEF ExprKinds, TestKinds
<1>2. Item[1] = kind /\ IsItem(Item, Len(fun.blocks))
  BY <1>1, AtVisit
<1>3. Item \in Expressions
  BY <1>2 DEF IsItem
<1>4. IsExpression(Item, Expressions)
  BY <1>3, Syntax
<1> QED
  BY <1>2, <1>4 DEF IsExpression

\* A variable.
LEMMA VisitVarKeeps ==
  ASSUME IInv, VisitVar
  PROVE  IInv'
<1> DEFINE var == Find(Item[2])
<1>1. PICK kind \in {"var", "elem"} : Visit(kind)
  BY DEF VisitVar
<1>2. kind \in ExprKinds /\ kind \notin TestKinds \cup {"vardecl", "fundecl"}
  BY DEF ExprKinds, TestKinds
<1>3. Item[1] = kind /\ (kind = "elem" => Item[3] \in Expressions)
  BY <1>1, <1>2, Operands
<1>4. scope' = scope /\ insert' = insert
  BY DEF VisitVar
<1>5. CASE kind = "elem"
  <2> DEFINE w == <<"index", var, require_lvalue>>
  <2>1. Then(<<Item[3], w>>) /\ fun' = fun
    BY <1>3, <1>5 DEF VisitVar
  <2>2. w[1] = "index"
    OBVIOUS
  <2> HIDE DEF w
  <2>3. w[1] \in TermKinds /\ IsItem(w, Len(fun.blocks))
    BY <2>2 DEF TermKinds, IsItem, ExprKinds, StmtKinds
  <2> QED
    BY <1>1, <1>2, <1>3, <1>4, <1>5, <2>1, <2>3, OperandFirst
<1>6. CASE kind = "var"
  <2>1. Then(<<>>)
    BY <1>3, <1>6 DEF VisitVar
  <2>2. fun' = fun \/ \E is : Plain(is) /\ fun' = Put(fun, insert, is)
    <3>1. CASE require_lvalue
      BY <1>3, <1>6, <3>1 DEF VisitVar
    <3>2. CASE ~require_lvalue
      <4> DEFINE i == IF Elem(var)[1] = "arr"
                      THEN Instr("gep", fresh, <<var, Const(0, Int32)>>)
                      ELSE Instr("load", fresh, <<var>>)
      <4>1. fun' = Put(fun, insert, <<i>>)
        BY <1>3, <1>6, <3>2 DEF VisitVar, Emit
      <4>2. i.op \in {"gep", "load"}
        BY DEF Instr
      <4> HIDE DEF i
      <4>3. Plain(<<i>>)
        BY <4>2, PlainInstructions DEF Terminators
      <4> QED
        BY <4>1, <4>3
    <3> QED
      BY <3>1, <3>2
  <2> QED
    BY <1>1, <1>2, <1>4, <2>1, <2>2, ExpressionDone
<1> QED
  BY <1>5, <1>6

\* Assignments.
LEMMA VisitAssignExpressionKeeps ==
  ASSUME IInv, VisitAssignExpression
  PROVE  IInv'
<1> DEFINE w == <<"assignto", Item[2]>>
<1>1. /\ Visit("assign") /\ Then(<<Item[3], w>>)
      /\ fun' = fun /\ scope' = scope /\ insert' = insert
  BY DEF VisitAssignExpression, JustThen
<1>2. "assign" \in ExprKinds
  BY DEF ExprKinds
<1>3. Item[3] \in Expressions /\ Item[2] \in Expressions
  BY <1>1, <1>2, Operands
<1>4. w[1] = "assignto" /\ w[2] = Item[2]
  OBVIOUS
<1> HIDE DEF w
<1>5. w[1] \in TermKinds /\ IsItem(w, Len(fun.blocks))
  BY <1>3, <1>4 DEF TermKinds, IsItem, ExprKinds, StmtKinds
<1> QED
  BY <1>1, <1>2, <1>3, <1>5, OperandFirst

\* The variable that is assigned to.
LEMMA AssignToKeeps ==
  ASSUME IInv, AssignTo
  PROVE  IInv'
<1> DEFINE w == <<"store", tmp_val>>
<1>1. /\ Visit("assignto") /\ Then(<<Item[2], w>>)
      /\ fun' = fun /\ scope' = scope /\ insert' = insert
  BY DEF AssignTo
<1>2. /\ "assignto" \in ExprKinds \cup TermKinds
      /\ "assignto" \notin TestKinds \cup {"vardecl", "fundecl"}
  BY DEF TermKinds, TestKinds
<1>3. Item[1] = "assignto" /\ IsItem(Item, Len(fun.blocks))
  BY <1>1, <1>2, AtVisit
<1>4. Item[2] \in Expressions
  BY <1>3 DEF IsItem
<1>5. w[1] = "store"
  OBVIOUS
<1> HIDE DEF w
<1>6. w[1] \in TermKinds /\ IsItem(w, Len(fun.blocks))
  BY <1>5 DEF TermKinds, IsItem, ExprKinds, StmtKinds
<1> QED
  BY <1>1, <1>2, <1>4, <1>6, OperandFirst

\* The store.
LEMMA AssignStoreKeeps ==
  ASSUME IInv, AssignStore
  PROVE  IInv'
<1> DEFINE c == Convert(Item[2], Elem(tmp_val), fresh)
           i == Instr("store", 0, <<c.val, tmp_val>>)
<1>1. /\ Visit("store") /\ Then(<<>>) /\ fun' = Put(fun, insert, c.is \o <<i>>)
      /\ scope' = scope /\ insert' = insert
  BY DEF AssignStore, Emit
<1>2. Plain(c.is)
  BY ConvertPlain
<1>3. i.op = "store"
  BY DEF Instr
<1>4. "store" \notin TestKinds \cup {"vardecl", "fundecl"}
  BY DEF TestKinds
<1> HIDE DEF c, i
<1>5. Plain(<<i>>)
  BY <1>3, PlainInstructions DEF Terminators
<1>6. Plain(c.is \o <<i>>)
  BY <1>2, <1>5, PlainConcat
<1> QED
  BY <1>1, <1>4, <1>6, ExpressionDone

\* Binary expressions: the left operand,
LEMMA VisitBinaryKeeps ==
  ASSUME IInv, VisitBinary
  PROVE  IInv'
<1> DEFINE w == <<"right", Item[1], Item[2], Item[4]>>
<1>1. PICK kind \in {"rel", "arith"} : Visit(kind)
  BY DEF VisitBinary
<1>2. /\ Then(<<Item[3], w>>) /\ fun' = fun /\ scope' = scope /\ insert' = insert
  BY DEF VisitBinary, JustThen
<1>3. kind \in ExprKinds
  BY DEF ExprKinds
<1>4. Item[3] \in Expressions /\ Item[4] \in Expressions
  BY <1>1, <1>3, Operands
<1>5. w[1] = "right" /\ w[4] = Item[4]
  OBVIOUS
<1> HIDE DEF w
<1>6. w[1] \in TermKinds /\ IsItem(w, Len(fun.blocks))
  BY <1>4, <1>5 DEF TermKinds, IsItem, ExprKinds, StmtKinds
<1> QED
  BY <1>1, <1>2, <1>3, <1>4, <1>6, OperandFirst

\* the right one,
LEMMA RightOperandKeeps ==
  ASSUME IInv, RightOperand
  PROVE  IInv'
<1> DEFINE w == <<"combine", Item[2], Item[3], tmp_val>>
<1>1. /\ Visit("right") /\ Then(<<Item[4], w>>)
      /\ fun' = fun /\ scope' = scope /\ insert' = insert
  BY DEF RightOperand, JustThen
<1>2. /\ "right" \in ExprKinds \cup TermKinds
      /\ "right" \notin TestKinds \cup {"vardecl", "fundecl"}
  BY DEF TermKinds, TestKinds
<1>3. Item[1] = "right" /\ IsItem(Item, Len(fun.blocks))
  BY <1>1, <1>2, AtVisit
<1>4. Item[4] \in Expressions
  BY <1>3 DEF IsItem
<1>5. w[1] = "combine"
  OBVIOUS
<1> HIDE DEF w
<1>6. w[1] \in TermKinds /\ IsItem(w, Len(fun.blocks))
  BY <1>5 DEF TermKinds, IsItem, ExprKinds, StmtKinds
<1> QED
  BY <1>1, <1>2, <1>4, <1>6, OperandFirst

\* and the operation.
LEMMA CombineKeeps ==
  ASSUME IInv, Combine
  PROVE  IInv'
<1>1. /\ Visit("combine") /\ Then(<<>>) /\ scope' = scope /\ insert' = insert
  BY DEF Combine
<1>2. "combine" \notin TestKinds \cup {"vardecl", "fundecl"}
  BY DEF TestKinds
<1> DEFINE l     == Item[4]
           r     == tmp_val
           mixed == TypeOf(l) # TypeOf(r)
           cl    == Convert(l, IF mixed /\ IsInt(l) THEN Float ELSE TypeOf(l), fresh)
           cr    == Convert(r, IF mixed /\ ~IsInt(l) THEN Float ELSE TypeOf(r), fresh)
           a     == cl.is
           b     == cr.is
           id    == fresh + Len(a) + Len(b)
           op    == Instr(IF Item[2] = "rel" THEN "cmp" ELSE "arith", id,
                          <<IF ~mixed /\ IsInt(l) THEN "i" ELSE "f", Item[3],
                            cl.val, cr.val>>)
           o     == <<op>>
           ext   == Instr("zext", id + 1, <<Res(id, Int1)>>)
           zext  == IF Item[2] = "rel" THEN <<ext>> ELSE <<>>
<1>3. fun' = Put(fun, insert, a \o b \o o \o zext)
  BY DEF Combine, Emit
<1>4. Plain(o) /\ Plain(zext)
  <2>1. op.op \in {"cmp", "arith"} /\ ext.op = "zext"
    BY DEF Instr
  <2> HIDE DEF op, ext
  <2>2. Plain(<<op>>) /\ Plain(<<ext>>) /\ Plain(<<>>)
    BY <2>1, PlainInstructions DEF Terminators
  <2> QED
    BY <2>2
<1>5. Plain(a) /\ Plain(b)
  BY ConvertPlain
<1> HIDE DEF a, b, o, zext
<1>6. Plain(a \o b)
  BY <1>5, PlainConcat
<1>7. Plain(a \o b \o o)
  BY <1>4, <1>6, PlainConcat
<1>8. Plain(a \o b \o o \o zext)
  BY <1>4, <1>7, PlainConcat
<1> QED
  BY <1>1, <1>2, <1>3, <1>8, ExpressionDone

\* A visit that puts one other item in the place of an expression.
LEMMA GoesOnWith ==
  ASSUME IInv, NEW kind, Visit(kind), kind \in ExprKinds \cup TermKinds,
         NEW w, w[1] \in TermKinds, IsItem(w, Len(fun.blocks)), Then(<<w>>),
         fun' = fun \/ \E is : Plain(is) /\ fun' = Put(fun, insert, is),
         scope' = scope, insert' = insert
  PROVE  IInv'
<1>1. kind \notin TestKinds \cup {"vardecl", "fundecl"}
  BY DEF ExprKinds, TermKinds, TestKinds
<1>2. Item[1] = kind
  BY <1>1, AtVisit
<1>3. w[1] # "funend" /\ w # <<"exit">> /\ Pending(w) = {}
  <2>1. <<"exit">>[1] = "exit"
    OBVIOUS
  <2> QED
    BY <2>1 DEF TermKinds, Pending
<1>4. \A z : Follows(Item, z) => Follows(w, z)
  BY <1>2 DEF Follows, ExprKinds, TermKinds
<1>5. /\ Fits(Item, <<w>>, Len(fun.blocks)) /\ PendingLast(<<w>>) = {}
      /\ Count(<<w>>, <<"exit">>) = 0
  BY <1>3, <1>4, FitsOne
<1> QED
  BY <1>1, <1>5, VisitContinues

\* Calls.
LEMMA VisitCallKeeps ==
  ASSUME IInv, VisitCall
  PROVE  IInv'
<1> DEFINE w == <<"args", Find(Item[2]), Item[3], <<>>>>
<1>1. /\ Visit("call") /\ Then(<<w>>)
      /\ fun' = fun /\ scope' = scope /\ insert' = insert
  BY DEF VisitCall, JustThen
<1>2. "call" \in ExprKinds
  BY DEF ExprKinds
<1>3. Item[3] \in Seq(Expressions)
  BY <1>1, <1>2, Operands
<1>4. w[1] = "args" /\ w[3] = Item[3]
  OBVIOUS
<1> HIDE DEF w
<1>5. w[1] \in TermKinds /\ IsItem(w, Len(fun.blocks))
  BY <1>3, <1>4 DEF TermKinds, IsItem, ExprKinds, StmtKinds
<1> QED
  BY <1>1, <1>2, <1>5, GoesOnWith

\* The next argument, or the call itself.
LEMMA NextArgumentKeeps ==
  ASSUME IInv, NextArgument
  PROVE  IInv'
<1>1. Visit("args") /\ scope' = scope /\ insert' = insert
  BY DEF NextArgument
<1>2. /\ "args" \in ExprKinds \cup TermKinds
      /\ "args" \notin TestKinds \cup {"vardecl", "fundecl"}
  BY DEF TermKinds, TestKinds
<1>3. Item[1] = "args" /\ IsItem(Item, Len(fun.blocks))
  BY <1>1, <1>2, AtVisit
<1>4. Item[3] \in Seq(Expressions)
  BY <1>3 DEF IsItem
<1>5. CASE Item[3] # <<>>
  <2> DEFINE w == <<"arg", Item[2], Tail(Item[3]), Item[4]>>
  <2>1. Then(<<Head(Item[3]), w>>) /\ fun' = fun
    BY <1>5 DEF NextArgument
  <2>2. Head(Item[3]) \in Expressions /\ Tail(Item[3]) \in Seq(Expressions)
    BY <1>4, <1>5, HeadTailProperties
  <2>3. w[1] = "arg" /\ w[3] = Tail(Item[3])
    OBVIOUS
  <2> HIDE DEF w
  <2>4. w[1] \in TermKinds /\ IsItem(w, Len(fun.blocks))
    BY <2>2, <2>3 DEF TermKinds, IsItem, ExprKinds, StmtKinds
  <2> QED
    BY <1>1, <1>2, <2>1, <2>2, <2>4, OperandFirst
<1>6. CASE Item[3] = <<>>
  <2> DEFINE i == Instr("call", IF TypeOf(Item[2])[2] = Void THEN 0 ELSE fresh,
                        <<Item[2], Item[4]>>)
  <2>1. Then(<<>>) /\ fun' = Put(fun, insert, <<i>>)
    BY <1>6 DEF NextArgument, Emit
  <2>2. i.op = "call"
    BY DEF Instr
  <2> HIDE DEF i
  <2>3. Plain(<<i>>)
    BY <2>2, PlainInstructions DEF Terminators
  <2> QED
    BY <1>1, <1>2, <2>1, <2>3, ExpressionDone
<1> QED
  BY <1>5, <1>6

\* An argument.
LEMMA PassArgumentKeeps ==
  ASSUME IInv, PassArgument
  PROVE  IInv'
<1> DEFINE want == TypeOf(Item[2])[3][Len(Item[4]) + 1]
           c == IF TypeOf(tmp_val)[1] = "ptr" THEN [is |-> <<>>, val |-> tmp_val]
                ELSE Convert(tmp_val, want, fresh)
           w == <<"args", Item[2], Item[3], Append(Item[4], c.val)>>
<1>1. /\ Visit("arg") /\ Then(<<w>>) /\ fun' = Put(fun, insert, c.is)
      /\ scope' = scope /\ insert' = insert
  BY DEF PassArgument, Emit
<1>2. Plain(c.is)
  <2>1. c.is = <<>> \/ c.is = Convert(tmp_val, want, fresh).is
    OBVIOUS
  <2>2. Plain(<<>>) /\ Plain(Convert(tmp_val, want, fresh).is)
    BY ConvertPlain, PlainInstructions
  <2> QED
    BY <2>1, <2>2
<1>3. /\ "arg" \in ExprKinds \cup TermKinds
      /\ "arg" \notin TestKinds \cup {"vardecl", "fundecl"}
  BY DEF TermKinds, TestKinds
<1>4. Item[1] = "arg" /\ IsItem(Item, Len(fun.blocks))
  BY <1>1, <1>3, AtVisit
<1>5. Item[3] \in Seq(Expressions)
  BY <1>4 DEF IsItem
<1>6. w[1] = "args" /\ w[3] = Item[3]
  OBVIOUS
<1> HIDE DEF w, c
<1>7. w[1] \in TermKinds /\ IsItem(w, Len(fun.blocks))
  BY <1>5, <1>6 DEF TermKinds, IsItem, ExprKinds, StmtKinds
<1> QED
  BY <1>1, <1>2, <1>3, <1>7, GoesOnWith

\* The parts of a statement.
LEMMA Substatements ==
  ASSUME IInv, NEW kind, Visit(kind), kind \in StmtKinds
  PROVE  /\ Item[1] = kind
         /\ kind = "block" => /\ Item[2] \in Seq({d \in Declarations : d[1] = "vardecl"})
                              /\ Item[3] \in Seq(Statements)
         /\ kind \in {"expr", "return", "if", "ifelse", "while"} => Item[2] \in Expressions
         /\ kind \in {"if", "ifelse", "while"} => Item[3] \in Statements
         /\ kind = "if" => Len(Item) = 3
         /\ kind = "ifelse" => Item[4] \in Statements /\ Len(Item) = 4
<1>1. kind \notin TestKinds \cup {"vardecl", "fundecl"}
  BY DEF StmtKinds, TestKinds
<1>2. Item[1] = kind /\ IsItem(Item, Len(fun.blocks))
  BY <1>1, AtVisit
<1>3. Item \in Statements
  BY <1>2 DEF IsItem
<1>4. IsStatement(Item, {d \in Declarations : d[1] = "vardecl"}, Statements, Expressions)
  BY <1>3, Syntax
<1> QED
  BY <1>2, <1>4 DEF IsStatement

\* The visit of an expression first, then what goes on after it: w.
LEMMA ExpressionFirst ==
  ASSUME IInv, NEW kind, Visit(kind), kind \in StmtKinds,
         NEW e \in Expressions, NEW w, w[1] \in HeadKinds,
         IsItem(w, Len(fun.blocks)), Then(<<e, w>>),
         fun' = fun, scope' = scope, insert' = insert
  PROVE  IInv'
<1> DEFINE n == Len(fun.blocks)
<1>1. kind \notin TestKinds \cup {"vardecl", "fundecl"}
  BY DEF StmtKinds, TestKinds
<1>2. Item[1] = kind
  BY <1>1, AtVisit
<1>3. /\ IsItem(e, n) /\ e[1] \in ExprKinds /\ Pending(e) = {}
      /\ e[1] # "funend" /\ e # <<"exit">>
  BY ExpressionItem
<1>4. w[1] # "funend" /\ w # <<"exit">> /\ Pending(w) = {}
  <2>1. <<"exit">>[1] = "exit"
    OBVIOUS
  <2> QED
    BY <2>1 DEF HeadKinds, Pending
<1>5. Follows(e, w)
  BY <1>3 DEF Follows, ExprKinds, HeadKinds
<1>6. \A z : Follows(Item, z) => Follows(w, z)
  BY <1>2 DEF Follows, ExprKinds, TermKinds, StmtKinds, HeadKinds
<1>7. /\ Fits(Item, <<e, w>>, n) /\ PendingLast(<<e, w>>) = {}
      /\ Count(<<e, w>>, <<"exit">>) = 0
  BY <1>3, <1>4, <1>5, <1>6, FitsTwo
<1> HIDE DEF n
<1> QED
  BY <1>1, <1>7, VisitContinues DEF n

\* An expression as a statement.
LEMMA VisitExpressionStmtKeeps ==
  ASSUME IInv, VisitExpressionStmt
  PROVE  IInv'
<1> DEFINE n == Len(fun.blocks)
<1>1. PICK kind \in {"expr", "empty"} : Visit(kind)
  BY DEF VisitExpressionStmt
<1>2. kind \in StmtKinds /\ kind \notin TestKinds \cup {"vardecl", "fundecl"}
  BY DEF StmtKinds, TestKinds
<1>3. Item[1] = kind /\ (kind = "expr" => Item[2] \in Expressions)
  BY <1>1, <1>2, Substatements
<1>4. fun' = fun /\ scope' = scope /\ insert' = insert
  BY DEF VisitExpressionStmt, JustThen
<1>5. CASE kind = "empty"
  <2>1. Then(<<>>)
    BY <1>3, <1>5 DEF VisitExpressionStmt, JustThen
  <2> QED
    BY <1>1, <1>2, <1>4, <2>1, ExpressionDone
<1>6. CASE kind = "expr"
  <2> DEFINE e == Item[2]
  <2>1. Then(<<e>>)
    BY <1>3, <1>6 DEF VisitExpressionStmt, JustThen
  <2>2. /\ IsItem(e, n) /\ e[1] \in ExprKinds /\ Pending(e) = {}
        /\ e[1] # "funend" /\ e # <<"exit">>
    BY <1>3, <1>6, ExpressionItem
  <2>3. \A z : Follows(Item, z) => Follows(e, z)
    BY <1>3, <1>6, <2>2 DEF Follows, ExprKinds, TermKinds
  <2>4. /\ Fits(Item, <<e>>, n) /\ PendingLast(<<e>>) = {}
        /\ Count(<<e>>, <<"exit">>) = 0
    BY <2>2, <2>3, FitsOne
  <2> HIDE DEF e
  <2> QED
    BY <1>1, <1>2, <1>4, <2>1, <2>4, VisitContinues
<1> QED
  BY <1>5, <1>6

\* The statements of an if, the third and the fourth part of it.
LEMMA FromThird ==
  ASSUME NEW s, NEW S
  PROVE  /\ Len(s) = 3 /\ s[3] \in S =>
              SubSeq(s, 3, Len(s)) \in Seq(S) /\ Len(SubSeq(s, 3, Len(s))) = 1
         /\ Len(s) = 4 /\ s[3] \in S /\ s[4] \in S =>
              SubSeq(s, 3, Len(s)) \in Seq(S) /\ Len(SubSeq(s, 3, Len(s))) = 2
<1>1. ASSUME NEW n \in Nat, NEW q, q \in [1..n -> S]
      PROVE  q \in Seq(S) /\ Len(q) = n
  <2>1. q \in Seq(S)
    BY <1>1, SeqDef
  <2>2. Len(q) \in Nat /\ DOMAIN q = 1..Len(q) /\ DOMAIN q = 1..n
    BY <1>1, <2>1, LenProperties
  <2> QED
    BY <1>1, <2>1, <2>2
<1>2. ASSUME Len(s) = 3, s[3] \in S
      PROVE  SubSeq(s, 3, Len(s)) \in [1..1 -> S]
  <2>1. SubSeq(s, 3, Len(s)) = [i \in 1..1 |-> s[i + 2]]
    BY <1>2
  <2>2. \A i \in 1..1 : i + 2 = 3
    OBVIOUS
  <2>3. \A i \in 1..1 : s[i + 2] \in S
    BY <1>2, <2>2
  <2> QED
    BY <2>1, <2>3
<1>3. ASSUME Len(s) = 4, s[3] \in S, s[4] \in S
      PROVE  SubSeq(s, 3, Len(s)) \in [1..2 -> S]
  <2>1. SubSeq(s, 3, Len(s)) = [i \in 1..2 |-> s[i + 2]]
    BY <1>3
  <2>2. \A i \in 1..2 : i + 2 = 3 \/ i + 2 = 4
    OBVIOUS
  <2>3. \A i \in 1..2 : s[i + 2] \in S
    BY <1>3, <2>2
  <2> QED
    BY <2>1, <2>3
<1> QED
  BY <1>1, <1>2, <1>3

\* A condition that is visited first, with the statements of the if after it.
LEMMA VisitSelectionStmtKeeps ==
  ASSUME IInv, VisitSelectionStmt
  PROVE  IInv'
<1> DEFINE q == SubSeq(Item, 3, Len(Item))
           w == <<"ifbranch", q>>
<1>1. PICK kind \in {"if", "ifelse"} : Visit(kind)
  BY DEF VisitSelectionStmt
<1>2. /\ Then(<<Item[2], w>>) /\ fun' = fun /\ scope' = scope /\ insert' = insert
  BY DEF VisitSelectionStmt, JustThen
<1>3. kind \in StmtKinds
  BY DEF StmtKinds
<1>4. /\ Item[2] \in Expressions /\ Item[3] \in Statements
      /\ kind = "if" => Len(Item) = 3
      /\ kind = "ifelse" => Item[4] \in Statements /\ Len(Item) = 4
  BY <1>1, <1>3, Substatements
<1>5. q \in Seq(Statements) /\ Len(q) \in {1, 2}
  <2>1. CASE kind = "if"
    <3>1. Len(Item) = 3 /\ Item[3] \in Statements
      BY <1>4, <2>1
    <3>2. q \in Seq(Statements) /\ Len(q) = 1
      BY <3>1, FromThird
    <3> QED
      BY <3>2
  <2>2. CASE kind = "ifelse"
    <3>1. Len(Item) = 4 /\ Item[3] \in Statements /\ Item[4] \in Statements
      BY <1>4, <2>2
    <3>2. q \in Seq(Statements) /\ Len(q) = 2
      BY <3>1, FromThird
    <3> QED
      BY <3>2
  <2> QED
    BY <2>1, <2>2
<1> HIDE DEF q
<1>6. w[1] = "ifbranch" /\ w[2] = q
  OBVIOUS
<1> HIDE DEF w
<1>7. w[1] \in HeadKinds /\ IsItem(w, Len(fun.blocks))
  BY <1>5, <1>6 DEF HeadKinds, IsItem, ExprKinds, StmtKinds
<1> QED
  BY <1>1, <1>2, <1>3, <1>4, <1>7, ExpressionFirst

\* A return: its value first, or the ret.
LEMMA VisitReturnStmtKeeps ==
  ASSUME IInv, VisitReturnStmt, Item[1] = "return"
  PROVE  IInv'
<1> DEFINE w == <<"ret">>
<1>1. Visit("return")
  BY DEF VisitReturnStmt, Visit, Item
<1>2. /\ Then(<<Item[2], w>>) /\ fun' = fun /\ scope' = scope /\ insert' = insert
  BY DEF VisitReturnStmt
<1>3. "return" \in StmtKinds
  BY DEF StmtKinds
<1>4. Item[2] \in Expressions
  BY <1>1, <1>3, Substatements
<1>5. w[1] = "ret"
  OBVIOUS
<1> HIDE DEF w
<1>6. w[1] \in HeadKinds /\ IsItem(w, Len(fun.blocks))
  BY <1>5 DEF HeadKinds, IsItem, ExprKinds, StmtKinds
<1> QED
  BY <1>1, <1>2, <1>3, <1>4, <1>6, ExpressionFirst

\* A ret ends the insert block.
LEMMA Returns ==
  ASSUME IInv, NEW kind, Visit(kind), kind \in {"ret", "retvoid"},
         NEW is, Returning(is), fun' = Put(fun, insert, is), Then(<<>>),
         scope' = scope, insert' = insert
  PROVE  IInv'
<1> DEFINE n == Len(fun.blocks)
           U == Open(fun) \ {insert}
           none == <<>>
<1>1. kind \notin TestKinds \cup {"vardecl", "fundecl"}
  BY DEF TestKinds
<1>2. /\ Shape(fun, n, Open(fun)) /\ n \in Nat
      /\ insert \in Open(fun)
      /\ Item = todo[1] /\ Item[1] = kind
      /\ Pending(Item) = {} /\ Item # <<"exit">> /\ Item[1] # "funend"
      /\ IsSequence(scope)
  BY <1>1, AtVisit
<1>3. PICK k \in 1..Len(todo) : Inside(k)
  BY <1>1, AtVisit
<1>4. Shape(fun', n, U)
  <2>1. Shape(Put(fun, insert, is), n, U)
    BY <1>2, ShapeReturn
  <2> QED
    BY <2>1
<1>5. insert' \in 1..n
  BY <1>3, InsideFacts
<1>6. /\ Fits(todo[1], none, n) /\ PendingLast(none) = {}
      /\ Count(none, <<"exit">>) = 0
  BY FitsNone
<1>7. todo[1][1] \notin ExprKinds \cup TermKinds \cup {"vardecl"}
  BY <1>2 DEF ExprKinds, TermKinds
<1>8. U \ {insert'} = ((Open(fun) \ {insert}) \ Pending(todo[1])) \cup PendingLast(none)
  BY <1>2, <1>6
<1>9. ((Open(fun) \ {insert}) \ Pending(todo[1])) \cap PendingLast(none) = {}
  BY <1>6
<1>10. IsSequence(scope') /\ Len(scope) \in Nat
  BY <1>2, SequenceFacts
<1>11. Len(scope') + (IF todo[1] = <<"exit">> THEN 1 ELSE 0) =
           Len(scope) + Count(none, <<"exit">>)
  BY <1>2, <1>6, <1>10
<1>12. todo' = none \o Tail(todo)
  BY DEF Then
<1>13. \/ insert' \in U
       \/ none = <<>> /\ todo[1][1] \notin ExprKinds \cup TermKinds \cup {"vardecl"}
  BY <1>7
<1>14. todo[1][1] # "funend" /\ Len(fun.blocks) <= n
  BY <1>2
<1> HIDE DEF n, U, none
<1> QED
  BY <1>2, <1>3, <1>4, <1>5, <1>6, <1>8, <1>9, <1>10, <1>11, <1>12, <1>13, <1>14, GoesOn

\* A return without a value.
LEMMA ReturnVoidKeeps ==
  ASSUME IInv, VisitReturnStmt, Item[1] # "return"
  PROVE  IInv'
<1> DEFINE r == Instr("ret", 0, <<>>)
<1>1. Visit("retvoid") /\ Item[1] = "retvoid"
  BY DEF VisitReturnStmt, Visit, Item
<1>2. /\ fun' = Put(fun, insert, <<r>>) /\ Then(<<>>)
      /\ scope' = scope /\ insert' = insert
  BY <1>1 DEF VisitReturnStmt, Emit
<1>3. r.op = "ret"
  BY DEF Instr
<1> HIDE DEF r
<1>4. Returning(<<r>>)
  BY <1>3, ReturningInstructions
<1> QED
  BY <1>1, <1>2, <1>4, Returns

\* The ret of a value.
LEMMA ReturnValueKeeps ==
  ASSUME IInv, ReturnValue
  PROVE  IInv'
<1> DEFINE c == Convert(tmp_val, fun.type, fresh)
           r == Instr("ret", 0, <<c.val>>)
<1>1. /\ Visit("ret") /\ fun' = Put(fun, insert, c.is \o <<r>>) /\ Then(<<>>)
      /\ scope' = scope /\ insert' = insert
  BY DEF ReturnValue, Emit
<1>2. Plain(c.is)
  BY ConvertPlain
<1>3. r.op = "ret"
  BY DEF Instr
<1> HIDE DEF c, r
<1>4. Returning(c.is \o <<r>>)
  BY <1>2, <1>3, ReturningInstructions
<1> QED
  BY <1>1, <1>4, Returns

\* A statement in the place of x, and the test w after it.
LEMMA FitsStatement ==
  ASSUME NEW x, x[1] \notin ExprKinds \cup TermKinds \cup {"vardecl"},
         NEW s \in Statements, NEW n, NEW w, IsItem(w, n),
         w[1] \in TestKinds \ {"exit", "funend"}
  PROVE  /\ Fits(x, <<s, w>>, n) /\ PendingLast(<<s, w>>) = Pending(w)
         /\ Count(<<s, w>>, <<"exit">>) = 0
<1>1. /\ IsItem(s, n) /\ s[1] \in StmtKinds /\ Pending(s) = {}
      /\ s[1] # "funend" /\ s # <<"exit">>
  BY StatementItem
<1>2. w[1] # "funend" /\ w # <<"exit">>
  <2>1. <<"exit">>[1] = "exit"
    OBVIOUS
  <2> QED
    BY <2>1
<1>3. Follows(s, w)
  BY <1>1 DEF Follows, ExprKinds, TermKinds, StmtKinds
<1>4. \A z : Follows(x, z) => Follows(w, z)
  BY DEF Follows, ExprKinds, TermKinds, TestKinds
<1> QED
  BY <1>1, <1>2, <1>3, <1>4, FitsTwo

\* The statements of a compound statement, one after the other,
LEMMA NextStatementKeeps ==
  ASSUME IInv, NextStatement
  PROVE  IInv'
<1>1. Visit("list") /\ fun' = fun /\ scope' = scope /\ insert' = insert
  BY DEF NextStatement, JustThen
<1>2. "list" \notin TestKinds \cup {"vardecl", "fundecl"}
  BY DEF TestKinds
<1>3. Item[1] = "list" /\ IsItem(Item, Len(fun.blocks))
  BY <1>1, <1>2, AtVisit
<1>4. Item[2] \in Seq(Statements)
  BY <1>3 DEF IsItem
<1>5. CASE Item[2] = <<>>
  <2>1. Then(<<>>)
    BY <1>5 DEF NextStatement, JustThen
  <2> QED
    BY <1>1, <1>2, <2>1, ExpressionDone
<1>6. CASE Item[2] # <<>>
  <2> DEFINE s == Head(Item[2])
             w == <<"listnext", Tail(Item[2])>>
  <2>1. Then(<<s, w>>)
    BY <1>6 DEF NextStatement, JustThen
  <2>2. s \in Statements /\ Tail(Item[2]) \in Seq(Statements)
    BY <1>4, <1>6, HeadTailProperties
  <2>3. w[1] = "listnext" /\ w[2] = Tail(Item[2])
    OBVIOUS
  <2> HIDE DEF s, w
  <2>4. /\ w[1] \in TestKinds \ {"exit", "funend"} /\ IsItem(w, Len(fun.blocks))
        /\ Pending(w) = {}
    BY <2>2, <2>3 DEF TestKinds, IsItem, ExprKinds, StmtKinds, Pending
  <2>5. Item[1] \notin ExprKinds \cup TermKinds \cup {"vardecl"}
    BY <1>3 DEF ExprKinds, TermKinds
  <2>6. /\ Fits(Item, <<s, w>>, Len(fun.blocks)) /\ PendingLast(<<s, w>>) = {}
        /\ Count(<<s, w>>, <<"exit">>) = 0
    BY <2>2, <2>4, <2>5, FitsStatement
  <2> QED
    BY <1>1, <1>2, <2>1, <2>6, VisitContinues
<1> QED
  BY <1>5, <1>6

\* A visit that goes on in another block, with the blocks in P waited for.
LEMMA Moves ==
  ASSUME NEW k \in 1..Len(todo), Inside(k), IsSequence(scope),
         todo[1][1] # "funend", todo[1] # <<"exit">>,
         NEW items, Then(items), NEW n \in Nat, Len(fun.blocks) <= n,
         NEW U, Shape(fun', n, U), Fits(todo[1], items, n),
         NEW P, PendingLast(items) = P, Count(items, <<"exit">>) = 0,
         insert' \in U,
         U \ {insert'} = ((Open(fun) \ {insert}) \ Pending(todo[1])) \cup P,
         ((Open(fun) \ {insert}) \ Pending(todo[1])) \cap P = {},
         scope' = scope
  PROVE  IInv'
<1>1. IsSequence(scope') /\ Len(scope) \in Nat
  BY SequenceFacts
<1>2. Len(scope') + (IF todo[1] = <<"exit">> THEN 1 ELSE 0) =
           Len(scope) + Count(items, <<"exit">>)
  BY <1>1
<1>3. insert' \in 1..n
  BY ShapeFacts
<1>4. todo' = items \o Tail(todo)
  BY DEF Then
<1>5. \/ insert' \in U
      \/ items = <<>> /\ todo[1][1] \notin ExprKinds \cup TermKinds \cup {"vardecl"}
  OBVIOUS
<1>6. /\ U \ {insert'} = ((Open(fun) \ {insert}) \ Pending(todo[1])) \cup PendingLast(items)
      /\ ((Open(fun) \ {insert}) \ Pending(todo[1])) \cap PendingLast(items) = {}
  OBVIOUS
<1> QED
  BY <1>1, <1>2, <1>3, <1>4, <1>5, <1>6, GoesOn

\* A visit that looks whether a statement returned.
LEMMA AtTest ==
  ASSUME IInv, NEW kind, Visit(kind), kind \in TestKinds \ {"exit", "funend"}
  PROVE  /\ Shape(fun, Len(fun.blocks), Open(fun)) /\ Len(fun.blocks) \in Nat
         /\ insert \in 1..Len(fun.blocks)
         /\ Item = todo[1] /\ Item[1] = kind /\ IsItem(Item, Len(fun.blocks))
         /\ Item # <<"exit">> /\ Item[1] # "funend"
         /\ Item[1] \notin ExprKinds \cup TermKinds \cup {"vardecl"}
         /\ Pending(Item) \subseteq Open(fun) \ {insert}
         /\ IsSequence(scope)
         /\ \E k \in 1..Len(todo) : Inside(k)
<1>1. kind \notin {"vardecl", "fundecl"}
  BY DEF TestKinds
<1>2. /\ IsSequence(scope) /\ Item = todo[1] /\ todo[1][1] = kind
      /\ \E k \in 1..Len(todo) : Inside(k)
  BY <1>1, VisitInside
<1>3. PICK k \in 1..Len(todo) : Inside(k)
  BY <1>2
<1>4. /\ Shape(fun, Len(fun.blocks), Open(fun))
      /\ Len(fun.blocks) \in Nat /\ insert \in 1..Len(fun.blocks)
      /\ todo[1][1] # "funend" => IsItem(todo[1], Len(fun.blocks))
  BY <1>3, InsideFacts
<1>5. Item # <<"exit">>
  <2>1. <<"exit">>[1] = "exit"
    OBVIOUS
  <2> QED
    BY <1>2, <2>1
<1>6. Pending(todo[1]) \subseteq Open(fun) \ {insert}
  <2>1. 1 \in 1..Len(todo)
    OBVIOUS
  <2> QED
    BY <1>3, <2>1 DEF Inside, Waiting
<1>7. Item[1] \notin ExprKinds \cup TermKinds \cup {"vardecl"}
  BY <1>2 DEF TestKinds, ExprKinds, TermKinds
<1> QED
  BY <1>2, <1>4, <1>5, <1>6, <1>7

\* After a statement: on to the next one, or out of the list.
LEMMA AfterStatementKeeps ==
  ASSUME IInv, AfterStatement
  PROVE  IInv'
<1> DEFINE n == Len(fun.blocks)
           none == <<>>
<1>1. Visit("listnext") /\ fun' = fun /\ scope' = scope /\ insert' = insert
  BY DEF AfterStatement, JustThen
<1>2. "listnext" \in TestKinds \ {"exit", "funend"}
  BY DEF TestKinds
<1>3. /\ Shape(fun, n, Open(fun)) /\ n \in Nat /\ insert \in 1..n
      /\ Item = todo[1] /\ Item[1] = "listnext" /\ IsItem(Item, n)
      /\ Item # <<"exit">> /\ Item[1] # "funend"
      /\ Item[1] \notin ExprKinds \cup TermKinds \cup {"vardecl"}
      /\ IsSequence(scope)
  BY <1>1, <1>2, AtTest
<1>4. PICK k \in 1..Len(todo) : Inside(k)
  BY <1>1, <1>2, AtTest
<1>5. Pending(todo[1]) = {}
  BY <1>3 DEF Pending
<1>6. CASE LeavesList
  <2>1. todo' = none \o Tail(todo)
    BY <1>6 DEF AfterStatement, JustThen, Then
  <2>2. /\ Fits(todo[1], none, n) /\ PendingLast(none) = {}
        /\ Count(none, <<"exit">>) = 0
    BY FitsNone
  <2>3. /\ Open(fun) \ {insert'} =
             ((Open(fun) \ {insert}) \ Pending(todo[1])) \cup PendingLast(none)
        /\ ((Open(fun) \ {insert}) \ Pending(todo[1])) \cap PendingLast(none) = {}
    BY <1>1, <1>5, <2>2
  <2>4. IsSequence(scope') /\ Len(scope) \in Nat
    BY <1>1, <1>3, SequenceFacts
  <2>5. Len(scope') + (IF todo[1] = <<"exit">> THEN 1 ELSE 0) =
             Len(scope) + Count(none, <<"exit">>)
    BY <1>1, <1>3, <2>2, <2>4
  <2>6. \/ insert' \in Open(fun)
        \/ none = <<>> /\ todo[1][1] \notin ExprKinds \cup TermKinds \cup {"vardecl"}
    BY <1>3
  <2>7. /\ todo[1][1] # "funend" /\ n <= n
        /\ Shape(fun', n, Open(fun)) /\ insert' \in 1..n
    BY <1>1, <1>3
  <2> HIDE DEF none
  <2> QED
    BY <1>3, <1>4, <2>1, <2>2, <2>3, <2>4, <2>5, <2>6, <2>7, GoesOn
<1>7. CASE ~LeavesList
  <2> DEFINE w == <<"list", Item[2]>>
  <2>1. todo' = <<w>> \o Tail(todo)
    BY <1>7 DEF AfterStatement, JustThen, Then
  <2>2. insert \in Open(fun)
    BY <1>3, <1>7 DEF LeavesList, Open
  <2>3. w[1] = "list" /\ w[2] = Item[2]
    OBVIOUS
  <2>4. Item[2] \in Seq(Statements)
    BY <1>3 DEF IsItem
  <2> HIDE DEF w
  <2>5. IsItem(w, n) /\ w[1] # "funend" /\ Pending(w) = {}
    BY <2>3, <2>4 DEF IsItem, ExprKinds, StmtKinds, Pending
  <2>6. w # <<"exit">>
    <3>1. <<"exit">>[1] = "exit"
      OBVIOUS
    <3> QED
      BY <2>3, <3>1
  <2>7. \A z : Follows(todo[1], z) => Follows(w, z)
    BY <1>3, <2>3 DEF Follows, ExprKinds, TermKinds
  <2>8. /\ Fits(todo[1], <<w>>, n) /\ PendingLast(<<w>>) = {}
        /\ Count(<<w>>, <<"exit">>) = 0
    BY <2>5, <2>6, <2>7, FitsOne
  <2>9. Shape(fun', n, Open(fun))
    BY <1>1, <1>3
  <2> QED
    BY <1>1, <1>3, <1>4, <1>5, <2>1, <2>2, <2>8, <2>9, Continues
<1> QED
  BY <1>6, <1>7

\* After the statements of a block its scope is left.
LEMMA ExitScopeKeeps ==
  ASSUME IInv, ExitScope
  PROVE  IInv'
<1> DEFINE n == Len(fun.blocks)
           none == <<>>
           ex == <<"exit">>
<1>1. /\ Visit("exit") /\ fun' = fun /\ insert' = insert
      /\ scope' = Exit(scope) /\ todo' = none \o Tail(todo)
  BY DEF ExitScope, Then
<1>2. /\ IsSequence(scope) /\ Item = todo[1] /\ todo[1][1] = "exit"
      /\ \E k \in 1..Len(todo) : Inside(k)
  BY <1>1, VisitInside
<1>3. PICK k \in 1..Len(todo) : Inside(k)
  BY <1>2
<1>4. /\ Shape(fun, n, Open(fun)) /\ n \in Nat /\ insert \in 1..n
      /\ IsItem(todo[1], n) /\ todo # <<>> /\ IsSequence(todo)
  BY <1>2, <1>3, InsideFacts
<1>5. todo[1] = ex /\ Pending(todo[1]) = {}
  BY <1>2, <1>4 DEF IsItem, Pending
<1>6. todo[1][1] \notin ExprKinds \cup TermKinds \cup {"vardecl"}
  BY <1>2 DEF ExprKinds, TermKinds
<1>7. /\ Fits(todo[1], none, n) /\ PendingLast(none) = {}
      /\ Count(none, ex) = 0
  BY FitsNone
<1>8. Len(scope) \in Nat /\ Len(scope) > 2
  <2>1. Len(scope) = 2 + Count(todo, ex)
    BY <1>3 DEF Inside
  <2>2. Count(todo, ex) = 1 + Count(Tail(todo), ex)
    BY <1>4, <1>5, CountHead
  <2>3. IsSequence(Tail(todo))
    BY <1>4, TailSequence
  <2>4. Count(Tail(todo), ex) \in Nat
    BY <2>3, CountType
  <2> HIDE DEF ex
  <2> QED
    BY <2>1, <2>2, <2>4
<1>9. IsSequence(scope') /\ Len(scope') = Len(scope) - 1
  <2>1. Exit(scope) = [i \in 1..(Len(scope) - 1) |-> scope[i]]
    BY <1>8 DEF Exit
  <2>2. Exit(scope) = [i \in 1..(Len(scope) - 1) |-> Exit(scope)[i]]
    BY <2>1
  <2>3. Len(scope) - 1 \in Nat
    BY <1>8
  <2>4. IsSequence(Exit(scope)) /\ Len(Exit(scope)) = Len(scope) - 1
    BY <2>2, <2>3, FunctionIsSequence
  <2> QED
    BY <1>1, <2>4
<1>10. Len(scope') + (IF todo[1] = ex THEN 1 ELSE 0) = Len(scope) + Count(none, ex)
  BY <1>5, <1>7, <1>8, <1>9
<1>11. /\ Open(fun) \ {insert'} =
            ((Open(fun) \ {insert}) \ Pending(todo[1])) \cup PendingLast(none)
       /\ ((Open(fun) \ {insert}) \ Pending(todo[1])) \cap PendingLast(none) = {}
  BY <1>1, <1>5, <1>7
<1>12. \/ insert' \in Open(fun)
       \/ none = <<>> /\ todo[1][1] \notin ExprKinds \cup TermKinds \cup {"vardecl"}
  BY <1>6
<1>13. /\ todo[1][1] # "funend" /\ n <= n
       /\ Shape(fun', n, Open(fun)) /\ insert' \in 1..n
  BY <1>1, <1>2, <1>4
<1> HIDE DEF none
<1> QED
  BY <1>1, <1>3, <1>4, <1>7, <1>9, <1>10, <1>11, <1>12, <1>13, GoesOn

\* The branch of an if.
LEMMA SelectionBranchKeeps ==
  ASSUME IInv, SelectionBranch
  PROVE  IInv'
<1> DEFINE n  == Len(fun.blocks)
           stmts == Item[2]
           q  == Len(stmts)
           m  == n + (q + 1)
           t  == n + 1
           e  == IF q = 1 THEN n + 2 ELSE n + 3
           i  == NotZero(tmp_val, fresh)
           g  == NewBlocks(fun, q + 1)
           f  == Put(g, insert, <<i>>)
           v  == Res(fresh, Int1)
           s  == stmts[1]
           w  == <<"iftrue", Tail(stmts), n + 2>>
           N  == (n + 1)..m
           U  == (Open(fun) \cup N) \ {insert}
           P  == (n + 2)..m
<1>1. /\ Visit("ifbranch") /\ fun' = CondBr(f, insert, v, t, e)
      /\ insert' = t /\ Then(<<s, w>>) /\ scope' = scope
  BY DEF SelectionBranch
<1>2. "ifbranch" \notin TestKinds \cup {"vardecl", "fundecl"}
  BY DEF TestKinds
<1>3. /\ Shape(fun, n, Open(fun)) /\ n \in Nat /\ insert \in Open(fun)
      /\ Item = todo[1] /\ Item[1] = "ifbranch" /\ IsItem(Item, n)
      /\ Pending(Item) = {} /\ Item # <<"exit">> /\ Item[1] # "funend"
      /\ IsSequence(scope)
  BY <1>1, <1>2, AtVisit
<1>4. PICK k \in 1..Len(todo) : Inside(k)
  BY <1>1, <1>2, AtVisit
<1>5. stmts \in Seq(Statements) /\ q \in {1, 2}
  BY <1>3 DEF IsItem
<1>6. s \in Statements /\ Tail(stmts) \in Seq(Statements) /\ Len(Tail(stmts)) = q - 1
  <2>1. stmts # <<>>
    BY <1>5
  <2> HIDE DEF stmts
  <2> QED
    BY <1>5, <2>1, HeadTailProperties
<1>7. w[1] = "iftrue" /\ w[2] = Tail(stmts) /\ w[3] = n + 2
  OBVIOUS
<1>8. Open(fun) \subseteq 1..n
  BY <1>3, ShapeFacts
<1>9. i.op = "cmp"
  BY DEF NotZero, Instr
<1> HIDE DEF n, stmts, q, i, v, s, w
<1>10. Plain(<<i>>)
  BY <1>9, PlainInstructions DEF Terminators
<1>11. /\ q + 1 \in Nat /\ m \in Nat /\ n <= m
       /\ t \in 1..m /\ e \in 1..m /\ t # e
       /\ N = {t} \cup P /\ t \notin P /\ N \cap 1..n = {} /\ P = (n + 2)..(n + 2 + (q - 1))
  BY <1>3, <1>5
<1>12. Shape(g, m, Open(fun) \cup N)
  BY <1>3, <1>11, ShapeNew
<1> HIDE DEF g
<1>13. Shape(f, m, Open(fun) \cup N)
  BY <1>3, <1>10, <1>12, ShapePlain
<1> HIDE DEF f
<1>14. Shape(CondBr(f, insert, v, t, e), m, U)
  <2>1. insert \in Open(fun) \cup N
    BY <1>3
  <2> HIDE DEF m, t, e, N
  <2> QED
    BY <1>11, <1>13, <2>1, ShapeCondBr
<1>15. Shape(fun', m, U)
  BY <1>1, <1>14
<1>16. /\ IsItem(w, m) /\ w[1] \in TestKinds \ {"exit", "funend"}
       /\ Pending(w) = P
  <2>1. n + 2 \in 1..m /\ q - 1 \in {0, 1}
    BY <1>3, <1>5
  <2>2. w[2] \in Seq(Statements) /\ Len(w[2]) \in {0, 1} /\ w[3] \in 1..m
    BY <1>6, <1>7, <2>1
  <2>3. IsItem(w, m)
    BY <1>7, <2>2 DEF IsItem, TestKinds, ExprKinds, StmtKinds
  <2>4. Pending(w) = (n + 2)..(n + 2 + (q - 1))
    BY <1>6, <1>7 DEF Pending
  <2>5. w[1] \in TestKinds \ {"exit", "funend"}
    BY <1>7 DEF TestKinds
  <2> QED
    BY <1>11, <2>3, <2>4, <2>5
<1>17. /\ Fits(todo[1], <<s, w>>, m) /\ PendingLast(<<s, w>>) = P
       /\ Count(<<s, w>>, <<"exit">>) = 0
  <2>1. todo[1][1] \notin ExprKinds \cup TermKinds \cup {"vardecl"}
    BY <1>3 DEF ExprKinds, TermKinds
  <2> HIDE DEF m, P
  <2> QED
    BY <1>6, <1>16, <2>1, FitsStatement
<1>18. insert' \in U /\ t # insert
  BY <1>1, <1>3, <1>8, <1>11
<1>19. /\ U \ {insert'} = ((Open(fun) \ {insert}) \ Pending(todo[1])) \cup P
       /\ ((Open(fun) \ {insert}) \ Pending(todo[1])) \cap P = {}
  <2>1. insert \notin N /\ t \notin Open(fun)
    BY <1>3, <1>8, <1>11
  <2>2. insert' = t /\ Pending(todo[1]) = {}
    BY <1>1, <1>3
  <2> HIDE DEF N, P, t
  <2>3. ((Open(fun) \cup N) \ {insert}) \ {t} = (Open(fun) \ {insert}) \cup P
    BY <1>11, <2>1
  <2>4. Open(fun) \cap P = {}
    BY <1>8, <1>11
  <2> QED
    BY <2>2, <2>3, <2>4
<1>20. Len(fun.blocks) <= m
  BY <1>11 DEF n
<1> HIDE DEF m, P, U, N, t, e
<1> QED
  BY <1>1, <1>3, <1>4, <1>11, <1>15, <1>17, <1>18, <1>19, <1>20, Moves

\* The end of the true branch.
LEMMA SelectionElseKeeps ==
  ASSUME IInv, SelectionElse
  PROVE  IInv'
<1> DEFINE n == Len(fun.blocks)
           c == Item[3]
           U == Open(fun) \ {insert}
<1>1. Visit("iftrue") /\ fun' = BrUnlessTerminated(fun, insert, c) /\ scope' = scope
  BY DEF SelectionElse
<1>2. "iftrue" \in TestKinds \ {"exit", "funend"}
  BY DEF TestKinds
<1>3. /\ Shape(fun, n, Open(fun)) /\ n \in Nat /\ insert \in 1..n
      /\ Item = todo[1] /\ Item[1] = "iftrue" /\ IsItem(Item, n)
      /\ Item # <<"exit">> /\ Item[1] # "funend"
      /\ Item[1] \notin ExprKinds \cup TermKinds \cup {"vardecl"}
      /\ Pending(Item) \subseteq U
      /\ IsSequence(scope)
  BY <1>1, <1>2, AtTest
<1>4. PICK k \in 1..Len(todo) : Inside(k)
  BY <1>1, <1>2, AtTest
<1>5. Item[2] \in Seq(Statements) /\ Len(Item[2]) \in {0, 1} /\ c \in 1..n
  BY <1>3 DEF IsItem
<1>6. Shape(fun', n, U)
  <2>1. Shape(BrUnlessTerminated(fun, insert, c), n, Open(fun) \ {insert})
    BY <1>3, <1>5, ShapeBrUnless
  <2> QED
    BY <1>1, <2>1
<1>7. Pending(Item) = c..(c + Len(Item[2]))
  BY <1>3 DEF Pending
<1>8. CASE Item[2] = <<>>
  <2> DEFINE none == <<>>
  <2>1. insert' = c /\ Then(none)
    BY <1>8 DEF SelectionElse
  <2>2. Len(Item[2]) = 0
    BY <1>8
  <2>3. Pending(todo[1]) = {c}
    BY <1>3, <1>5, <1>7, <2>2
  <2>4. /\ Fits(todo[1], none, n) /\ PendingLast(none) = {}
        /\ Count(none, <<"exit">>) = 0
    BY FitsNone
  <2>5. insert' \in U /\ U \ {insert'} = (U \ Pending(todo[1])) \cup {}
    BY <1>3, <2>1, <2>3
  <2>6. (U \ Pending(todo[1])) \cap {} = {} /\ n <= n
    BY <1>3
  <2> HIDE DEF none
  <2> QED
    BY <1>1, <1>3, <1>4, <1>6, <2>1, <2>4, <2>5, <2>6, Moves
<1>9. CASE Item[2] # <<>>
  <2> DEFINE s == Item[2][1]
             w == <<"iffalse", c>>
  <2>1. insert' = c + 1 /\ Then(<<s, w>>)
    BY <1>9 DEF SelectionElse
  <2>2. Len(Item[2]) = 1 /\ s \in Statements
    <3>1. Len(Item[2]) # 0
      BY <1>5, <1>9, EmptySeq
    <3>2. Len(Item[2]) = 1
      BY <1>5, <3>1
    <3> QED
      BY <1>5, <3>2, ElementOfSeq
  <2>3. Pending(todo[1]) = {c, c + 1} /\ c # c + 1
    BY <1>3, <1>5, <1>7, <2>2
  <2>4. w[1] = "iffalse" /\ w[2] = c
    OBVIOUS
  <2> HIDE DEF s, w
  <2>5. /\ IsItem(w, n) /\ w[1] \in TestKinds \ {"exit", "funend"}
        /\ Pending(w) = {c}
    BY <2>4 DEF IsItem, Pending, TestKinds, ExprKinds, StmtKinds
  <2>6. /\ Fits(todo[1], <<s, w>>, n) /\ PendingLast(<<s, w>>) = {c}
        /\ Count(<<s, w>>, <<"exit">>) = 0
    BY <1>3, <2>2, <2>5, FitsStatement
  <2>7. insert' \in U /\ U \ {insert'} = (U \ Pending(todo[1])) \cup {c}
    BY <1>3, <2>1, <2>3
  <2>8. (U \ Pending(todo[1])) \cap {c} = {} /\ n <= n
    BY <1>3, <2>3
  <2> QED
    BY <1>1, <1>3, <1>4, <1>6, <2>1, <2>6, <2>7, <2>8, Moves
<1> QED
  BY <1>8, <1>9

\* The end of a statement after which the builder goes on in the block c.
LEMMA GoesTo ==
  ASSUME IInv, NEW kind, Visit(kind), kind \in TestKinds \ {"exit", "funend"},
         NEW t \in 1..Len(fun.blocks), NEW c, Pending(Item) = {c},
         fun' = BrUnlessTerminated(fun, insert, t), insert' = c, Then(<<>>),
         scope' = scope
  PROVE  IInv'
<1> DEFINE n == Len(fun.blocks)
           U == Open(fun) \ {insert}
           none == <<>>
<1>1. /\ Shape(fun, n, Open(fun)) /\ n \in Nat /\ insert \in 1..n
      /\ Item = todo[1] /\ Item # <<"exit">> /\ Item[1] # "funend"
      /\ Pending(Item) \subseteq U
      /\ IsSequence(scope)
  BY AtTest
<1>2. PICK k \in 1..Len(todo) : Inside(k)
  BY AtTest
<1>3. Shape(fun', n, U)
  <2>1. Shape(BrUnlessTerminated(fun, insert, t), n, Open(fun) \ {insert})
    BY <1>1, ShapeBrUnless
  <2> QED
    BY <2>1
<1>4. /\ Fits(todo[1], none, n) /\ PendingLast(none) = {}
      /\ Count(none, <<"exit">>) = 0
  BY FitsNone
<1>5. insert' \in U /\ U \ {insert'} = (U \ Pending(todo[1])) \cup {}
  BY <1>1
<1>6. (U \ Pending(todo[1])) \cap {} = {} /\ n <= n
  BY <1>1
<1>7. Then(none)
  OBVIOUS
<1> HIDE DEF none
<1> QED
  BY <1>1, <1>2, <1>3, <1>4, <1>5, <1>6, <1>7, Moves

\* The end of an else.
LEMMA SelectionEndKeeps ==
  ASSUME IInv, SelectionEnd
  PROVE  IInv'
<1>1. /\ Visit("iffalse") /\ fun' = BrUnlessTerminated(fun, insert, Item[2])
      /\ insert' = Item[2] /\ Then(<<>>) /\ scope' = scope
  BY DEF SelectionEnd
<1>2. "iffalse" \in TestKinds \ {"exit", "funend"}
  BY DEF TestKinds
<1>3. /\ Shape(fun, Len(fun.blocks), Open(fun)) /\ Item[1] = "iffalse"
      /\ Pending(Item) \subseteq Open(fun) \ {insert}
  BY <1>1, <1>2, AtTest
<1>4. Pending(Item) = {Item[2]}
  BY <1>3 DEF Pending
<1>5. Item[2] \in 1..Len(fun.blocks)
  BY <1>3, <1>4, ShapeFacts
<1> QED
  BY <1>1, <1>2, <1>4, <1>5, GoesTo

\* The end of the body of a while.
LEMMA IterationEndKeeps ==
  ASSUME IInv, IterationEnd
  PROVE  IInv'
<1>1. /\ Visit("whileend") /\ fun' = BrUnlessTerminated(fun, insert, Item[2])
      /\ insert' = Item[3] /\ Then(<<>>) /\ scope' = scope
  BY DEF IterationEnd
<1>2. "whileend" \in TestKinds \ {"exit", "funend"}
  BY DEF TestKinds
<1>3. Item[1] = "whileend" /\ IsItem(Item, Len(fun.blocks))
  BY <1>1, <1>2, AtTest
<1>4. Pending(Item) = {Item[3]} /\ Item[2] \in 1..Len(fun.blocks)
  BY <1>3 DEF Pending, IsItem
<1> QED
  BY <1>1, <1>2, <1>4, GoesTo

\* A while: its condition gets a block.
LEMMA VisitIterationStmtKeeps ==
  ASSUME IInv, VisitIterationStmt
  PROVE  IInv'
<1> DEFINE n == Len(fun.blocks)
           m == n + 1
           e == Item[2]
           w == <<"whilebranch", Item[3], m>>
           g == NewBlocks(fun, 1)
           N == (n + 1)..m
           U == (Open(fun) \cup N) \ {insert}
<1>1. /\ Visit("while") /\ fun' = BrUnlessTerminated(g, insert, m)
      /\ insert' = m /\ Then(<<e, w>>) /\ scope' = scope
  BY DEF VisitIterationStmt
<1>2. "while" \notin TestKinds \cup {"vardecl", "fundecl"} /\ "while" \in StmtKinds
  BY DEF TestKinds, StmtKinds
<1>3. /\ Shape(fun, n, Open(fun)) /\ n \in Nat /\ insert \in Open(fun)
      /\ Item = todo[1] /\ Item[1] = "while"
      /\ Pending(Item) = {} /\ Item # <<"exit">> /\ Item[1] # "funend"
      /\ IsSequence(scope)
  BY <1>1, <1>2, AtVisit
<1>4. PICK k \in 1..Len(todo) : Inside(k)
  BY <1>1, <1>2, AtVisit
<1>5. e \in Expressions /\ Item[3] \in Statements
  BY <1>1, <1>2, Substatements
<1>6. w[1] = "whilebranch" /\ w[2] = Item[3] /\ w[3] = m
  OBVIOUS
<1>7. Open(fun) \subseteq 1..n
  BY <1>3, ShapeFacts
<1> HIDE DEF n, e, w
<1>8. m \in Nat /\ n <= m /\ m \in 1..m /\ N = {m} /\ N \cap 1..n = {} /\ 1 \in Nat
  BY <1>3
<1>9. Shape(g, m, Open(fun) \cup N)
  BY <1>3, <1>8, ShapeNew
<1> HIDE DEF g
<1>10. Shape(fun', m, U)
  <2>1. insert \in 1..m
    BY <1>3, <1>7, <1>8
  <2> HIDE DEF m, N
  <2>2. Shape(BrUnlessTerminated(g, insert, m), m, U)
    BY <1>8, <1>9, <2>1, ShapeBrUnless
  <2> QED
    BY <1>1, <2>2
<1>11. /\ Fits(todo[1], <<e, w>>, m) /\ PendingLast(<<e, w>>) = {}
       /\ Count(<<e, w>>, <<"exit">>) = 0
  <2>1. /\ IsItem(e, m) /\ e[1] \in ExprKinds /\ Pending(e) = {}
        /\ e[1] # "funend" /\ e # <<"exit">>
    BY <1>5, ExpressionItem
  <2>2. IsItem(w, m) /\ w[1] # "funend" /\ Pending(w) = {}
    BY <1>5, <1>6, <1>8 DEF IsItem, HeadKinds, ExprKinds, StmtKinds, Pending
  <2>3. w # <<"exit">>
    <3>1. <<"exit">>[1] = "exit"
      OBVIOUS
    <3> QED
      BY <1>6, <3>1
  <2>4. Follows(e, w)
    BY <1>6, <2>1 DEF Follows, ExprKinds, HeadKinds
  <2>5. \A z : Follows(todo[1], z) => Follows(w, z)
    BY <1>3, <1>6 DEF Follows, ExprKinds, TermKinds
  <2> QED
    BY <2>1, <2>2, <2>3, <2>4, <2>5, FitsTwo
<1>12. insert' \in U
  BY <1>1, <1>3, <1>7, <1>8
<1>13. /\ U \ {insert'} = ((Open(fun) \ {insert}) \ Pending(todo[1])) \cup {}
       /\ ((Open(fun) \ {insert}) \ Pending(todo[1])) \cap {} = {}
  <2>1. m \notin Open(fun)
    BY <1>7, <1>8
  <2> QED
    BY <1>1, <1>3, <1>8, <2>1
<1>14. Len(fun.blocks) <= m
  BY <1>8 DEF n
<1> HIDE DEF m, N, U
<1> QED
  BY <1>1, <1>3, <1>4, <1>8, <1>10, <1>11, <1>12, <1>13, <1>14, Moves

\* The condition is built: the body gets a block, and what follows the while.
LEMMA IterationBranchKeeps ==
  ASSUME IInv, IterationBranch
  PROVE  IInv'
<1> DEFINE n == Len(fun.blocks)
           m == n + 2
           t == n + 1
           i == NotZero(tmp_val, fresh)
           v == Res(fresh, Int1)
           g == NewBlocks(fun, 2)
           f == Put(g, insert, <<i>>)
           s == Item[2]
           w == <<"whileend", Item[3], m>>
           N == (n + 1)..m
           U == (Open(fun) \cup N) \ {insert}
<1>1. /\ Visit("whilebranch") /\ fun' = CondBr(f, insert, v, t, m)
      /\ insert' = t /\ Then(<<s, w>>) /\ scope' = scope
  BY DEF IterationBranch
<1>2. "whilebranch" \notin TestKinds \cup {"vardecl", "fundecl"}
  BY DEF TestKinds
<1>3. /\ Shape(fun, n, Open(fun)) /\ n \in Nat /\ insert \in Open(fun)
      /\ Item = todo[1] /\ Item[1] = "whilebranch" /\ IsItem(Item, n)
      /\ Pending(Item) = {} /\ Item # <<"exit">> /\ Item[1] # "funend"
      /\ IsSequence(scope)
  BY <1>1, <1>2, AtVisit
<1>4. PICK k \in 1..Len(todo) : Inside(k)
  BY <1>1, <1>2, AtVisit
<1>5. s \in Statements /\ Item[3] \in 1..n
  BY <1>3 DEF IsItem
<1>6. w[1] = "whileend" /\ w[2] = Item[3] /\ w[3] = m
  OBVIOUS
<1>7. Open(fun) \subseteq 1..n
  BY <1>3, ShapeFacts
<1>8. i.op = "cmp"
  BY DEF NotZero, Instr
<1> HIDE DEF n, i, v, s, w
<1>9. Plain(<<i>>)
  BY <1>8, PlainInstructions DEF Terminators
<1>10. /\ m \in Nat /\ n <= m /\ t \in 1..m /\ m \in 1..m /\ t # m /\ 2 \in Nat
       /\ N = {t, m} /\ N \cap 1..n = {} /\ 1..n \subseteq 1..m
  BY <1>3
<1>11. Shape(g, m, Open(fun) \cup N)
  BY <1>3, <1>10, ShapeNew
<1> HIDE DEF g
<1>12. Shape(f, m, Open(fun) \cup N)
  BY <1>3, <1>9, <1>11, ShapePlain
<1> HIDE DEF f
<1>13. Shape(fun', m, U)
  <2>1. insert \in Open(fun) \cup N
    BY <1>3
  <2> HIDE DEF m, t, N
  <2>2. Shape(CondBr(f, insert, v, t, m), m, U)
    BY <1>10, <1>12, <2>1, ShapeCondBr
  <2> QED
    BY <1>1, <2>2
<1> HIDE DEF m, t
<1>14. /\ IsItem(w, m) /\ w[1] \in TestKinds \ {"exit", "funend"}
       /\ Pending(w) = {m}
  <2>1. w[1] \in TestKinds \ {"exit", "funend"} /\ Pending(w) = {m}
    BY <1>6 DEF TestKinds, Pending
  <2>2. w[2] \in 1..m
    BY <1>5, <1>6, <1>10
  <2>3. IsItem(w, m)
    BY <1>6, <2>2 DEF IsItem, TestKinds, ExprKinds, StmtKinds
  <2> QED
    BY <2>1, <2>3
<1>15. /\ Fits(todo[1], <<s, w>>, m) /\ PendingLast(<<s, w>>) = {m}
       /\ Count(<<s, w>>, <<"exit">>) = 0
  <2>1. todo[1][1] \notin ExprKinds \cup TermKinds \cup {"vardecl"}
    BY <1>3 DEF ExprKinds, TermKinds
  <2> QED
    BY <1>5, <1>14, <2>1, FitsStatement
<1> HIDE DEF N
<1>16. t \notin Open(fun) /\ m \notin Open(fun)
  BY <1>7, <1>10
<1>17. insert' \in U
  BY <1>1, <1>3, <1>10, <1>16
<1>18. /\ U \ {insert'} = ((Open(fun) \ {insert}) \ Pending(todo[1])) \cup {m}
       /\ ((Open(fun) \ {insert}) \ Pending(todo[1])) \cap {m} = {}
  BY <1>1, <1>3, <1>10, <1>16
<1>19. Len(fun.blocks) <= m
  BY <1>10 DEF n
<1> HIDE DEF U
<1> QED
  BY <1>1, <1>3, <1>4, <1>10, <1>13, <1>15, <1>17, <1>18, <1>19, Moves

\* The check of an index, and the element.
LEMMA IndexedVarKeeps ==
  ASSUME IInv, IndexedVar
  PROVE  IInv'
<1> DEFINE n      == Len(fun.blocks)
           m      == n + 2
           t      == n + 1
           var    == Item[2]
           lvalue == Item[3]
           idx    == IF TypeOf(tmp_val) = Float THEN Convert(tmp_val, Int32, fresh)
                     ELSE [is |-> <<>>, val |-> tmp_val]
           a      == idx.is
           neg    == fresh + Len(a)
           isptr  == Elem(var)[1] = "ptr"
           base   == IF isptr THEN Res(neg + 1, Elem(var)) ELSE var
           load1  == Instr("load", neg + 1, <<var>>)
           loads  == IF isptr THEN <<load1>> ELSE <<>>
           addr   == neg + 1 + Len(loads)
           ty     == IF Elem(var)[1] \in {"arr", "ptr"} THEN Elem(var)[2] ELSE Elem(var)
           cmp    == Instr("cmp", neg, <<"i", "<", idx.val, Const(0, Int32)>>)
           gep    == Instr("gep", addr, <<base, idx.val>>)
           load2  == Instr("load", addr + 1, <<Res(addr, Ptr(ty))>>)
           last   == IF lvalue THEN <<>> ELSE <<load2>>
           call   == Instr("call", 0, <<Find("neg_idx_except"), <<>>>>)
           ret    == DefaultRet(fun)
           v      == Res(neg, Int1)
           g      == NewBlocks(fun, 2)
           f1     == Put(g, insert, a \o <<cmp>>)
           f2     == CondBr(f1, insert, v, t, m)
           f3     == Put(f2, t, <<call, ret>>)
           f4     == Put(f3, m, loads \o <<gep>> \o last)
           N      == (n + 1)..m
           V      == (Open(fun) \cup N) \ {insert}
           U      == V \ {t}
           none   == <<>>
<1>1. /\ Visit("index") /\ fun' = f4 /\ insert' = m /\ Then(none) /\ scope' = scope
  BY DEF IndexedVar, AfterCheck
<1>2. "index" \notin TestKinds \cup {"vardecl", "fundecl"}
  BY DEF TestKinds
<1>3. /\ Shape(fun, n, Open(fun)) /\ n \in Nat /\ insert \in Open(fun)
      /\ Item = todo[1] /\ Item[1] = "index"
      /\ Pending(Item) = {} /\ Item # <<"exit">> /\ Item[1] # "funend"
      /\ IsSequence(scope)
  BY <1>1, <1>2, AtVisit
<1>4. PICK k \in 1..Len(todo) : Inside(k)
  BY <1>1, <1>2, AtVisit
<1>5. Open(fun) \subseteq 1..n
  BY <1>3, ShapeFacts
<1>6. Plain(a)
  <2>1. a = <<>> \/ a = Convert(tmp_val, Int32, fresh).is
    OBVIOUS
  <2>2. Plain(<<>>) /\ Plain(Convert(tmp_val, Int32, fresh).is)
    BY ConvertPlain, PlainInstructions
  <2> QED
    BY <2>1, <2>2
<1>7. /\ load1.op = "load" /\ cmp.op = "cmp" /\ gep.op = "gep" /\ load2.op = "load"
      /\ call.op = "call" /\ ret.op = "ret"
  BY DEF Instr, DefaultRet
<1>8. loads \in {<<>>, <<load1>>} /\ last \in {<<>>, <<load2>>}
  OBVIOUS
<1> HIDE DEF n, a, load1, loads, cmp, gep, load2, last, call, ret, v
<1>9. Plain(a \o <<cmp>>)
  <2>1. Plain(<<cmp>>)
    BY <1>7, PlainInstructions DEF Terminators
  <2> QED
    BY <1>6, <2>1, PlainConcat
<1>10. Plain(loads \o <<gep>> \o last)
  <2>1. Plain(<<>>) /\ Plain(<<load1>>) /\ Plain(<<load2>>) /\ Plain(<<gep>>)
    BY <1>7, PlainInstructions DEF Terminators
  <2>2. Plain(loads) /\ Plain(last)
    BY <1>8, <2>1
  <2>3. Plain(loads \o <<gep>>)
    BY <2>1, <2>2, PlainConcat
  <2> QED
    BY <2>2, <2>3, PlainConcat
<1>11. Returning(<<call, ret>>)
  <2> DEFINE o == <<call, ret>>
  <2>1. IsSequence(o) /\ Len(o) = 2 /\ o[1] = call /\ o[2] = ret
    BY ShortSequences
  <2>2. o # <<>>
    OBVIOUS
  <2> HIDE DEF o
  <2>3. \A i \in 1..(Len(o) - 1) : i = 1
    BY <2>1
  <2>4. \A i \in 1..(Len(o) - 1) : o[i].op \notin Terminators
    BY <1>7, <2>1, <2>3 DEF Terminators
  <2>5. o[Len(o)].op = "ret"
    BY <1>7, <2>1
  <2>6. Returning(o)
    BY <2>1, <2>2, <2>4, <2>5 DEF Returning
  <2> QED
    BY <2>6 DEF o
<1>12. /\ m \in Nat /\ n <= m /\ t \in 1..m /\ m \in 1..m /\ t # m /\ 2 \in Nat
       /\ N = {t, m} /\ N \cap 1..n = {}
  BY <1>3
<1>13. Shape(g, m, Open(fun) \cup N)
  BY <1>3, <1>12, ShapeNew
<1> HIDE DEF g
<1>14. Shape(f1, m, Open(fun) \cup N)
  BY <1>3, <1>9, <1>13, ShapePlain
<1> HIDE DEF f1
<1>15. insert \in Open(fun) \cup N /\ insert # t /\ insert # m
  BY <1>3, <1>5, <1>12
<1> HIDE DEF m, t
<1>16. Shape(f2, m, V)
  <2> HIDE DEF N
  <2> QED
    BY <1>12, <1>14, <1>15, ShapeCondBr
<1> HIDE DEF f2, N
<1>17. t \in V /\ m \in U
  BY <1>12, <1>15
<1>18. Shape(f3, m, U)
  <2> HIDE DEF V
  <2> QED
    BY <1>11, <1>16, <1>17, ShapeReturn
<1> HIDE DEF f3
<1>19. Shape(f4, m, U)
  <2> HIDE DEF U
  <2> QED
    BY <1>10, <1>17, <1>18, ShapePlain
<1> HIDE DEF f4
<1>20. Shape(fun', m, U)
  BY <1>1, <1>19
<1>21. t \notin Open(fun) /\ m \notin Open(fun)
  BY <1>5, <1>12
<1>22. insert' \in U
  BY <1>1, <1>17
<1>23. /\ U \ {insert'} = ((Open(fun) \ {insert}) \ Pending(todo[1])) \cup {}
       /\ ((Open(fun) \ {insert}) \ Pending(todo[1])) \cap {} = {}
  BY <1>1, <1>3, <1>12, <1>21
<1>24. /\ Fits(todo[1], none, m) /\ PendingLast(none) = {}
       /\ Count(none, <<"exit">>) = 0
  BY FitsNone
<1>25. Len(fun.blocks) <= m
  BY <1>12 DEF n
<1> HIDE DEF U, V, none
<1> QED
  BY <1>1, <1>3, <1>4, <1>12, <1>20, <1>22, <1>23, <1>24, <1>25, Moves

\* A name enters the innermost scope.
LEMMA PushKeeps ==
  ASSUME NEW s, IsSequence(s), Len(s) # 0, NEW id, NEW v
  PROVE  IsSequence(Push(s, id, v)) /\ Len(Push(s, id, v)) = Len(s)
<1> DEFINE w == s[Len(s)] @@ (id :> v)
<1>1. Len(s) \in 1..Len(s)
  BY SequenceFacts
<1>2. Push(s, id, v) = [s EXCEPT ![Len(s)] = w]
  BY DEF Push
<1> HIDE DEF w
<1>3. Updated([s EXCEPT ![Len(s)] = w], s, Len(s), w)
  BY <1>1, ExceptSequence
<1> QED
  BY <1>2, <1>3 DEF Updated

\* A scope is opened,
LEMMA AppendKeeps ==
  ASSUME NEW s, IsSequence(s), NEW x
  PROVE  IsSequence(Append(s, x)) /\ Len(Append(s, x)) = Len(s) + 1
<1> DEFINE R == Range(s) \cup {x}
<1>1. s \in Seq(R) /\ x \in R
  <2>1. Range(s) \subseteq R
    OBVIOUS
  <2> QED
    BY <2>1, SeqMonotonic DEF IsSequence
<1> HIDE DEF R
<1>2. Append(s, x) \in Seq(R) /\ Len(Append(s, x)) = Len(s) + 1
  BY <1>1, AppendProperties
<1> QED
  BY <1>2, MemberIsSequence

\* and left.
LEMMA ExitKeeps ==
  ASSUME NEW s, IsSequence(s), Len(s) # 0
  PROVE  IsSequence(Exit(s)) /\ Len(Exit(s)) = Len(s) - 1
<1>1. Len(s) \in Nat /\ Len(s) - 1 \in Nat
  BY SequenceFacts
<1>2. Exit(s) = [i \in 1..(Len(s) - 1) |-> s[i]]
  BY <1>1 DEF Exit
<1>3. Exit(s) = [i \in 1..(Len(s) - 1) |-> Exit(s)[i]]
  BY <1>2
<1> QED
  BY <1>1, <1>3, FunctionIsSequence

\* Declarations are no items of a function, but for those of variables.
LEMMA DeclarationItem ==
  ASSUME NEW d \in Declarations, NEW n
  PROVE  /\ d[1] \in {"vardecl", "fundecl"}
         /\ d[1] = "vardecl" => IsItem(d, n)
         /\ Pending(d) = {} /\ d[1] # "funend" /\ d # <<"exit">>
<1>1. IsDeclaration(d, Statements)
  BY Syntax
<1>2. d[1] \in {"vardecl", "fundecl"}
  BY <1>1 DEF IsDeclaration
<1>3. d[1] = "vardecl" => IsItem(d, n)
  BY DEF IsItem, ExprKinds, StmtKinds
<1>4. Pending(d) = {}
  BY <1>2 DEF Pending
<1>5. <<"exit">>[1] = "exit"
  OBVIOUS
<1> QED
  BY <1>2, <1>3, <1>4, <1>5

\* The agenda of declarations only, after its first one.
LEMMA AgendaTail ==
  ASSUME NEW t, IsSequence(t), t # <<>>,
         \A i \in 2..Len(t) : t[i] \in Declarations
  PROVE  Agenda(<<>> \o Tail(t), 0, 0)
<1> DEFINE r == Tail(t)
           e == <<>>
           u == e \o r
<1>1. /\ IsSequence(r) /\ Len(r) = Len(t) - 1
      /\ \A i \in 1..Len(r) : r[i] = t[i + 1]
      /\ Len(t) \in Nat \ {0}
  BY TailSequence
<1>2. IsSequence(e) /\ Len(e) = 0
  BY ShortSequences
<1> HIDE DEF e, r
<1>3. /\ IsSequence(u) /\ Len(u) = Len(e) + Len(r)
      /\ \A i \in 1..Len(r) : u[Len(e) + i] = r[i]
  BY <1>1, <1>2, ConcatSequence
<1> HIDE DEF u
<1>4. ASSUME NEW i \in 1..Len(u)
      PROVE  u[i] \in Declarations
  <2>1. i \in 1..Len(r) /\ i + 1 \in 2..Len(t) /\ Len(e) + i = i
    BY <1>1, <1>2, <1>3
  <2>2. u[Len(e) + i] = r[i] /\ r[i] = t[i + 1]
    BY <1>1, <1>3, <2>1
  <2> QED
    BY <2>1, <2>2
<1>5. Agenda(u, 0, 0)
  <2>1. Len(u) \in Nat
    BY <1>3, SequenceFacts
  <2>2. 0 \in 0..Len(u) /\ (0 + 1)..Len(u) = 1..Len(u) /\ 1..(0 - 1) = {}
    BY <2>1
  <2> QED
    BY <1>3, <1>4, <2>2 DEF Agenda
<1> QED
  BY <1>5 DEF u, e, r

\* Variables: global ones, and those of a function.
LEMMA VisitVarDeclarationKeeps ==
  ASSUME IInv, VisitVarDeclaration
  PROVE  IInv'
<1> DEFINE none == <<>>
<1>1. Visit("vardecl") /\ todo' = none \o Tail(todo) /\ insert' = insert
  BY DEF VisitVarDeclaration, Then
<1>2. PICK v : scope' = Push(scope, Item[2], v)
  BY DEF VisitVarDeclaration
<1>3. IsSequence(scope)
  BY DEF IInv
<1>4. CASE Between
  <2>1. Agenda(todo, 0, 0) /\ Len(scope) = 1 /\ (fun # << >> => Wf(fun) /\ Open(fun) = {})
    BY <1>4 DEF Between
  <2>2. fun' = fun
    BY <2>1 DEF VisitVarDeclaration, InGlobal
  <2>3. IsSequence(scope') /\ Len(scope') = 1
    BY <1>2, <1>3, <2>1, PushKeeps
  <2>4. IsSequence(todo) /\ \A i \in (0 + 1)..Len(todo) : todo[i] \in Declarations
    BY <2>1 DEF Agenda
  <2>5. todo # <<>>
    BY <1>1 DEF Visit
  <2>6. \A i \in 2..Len(todo) : todo[i] \in Declarations
    <3>1. Len(todo) \in Nat
      BY <2>4, SequenceFacts
    <3>2. \A i \in 2..Len(todo) : i \in (0 + 1)..Len(todo)
      BY <3>1
    <3> QED
      BY <2>4, <3>2
  <2>7. Agenda(todo', 0, 0)
    <3>1. Agenda(<<>> \o Tail(todo), 0, 0)
      BY <2>4, <2>5, <2>6, AgendaTail
    <3> QED
      BY <1>1, <3>1
  <2>8. fun' # << >> => Wf(fun') /\ Open(fun') = {}
    BY <2>1, <2>2
  <2>9. Between'
    BY <2>3, <2>7, <2>8 DEF Between
  <2> QED
    BY <2>3, <2>9 DEF IInv
<1>5. CASE \E k \in 1..Len(todo) : Inside(k)
  <2> DEFINE n == Len(fun.blocks)
  <2>1. PICK k \in 1..Len(todo) : Inside(k)
    BY <1>5
  <2>2. /\ Shape(fun, n, Open(fun)) /\ n \in Nat /\ insert \in 1..n
        /\ todo # <<>> /\ Head(todo) = todo[1] /\ IsSequence(todo)
        /\ todo[1][1] \notin TestKinds => insert \in Open(fun)
    BY <2>1, InsideFacts
  <2>3. Item = todo[1] /\ todo[1][1] = "vardecl" /\ insert \in Open(fun)
    BY <1>1, <2>2 DEF Visit, Item, TestKinds
  <2>4. Len(scope) \in Nat /\ Len(scope) # 0 /\ Len(scope) # 1
    <3>1. Len(scope) = 2 + Count(todo, <<"exit">>)
      BY <2>1 DEF Inside
    <3>2. Count(todo, <<"exit">>) \in Nat
      BY <2>2, CountType
    <3> QED
      BY <3>1, <3>2
  <2>5. IsSequence(scope') /\ Len(scope') = Len(scope)
    BY <1>2, <1>3, <2>4, PushKeeps
  <2>6. Shape(fun', n, Open(fun))
    <3> DEFINE t == IF Item[4] = 0 THEN Item[3] ELSE Arr(Item[3])
               i == Instr("alloca", fresh, <<t, Item[4]>>)
    <3>1. fun' = Put(fun, insert, <<i>>)
      BY <2>4 DEF VisitVarDeclaration, InGlobal, Emit
    <3>2. i.op = "alloca"
      BY DEF Instr
    <3> HIDE DEF i
    <3>3. Plain(<<i>>)
      BY <3>2, PlainInstructions DEF Terminators
    <3>4. Shape(Put(fun, insert, <<i>>), n, Open(fun))
      BY <2>2, <2>3, <3>3, ShapePlain
    <3> QED
      BY <3>1, <3>4
  <2>7. Pending(todo[1]) = {} /\ todo[1] # <<"exit">> /\ todo[1][1] # "funend"
    <3>1. <<"exit">>[1] = "exit"
      OBVIOUS
    <3> QED
      BY <2>3, <3>1 DEF Pending
  <2>8. /\ Fits(todo[1], none, n) /\ PendingLast(none) = {}
        /\ Count(none, <<"exit">>) = 0
    BY FitsNone
  <2>9. /\ Open(fun) \ {insert'} =
             ((Open(fun) \ {insert}) \ Pending(todo[1])) \cup PendingLast(none)
        /\ ((Open(fun) \ {insert}) \ Pending(todo[1])) \cap PendingLast(none) = {}
    BY <1>1, <2>7, <2>8
  <2>10. Len(scope') + (IF todo[1] = <<"exit">> THEN 1 ELSE 0) =
             Len(scope) + Count(none, <<"exit">>)
    BY <2>4, <2>5, <2>7, <2>8
  <2>11. \/ insert' \in Open(fun)
         \/ none = <<>> /\ todo[1][1] \notin ExprKinds \cup TermKinds \cup {"vardecl"}
    BY <1>1, <2>3
  <2>12. n <= n /\ insert' \in 1..n
    BY <1>1, <2>2
  <2> HIDE DEF none
  <2> QED
    BY <1>1, <2>1, <2>2, <2>5, <2>6, <2>7, <2>8, <2>9, <2>10, <2>11, <2>12, GoesOn
<1> QED
  BY <1>4, <1>5 DEF IInv

\* A function with one block, which is open.
LEMMA NewFunction ==
  ASSUME NEW name, NEW type, NEW params, NEW is, Plain(is),
         NEW f, f = [name |-> name, type |-> type, params |-> params,
                     blocks |-> <<is>>, pre |-> <<<<>>>>, succ |-> <<<<>>>>]
  PROVE  Shape(f, 1, {1})
<1> DEFINE none == <<>>
<1>1. /\ f.blocks = <<is>> /\ f.pre = <<none>> /\ f.succ = <<none>>
      /\ f = With(f, f.blocks, f.pre, f.succ)
  BY DEF With
<1>2. IsSequence(none) /\ Len(none) = 0
  BY ShortSequences
<1>3. /\ IsSequence(f.blocks) /\ Len(f.blocks) = 1 /\ f.blocks[1] = is
      /\ IsSequence(f.pre) /\ Len(f.pre) = 1 /\ f.pre[1] = none
      /\ IsSequence(f.succ) /\ Len(f.succ) = 1 /\ f.succ[1] = none
  BY <1>1, ShortSequences
<1>4. /\ IsSequence(is) /\ Len(is) \in Nat /\ (is = <<>> <=> Len(is) = 0)
      /\ \A i \in 1..Len(is) : is[i].op \notin Terminators
  BY SequenceFacts DEF Plain
<1>5. is # <<>> => is[Len(is)].op \notin {"br", "condbr", "ret"}
  BY <1>4 DEF Terminators
<1>6. ~Terminated(f, 1)
  BY <1>3, <1>5 DEF Terminated
<1>7. Targets(f, 1) = none
  <2>1. is # <<>> => is[Len(is)].op # "br" /\ is[Len(is)].op # "condbr"
    BY <1>5
  <2>2. f.blocks[1] = is
    BY <1>3
  <2> QED
    BY <2>1, <2>2 DEF Targets
<1>8. Within(none, 1) /\ \A p \in 1..1 : p = 1
  BY <1>2 DEF Within
<1>9. \A b \in 1..Len(f.blocks) : b = 1
  BY <1>3
<1>10. \A i \in 1..(Len(f.blocks[1]) - 1) : f.blocks[1][i].op \notin Terminators
  BY <1>3, <1>4
<1> HIDE DEF none
<1>11. \A b \in 1..Len(f.blocks) :
         /\ IsSequence(f.blocks[b]) /\ IsSequence(f.pre[b]) /\ IsSequence(f.succ[b])
         /\ \A i \in 1..(Len(f.blocks[b]) - 1) : f.blocks[b][i].op \notin Terminators
         /\ f.succ[b] = Targets(f, b)
         /\ Within(f.pre[b], Len(f.blocks)) /\ Within(f.succ[b], Len(f.blocks))
         /\ \A p \in 1..Len(f.blocks) : Count(f.pre[b], p) = Count(f.succ[p], b)
  <2>1. IsSequence(f.blocks[1]) /\ IsSequence(f.pre[1]) /\ IsSequence(f.succ[1])
    BY <1>2, <1>3, <1>4
  <2>2. Within(f.pre[1], Len(f.blocks)) /\ Within(f.succ[1], Len(f.blocks))
    BY <1>3, <1>8
  <2>3. Count(f.pre[1], 1) = Count(f.succ[1], 1) /\ f.succ[1] = Targets(f, 1)
    BY <1>3, <1>7
  <2> QED
    BY <1>9, <1>10, <2>1, <2>2, <2>3
<1>12. Wf(f)
  BY <1>1, <1>3, <1>11 DEF Wf
<1>13. Open(f) = {1}
  BY <1>3, <1>6 DEF Open
<1> QED
  BY <1>3, <1>12, <1>13 DEF Shape

\* What is known at a declaration of a function.
LEMMA AtFunction ==
  ASSUME IInv, Visit("fundecl")
  PROVE  /\ IsSequence(todo) /\ todo # <<>> /\ Item = todo[1]
         /\ Between /\ IsSequence(scope) /\ Len(scope) = 1
         /\ \A i \in 1..Len(todo) : todo[i] \in Declarations
<1>1. todo # <<>> /\ Item[1] = "fundecl" /\ Item = Head(todo)
  BY DEF Visit, Item
<1>2. ASSUME NEW k \in 1..Len(todo), Inside(k)
      PROVE  FALSE
  <2>1. /\ Head(todo) = todo[1]
        /\ todo[1][1] # "funend" => IsItem(todo[1], Len(fun.blocks))
    BY <1>2, InsideFacts
  <2>2. IsItem(todo[1], Len(fun.blocks)) /\ todo[1][1] = "fundecl"
    BY <1>1, <2>1
  <2> QED
    BY <2>2 DEF IsItem, ExprKinds, TermKinds, StmtKinds, HeadKinds, TestKinds
<1>3. Between /\ IsSequence(scope)
  BY <1>2 DEF IInv
<1>4. Agenda(todo, 0, 0) /\ Len(scope) = 1
  BY <1>3 DEF Between
<1>5. IsSequence(todo) /\ \A i \in (0 + 1)..Len(todo) : todo[i] \in Declarations
  BY <1>4 DEF Agenda
<1>6. Head(todo) = todo[1]
  BY <1>1, <1>5, TailSequence
<1> QED
  BY <1>1, <1>3, <1>4, <1>5, <1>6

\* A function begins.
LEMMA VisitFunDeclarationKeeps ==
  ASSUME IInv, VisitFunDeclaration
  PROVE  IInv'
<1> DEFINE params == Item[4]
           types  == [i \in 1..Len(params) |-> ParamType(params[i])]
           self   == <<"func", Item[2], <<"fun", Item[3], types>>>>
           stores == [k \in 1..(2 * Len(params)) |->
                        LET i == (k + 1) \div 2 IN
                        IF k % 2 = 1 THEN Instr("alloca", i, <<types[i], 0>>)
                        ELSE Instr("store", 0, <<<<"arg", i, types[i]>>,
                                                 Res(i, Ptr(types[i]))>>)]
           body   == Item[5]
           end    == <<"funend">>
           ex     == <<"exit">>
           items  == <<body, end>>
           r      == Tail(todo)
           u      == items \o r
<1>1. /\ Visit("fundecl") /\ todo' = u /\ insert' = 1
      /\ fun' = [name |-> Item[2], type |-> Item[3], params |-> types,
                 blocks |-> <<stores>>, pre |-> <<<<>>>>, succ |-> <<<<>>>>]
  BY DEF VisitFunDeclaration, Then
<1>2. PICK bound : scope' = Append(Push(scope, Item[2], self), bound)
  BY DEF VisitFunDeclaration
<1>3. /\ IsSequence(todo) /\ todo # <<>> /\ Item = todo[1]
      /\ IsSequence(scope) /\ Len(scope) = 1
      /\ \A i \in 1..Len(todo) : todo[i] \in Declarations
  BY <1>1, AtFunction
<1>4. Len(params) \in Nat /\ body \in Statements
  <2>1. Len(todo) \in Nat \ {0}
    BY <1>3, TailSequence
  <2>2. Item \in Declarations
    BY <1>3, <2>1
  <2>3. IsDeclaration(Item, Statements) /\ Item[1] = "fundecl"
    BY <1>1, <2>2, Syntax DEF Visit, Item
  <2> QED
    BY <2>3 DEF IsDeclaration
<1>5. Plain(stores)
  <2>1. \A k \in 1..(2 * Len(params)) : stores[k].op \in {"alloca", "store"}
    BY DEF Instr
  <2>2. stores = [k \in 1..(2 * Len(params)) |-> stores[k]]
    OBVIOUS
  <2>3. 2 * Len(params) \in Nat
    BY <1>4
  <2> HIDE DEF stores, params
  <2>4. IsSequence(stores) /\ Len(stores) = 2 * Len(params)
    BY <2>2, <2>3, FunctionIsSequence
  <2>5. \A k \in 1..Len(stores) : stores[k].op \notin Terminators
    BY <2>1, <2>4 DEF Terminators
  <2> QED
    BY <2>4, <2>5 DEF Plain
<1> HIDE DEF stores, types, self, params
<1>6. Shape(fun', 1, {1})
  BY <1>1, <1>5, NewFunction
<1>7. IsSequence(scope') /\ Len(scope') = 2
  <2>1. IsSequence(Push(scope, Item[2], self)) /\ Len(Push(scope, Item[2], self)) = 1
    <3>1. IsSequence(scope) /\ Len(scope) # 0
      BY <1>3
    <3>2. /\ IsSequence(Push(scope, Item[2], self))
          /\ Len(Push(scope, Item[2], self)) = Len(scope)
      BY <3>1, PushKeeps
    <3> QED
      BY <1>3, <3>2
  <2>2. /\ IsSequence(Append(Push(scope, Item[2], self), bound))
        /\ Len(Append(Push(scope, Item[2], self), bound)) =
             Len(Push(scope, Item[2], self)) + 1
    BY <2>1, AppendKeeps
  <2> QED
    BY <1>2, <2>1, <2>2
<1>8. /\ IsSequence(r) /\ Len(r) = Len(todo) - 1
      /\ \A i \in 1..Len(r) : r[i] = todo[i + 1]
      /\ Len(todo) \in Nat \ {0}
  BY <1>3, TailSequence
<1>9. /\ IsSequence(items) /\ Len(items) = 2
      /\ items[1] = body /\ items[2] = end
  BY ShortSequences
<1>10. end[1] = "funend"
  OBVIOUS
<1> HIDE DEF items, r, body
<1>11. /\ IsSequence(u) /\ Len(u) = 2 + Len(r)
       /\ \A i \in 1..2 : u[i] = items[i]
       /\ \A i \in 1..Len(r) : u[2 + i] = r[i]
  <2>1. /\ IsSequence(u) /\ Len(u) = Len(items) + Len(r)
        /\ \A i \in 1..Len(items) : u[i] = items[i]
        /\ \A i \in 1..Len(r) : u[Len(items) + i] = r[i]
    <3>1. IsSequence(items) /\ IsSequence(r)
      BY <1>8, <1>9
    <3> QED
      BY <3>1, ConcatSequence
  <2> HIDE DEF u
  <2> QED
    BY <1>9, <2>1
<1> HIDE DEF u
<1>12. u[1] = body /\ u[2] = end
  BY <1>9, <1>11
<1>13. \A i \in 3..Len(u) : u[i] \in Declarations
  <2> TAKE i \in 3..Len(u)
  <2>1. i - 2 \in 1..Len(r) /\ 2 + (i - 2) = i /\ i - 2 + 1 \in 1..Len(todo)
    BY <1>8, <1>11
  <2>2. u[2 + (i - 2)] = r[i - 2] /\ r[i - 2] = todo[i - 2 + 1]
    BY <1>8, <1>11, <2>1
  <2> QED
    BY <1>3, <2>1, <2>2
<1>14. /\ IsItem(body, 1) /\ body[1] \in StmtKinds /\ Pending(body) = {}
       /\ body[1] # "funend" /\ body # ex
  BY <1>4, StatementItem
<1>15. Len(u) \in Nat /\ Len(u) >= 2
  BY <1>8, <1>11
<1>16. Agenda(u, 2, 1)
  <2>1. Follows(body, end)
    BY <1>10, <1>14 DEF Follows, ExprKinds, TermKinds, StmtKinds, TestKinds
  <2>2. \A i \in 1..(2 - 1) : i = 1
    OBVIOUS
  <2>3. \A i \in 1..(2 - 1) : IsItem(u[i], 1) /\ u[i][1] # "funend" /\ Follows(u[i], u[i + 1])
    BY <1>12, <1>14, <2>1, <2>2
  <2>4. \A i \in (2 + 1)..Len(u) : u[i] \in Declarations
    BY <1>13
  <2> QED
    BY <1>11, <1>12, <1>15, <2>3, <2>4 DEF Agenda
<1>17. \A i \in 1..Len(u) : Pending(u[i]) = {} /\ u[i] # ex
  <2> TAKE i \in 1..Len(u)
  <2>1. CASE i = 1
    BY <1>12, <1>14, <2>1
  <2>2. CASE i = 2
    <3>1. Pending(end) = {} /\ ex[1] = "exit"
      BY <1>10 DEF Pending
    <3>2. end # ex
      BY <1>10, <3>1
    <3> QED
      BY <1>12, <2>2, <3>1, <3>2
  <2>3. CASE i # 1 /\ i # 2
    <3>1. u[i] \in Declarations
      BY <1>13, <1>15, <2>3
    <3> HIDE DEF ex
    <3>2. Pending(u[i]) = {} /\ u[i] # <<"exit">>
      BY <3>1, DeclarationItem
    <3> QED
      BY <3>2 DEF ex
  <2> QED
    BY <2>1, <2>2, <2>3
<1>18. Count(u, ex) = 0
  <2> HIDE DEF ex
  <2> QED
    BY <1>11, <1>17, CountType
<1>19. Waiting(u, {1}, 1)
  BY <1>17 DEF Waiting
<1>20. Wf(fun') /\ Len(fun'.blocks) = 1 /\ Open(fun') = {1}
  BY <1>6 DEF Shape
<1>21. Inside(2)'
  <2>1. Agenda(todo', 2, Len(fun'.blocks)) /\ Waiting(todo', Open(fun'), insert')
    BY <1>1, <1>16, <1>19, <1>20
  <2>2. Len(scope') = 2 + Count(todo', <<"exit">>)
    BY <1>1, <1>7, <1>18
  <2>3. insert' \in 1..Len(fun'.blocks) /\ insert' \in Open(fun')
    BY <1>1, <1>20
  <2> QED
    BY <1>20, <2>1, <2>2, <2>3 DEF Inside
<1>22. 2 \in 1..Len(todo')
  BY <1>1, <1>15
<1> QED
  BY <1>7, <1>21, <1>22 DEF IInv

\* A function ends: the block that is still open gets a ret.
LEMMA FunDeclarationEndKeeps ==
  ASSUME IInv, FunDeclarationEnd
  PROVE  IInv'
<1> DEFINE n  == Len(fun.blocks)
           ex == <<"exit">>
           r  == DefaultRet(fun)
<1>1. /\ Visit("funend") /\ todo' = <<>> \o Tail(todo) /\ scope' = Exit(scope)
      /\ fun' = IF Terminated(fun, insert) THEN fun ELSE Put(fun, insert, <<r>>)
  BY DEF FunDeclarationEnd, Then
<1>2. "funend" \notin {"vardecl", "fundecl"}
  OBVIOUS
<1>3. IsSequence(scope) /\ todo[1][1] = "funend"
  BY <1>1, <1>2, VisitInside
<1>4. PICK k \in 1..Len(todo) : Inside(k)
  BY <1>1, <1>2, VisitInside
<1>5. /\ Agenda(todo, k, n) /\ Waiting(todo, Open(fun), insert)
      /\ Len(scope) = 2 + Count(todo, ex)
  BY <1>4 DEF Inside
<1>6. /\ Shape(fun, n, Open(fun)) /\ insert \in 1..n
      /\ todo # <<>> /\ IsSequence(todo)
  BY <1>4, InsideFacts
<1>7. Len(todo) \in Nat
  BY <1>6, SequenceFacts
<1>8. k = 1 /\ todo[1] = <<"funend">>
  <2>1. todo[k] = <<"funend">> /\ \A i \in 1..(k - 1) : todo[i][1] # "funend"
    BY <1>5 DEF Agenda
  <2>2. k # 1 => 1 \in 1..(k - 1)
    OBVIOUS
  <2>3. k = 1
    BY <1>3, <2>1, <2>2
  <2> QED
    BY <2>1, <2>3
<1>9. \A i \in 2..Len(todo) : todo[i] \in Declarations
  <2>1. \A i \in (k + 1)..Len(todo) : todo[i] \in Declarations
    BY <1>5 DEF Agenda
  <2> QED
    BY <1>8, <2>1
<1>10. \A i \in 1..Len(todo) : Pending(todo[i]) = {} /\ todo[i] # ex
  <2> TAKE i \in 1..Len(todo)
  <2>1. CASE i = 1
    <3>1. ex[1] = "exit"
      OBVIOUS
    <3>2. Pending(todo[1]) = {}
      BY <1>3 DEF Pending
    <3>3. todo[1] # ex
      BY <1>3, <3>1
    <3> QED
      BY <2>1, <3>2, <3>3
  <2>2. CASE i # 1
    <3>1. todo[i] \in Declarations
      BY <1>7, <1>9, <2>2
    <3> HIDE DEF ex
    <3>2. Pending(todo[i]) = {} /\ todo[i] # <<"exit">>
      BY <3>1, DeclarationItem
    <3> QED
      BY <3>2 DEF ex
  <2> QED
    BY <2>1, <2>2
<1>11. Count(todo, ex) = 0
  <2> HIDE DEF ex
  <2> QED
    BY <1>6, <1>10, CountType
<1>12. Open(fun) \ {insert} = {}
  <2>1. \A b \in Open(fun) \ {insert} : \E i \in 1..Len(todo) : b \in Pending(todo[i])
    BY <1>5 DEF Waiting
  <2> QED
    BY <1>10, <2>1
<1>13. Shape(fun', n, {})
  <2>1. insert \in Open(fun) <=> ~Terminated(fun, insert)
    BY <1>6, ShapeFacts
  <2>2. CASE Terminated(fun, insert)
    <3>1. fun' = fun /\ Open(fun) = {}
      BY <1>1, <1>12, <2>1, <2>2
    <3> QED
      BY <1>6, <3>1
  <2>3. CASE ~Terminated(fun, insert)
    <3>1. r.op = "ret"
      BY DEF DefaultRet, Instr
    <3> HIDE DEF r
    <3>2. Returning(<<r>>)
      BY <3>1, ReturningInstructions
    <3>3. Shape(Put(fun, insert, <<r>>), n, Open(fun) \ {insert})
      BY <1>6, <2>1, <2>3, <3>2, ShapeReturn
    <3>4. fun' = Put(fun, insert, <<r>>)
      BY <1>1, <2>3
    <3> QED
      BY <1>12, <3>3, <3>4
  <2> QED
    BY <2>2, <2>3
<1>14. Agenda(todo', 0, 0)
  <2>1. Agenda(<<>> \o Tail(todo), 0, 0)
    BY <1>6, <1>9, AgendaTail
  <2> QED
    BY <1>1, <2>1
<1>15. IsSequence(scope') /\ Len(scope') = 1
  <2>1. Len(scope) = 2
    BY <1>5, <1>11
  <2>2. IsSequence(scope) /\ Len(scope) # 0
    BY <1>3, <2>1
  <2>3. IsSequence(Exit(scope)) /\ Len(Exit(scope)) = Len(scope) - 1
    BY <2>2, ExitKeeps
  <2> QED
    BY <1>1, <2>1, <2>3
<1>16. Wf(fun') /\ Open(fun') = {}
  BY <1>13 DEF Shape
<1>17. Between'
  BY <1>14, <1>15, <1>16 DEF Between
<1> QED
  BY <1>15, <1>17 DEF IInv

\* A compound statement: its declarations and its statements, in a scope of
\* its own unless it is the body of a function.
LEMMA VisitCompoundStmtKeeps ==
  ASSUME IInv, VisitCompoundStmt
  PROVE  IInv'
<1> DEFINE n     == Len(fun.blocks)
           ex    == <<"exit">>
           decls == Item[2]
           w     == <<"list", Item[3]>>
           front == decls \o <<w>>
           end   == IF pre_enter_scope THEN <<>> ELSE <<ex>>
           items == front \o end
           d     == Len(decls)
<1>1. /\ Visit("block") /\ fun' = fun /\ insert' = insert
      /\ todo' = items \o Tail(todo)
      /\ scope' = IF pre_enter_scope THEN scope ELSE Enter(scope)
  BY DEF VisitCompoundStmt, Then
<1>2. "block" \notin TestKinds \cup {"vardecl", "fundecl"} /\ "block" \in StmtKinds
  BY DEF TestKinds, StmtKinds
<1>3. /\ Shape(fun, n, Open(fun)) /\ n \in Nat /\ insert \in Open(fun)
      /\ Item = todo[1] /\ Item[1] = "block"
      /\ Pending(Item) = {} /\ Item # <<"exit">> /\ Item[1] # "funend"
      /\ IsSequence(scope)
  BY <1>1, <1>2, AtVisit
<1>4. PICK k \in 1..Len(todo) : Inside(k)
  BY <1>1, <1>2, AtVisit
<1>5. /\ decls \in Seq({x \in Declarations : x[1] = "vardecl"})
      /\ Item[3] \in Seq(Statements)
  BY <1>1, <1>2, Substatements
<1>6. /\ IsSequence(decls) /\ d \in Nat
      /\ \A i \in 1..d : decls[i] \in Declarations /\ decls[i][1] = "vardecl"
  <2>1. IsSequence(decls)
    BY <1>5, MemberIsSequence
  <2>2. d \in Nat
    BY <2>1, SequenceFacts
  <2>3. \A i \in 1..d : decls[i] \in {x \in Declarations : x[1] = "vardecl"}
    BY <1>5, ElementOfSeq
  <2> QED
    BY <2>1, <2>2, <2>3
<1>7. w[1] = "list" /\ w[2] = Item[3] /\ ex[1] = "exit"
  OBVIOUS
<1>8. IsItem(w, n) /\ Pending(w) = {} /\ w # ex
  <2>1. IsItem(w, n) /\ Pending(w) = {}
    <3> HIDE DEF w
    <3> QED
      BY <1>5, <1>7 DEF IsItem, ExprKinds, StmtKinds, Pending
  <2>2. w # ex
    BY <1>7
  <2> QED
    BY <2>1, <2>2
<1>9. IsItem(ex, n) /\ Pending(ex) = {} /\ ex[1] # "funend"
  BY DEF IsItem, TestKinds, ExprKinds, StmtKinds, Pending
<1>10. /\ IsSequence(<<w>>) /\ Len(<<w>>) = 1 /\ <<w>>[1] = w
       /\ IsSequence(<<ex>>) /\ Len(<<ex>>) = 1 /\ <<ex>>[1] = ex
       /\ IsSequence(<<>>) /\ Len(<<>>) = 0
  BY ShortSequences
<1>11. IsSequence(end) /\ Len(end) \in {0, 1} /\ (Len(end) = 1 => end[1] = ex)
  BY <1>10
<1>12. Len(scope') = Len(scope) + Len(end) /\ IsSequence(scope')
  <2>1. CASE pre_enter_scope
    <3>1. Len(scope) \in Nat /\ Len(end) = 0 /\ scope' = scope
      BY <1>1, <1>3, <1>10, <2>1, SequenceFacts
    <3> QED
      BY <1>3, <3>1
  <2>2. CASE ~pre_enter_scope
    <3>1. Len(end) = 1 /\ scope' = Append(scope, << >>)
      BY <1>1, <1>10, <2>2 DEF Enter
    <3>2. /\ IsSequence(Append(scope, << >>))
          /\ Len(Append(scope, << >>)) = Len(scope) + 1
      BY <1>3, AppendKeeps
    <3> QED
      BY <3>1, <3>2
  <2> QED
    BY <2>1, <2>2
<1> HIDE DEF n, ex, decls, w, end
<1>13. /\ IsSequence(front) /\ Len(front) = d + 1
       /\ \A i \in 1..d : front[i] = decls[i]
       /\ front[d + 1] = w
  <2> DEFINE o == <<w>>
  <2>1. IsSequence(o) /\ Len(o) = 1 /\ o[1] = w
    BY <1>10
  <2> HIDE DEF o, d
  <2>2. /\ IsSequence(decls \o o)
        /\ Len(decls \o o) = Len(decls) + Len(o)
        /\ \A i \in 1..Len(decls) : (decls \o o)[i] = decls[i]
        /\ \A i \in 1..Len(o) : (decls \o o)[Len(decls) + i] = o[i]
    <3>1. IsSequence(decls) /\ IsSequence(o)
      BY <1>6, <2>1
    <3> QED
      BY <3>1, ConcatSequence
  <2>3. (decls \o o)[Len(decls) + 1] = o[1]
    BY <2>1, <2>2
  <2> QED
    BY <2>1, <2>2, <2>3 DEF o, d
<1> HIDE DEF front, d
<1>14. /\ IsSequence(items) /\ Len(items) = d + 1 + Len(end)
       /\ \A i \in 1..d : items[i] = decls[i]
       /\ items[d + 1] = w
       /\ Len(end) = 1 => items[d + 2] = ex
  <2>1. /\ IsSequence(items) /\ Len(items) = Len(front) + Len(end)
        /\ \A i \in 1..Len(front) : items[i] = front[i]
        /\ \A i \in 1..Len(end) : items[Len(front) + i] = end[i]
    BY <1>11, <1>13, ConcatSequence
  <2> HIDE DEF items
  <2>2. \A i \in 1..d : i \in 1..Len(front)
    BY <1>6, <1>13
  <2>3. d + 1 \in 1..Len(front)
    BY <1>6, <1>13
  <2>4. Len(end) = 1 => items[d + 2] = ex
    <3>1. ASSUME Len(end) = 1
          PROVE  items[d + 2] = ex
      <4>1. 1 \in 1..Len(end) /\ Len(front) + 1 = d + 2
        BY <1>6, <1>13, <3>1
      <4>2. items[Len(front) + 1] = end[1]
        BY <2>1, <4>1
      <4> QED
        BY <1>11, <3>1, <4>1, <4>2
    <3> QED
      BY <3>1
  <2> QED
    BY <1>13, <2>1, <2>2, <2>3, <2>4
<1>15. Count(items, ex) = Len(end)
  <2>1. Count(decls, ex) = 0
    <3>1. \A i \in 1..Len(decls) : decls[i] # ex
      BY <1>6, DeclarationItem DEF ex, d
    <3> QED
      BY <1>6, <3>1, CountType
  <2>2. Count(<<w>>, ex) = 0
    BY <1>8, CountOne
  <2>3. Count(front, ex) = 0
    <3> DEFINE o == <<w>>
    <3>1. IsSequence(o)
      BY <1>10
    <3>2. Count(o, ex) = 0
      BY <2>2
    <3> HIDE DEF o
    <3>3. Count(decls \o o, ex) = Count(decls, ex) + Count(o, ex)
      BY <1>6, <3>1, CountConcat
    <3>4. Count(decls \o o, ex) = 0
      BY <2>1, <3>2, <3>3
    <3> QED
      BY <3>4 DEF o, front
  <2>4. Count(end, ex) = Len(end)
    <3>1. CASE pre_enter_scope
      <4>1. end = <<>> /\ Len(end) = 0
        BY <1>10, <3>1 DEF end
      <4>2. \A i \in 1..Len(end) : end[i] # ex
        BY <4>1
      <4> QED
        BY <1>11, <4>1, <4>2, CountType
    <3>2. CASE ~pre_enter_scope
      <4>1. end = <<ex>> /\ Len(end) = 1
        BY <1>10, <3>2 DEF end
      <4>2. Count(<<ex>>, ex) = 1
        BY CountOne
      <4> QED
        BY <4>1, <4>2
    <3> QED
      BY <3>1, <3>2
  <2>5. Count(items, ex) = Count(front, ex) + Count(end, ex)
    BY <1>11, <1>13, CountConcat
  <2> HIDE DEF items
  <2> QED
    BY <1>11, <2>3, <2>4, <2>5
<1> HIDE DEF items
<1>16. /\ \/ Len(end) = 0 /\ Len(items) = d + 1
          \/ Len(end) = 1 /\ Len(items) = d + 2
       /\ \A i \in 1..Len(items) :
            \/ i \in 1..d
            \/ i = d + 1
            \/ i = d + 2 /\ Len(end) = 1 /\ Len(items) = d + 2
  <2>1. d \in Nat
    BY <1>6
  <2>2. Len(end) = 0 \/ Len(end) = 1
    BY <1>11
  <2>3. Len(items) = d + 1 + Len(end)
    BY <1>14
  <2>4. \/ Len(end) = 0 /\ Len(items) = d + 1
        \/ Len(end) = 1 /\ Len(items) = d + 2
    <3>1. d + 1 + 0 = d + 1 /\ d + 1 + 1 = d + 2
      BY <2>1
    <3>2. Len(end) = 0 => Len(items) = d + 1 + 0
      BY <2>3
    <3>3. Len(end) = 1 => Len(items) = d + 1 + 1
      BY <2>3
    <3> QED
      BY <2>2, <3>1, <3>2, <3>3
  <2> QED
    BY <2>1, <2>4
<1>17. \A i \in 1..Len(items) :
         IsItem(items[i], n) /\ items[i][1] # "funend" /\ Pending(items[i]) = {}
  <2> TAKE i \in 1..Len(items)
  <2>1. CASE i \in 1..d
    <3>1. items[i] = decls[i] /\ decls[i] \in Declarations /\ decls[i][1] = "vardecl"
      BY <1>6, <1>14, <2>1
    <3> QED
      BY <3>1, DeclarationItem
  <2>2. CASE i = d + 1
    BY <1>7, <1>8, <1>14, <2>2
  <2>3. CASE i = d + 2 /\ Len(end) = 1 /\ Len(items) = d + 2
    BY <1>9, <1>14, <2>3
  <2> QED
    BY <1>16, <2>1, <2>2, <2>3
<1>18. \A i \in 1..(Len(items) - 1) : Follows(items[i], items[i + 1])
  <2> TAKE i \in 1..(Len(items) - 1)
  <2>1. CASE i \in 1..d
    <3>1. items[i] = decls[i] /\ decls[i][1] = "vardecl"
      BY <1>6, <1>14, <2>1
    <3>2. items[i + 1][1] \in {"vardecl", "list"}
      <4>1. CASE i = d
        BY <1>7, <1>14, <4>1
      <4>2. CASE i # d
        <5>1. i + 1 \in 1..d
          BY <1>6, <2>1, <4>2
        <5> QED
          BY <1>6, <1>14, <5>1
      <4> QED
        BY <4>1, <4>2
    <3> QED
      BY <3>1, <3>2 DEF Follows, ExprKinds, TermKinds
  <2>2. CASE i = d + 1
    <3>1. Len(end) = 1 /\ i + 1 = d + 2
      BY <1>6, <1>11, <1>14, <2>2
    <3>2. items[i + 1] = ex /\ items[i] = w
      BY <1>14, <2>2, <3>1
    <3> QED
      BY <1>7, <3>2 DEF Follows, ExprKinds, TermKinds, TestKinds
  <2>3. i \in 1..d \/ i = d + 1
    BY <1>6, <1>16
  <2> QED
    BY <2>1, <2>2, <2>3
<1>19. items[Len(items)] = w \/ items[Len(items)] = ex
  <2>1. Len(items) = d + 1 \/ (Len(items) = d + 2 /\ Len(end) = 1)
    BY <1>6, <1>16
  <2> QED
    BY <1>14, <2>1
<1>20. \A y : Follows(todo[1], y) => Follows(items[Len(items)], y)
  BY <1>3, <1>7, <1>19 DEF Follows, ExprKinds, TermKinds
<1>21. Fits(todo[1], items, n)
  <2>1. \A i \in 1..(Len(items) - 1) : i \in 1..Len(items)
    BY <1>6, <1>16
  <2> QED
    BY <1>14, <1>17, <1>18, <1>20, <2>1 DEF Fits
<1>22. PendingLast(items) = {}
  <2>1. Len(items) \in 1..Len(items)
    BY <1>6, <1>16
  <2> QED
    BY <1>17, <2>1 DEF PendingLast
<1>23. Len(scope') + (IF todo[1] = <<"exit">> THEN 1 ELSE 0) =
           Len(scope) + Count(items, <<"exit">>)
  <2>1. Len(scope') \in Nat
    BY <1>12, SequenceFacts
  <2>2. Count(items, <<"exit">>) = Len(end)
    BY <1>15 DEF ex
  <2> QED
    BY <1>3, <1>12, <2>1, <2>2
<1>24. /\ Open(fun) \ {insert'} =
            ((Open(fun) \ {insert}) \ Pending(todo[1])) \cup PendingLast(items)
       /\ ((Open(fun) \ {insert}) \ Pending(todo[1])) \cap PendingLast(items) = {}
  BY <1>1, <1>3, <1>22
<1>25. /\ insert' \in Open(fun) /\ insert' \in 1..n /\ n <= n
       /\ Shape(fun', n, Open(fun)) /\ todo[1][1] # "funend" /\ Len(fun.blocks) <= n
  <2>1. insert \in 1..n /\ n <= n
    BY <1>3, ShapeFacts
  <2> QED
    BY <1>1, <1>3, <2>1 DEF n
<1> QED
  BY <1>1, <1>3, <1>4, <1>12, <1>21, <1>23, <1>24, <1>25, GoesOn

-----------------------------------------------------------------------------
(***************************************************************************)
(* The theorems.                                                           *)
(***************************************************************************)

\* The invariant holds at first,
LEMMA InitIInv == Init => IInv
<1> SUFFICES ASSUME Init PROVE IInv
  OBVIOUS
<1>1. todo \in Seq(Declarations)
  <2>1. prog \in Programs /\ todo = AST(prog)
    BY DEF Init
  <2> QED
    BY <2>1, Syntax
<1>2. IsSequence(todo) /\ Len(todo) \in Nat
  BY <1>1, MemberIsSequence, SequenceFacts
<1>3. Agenda(todo, 0, 0)
  <2>1. \A i \in 1..Len(todo) : todo[i] \in Declarations
    BY <1>1, ElementOfSeq
  <2>2. 0 \in 0..Len(todo) /\ (0 + 1)..Len(todo) = 1..Len(todo) /\ 1..(0 - 1) = {}
    BY <1>2
  <2> QED
    BY <1>2, <2>1, <2>2 DEF Agenda
<1>4. IsSequence(scope) /\ Len(scope) = 1
  <2>1. scope = <<Builtins>>
    BY DEF Init
  <2> QED
    BY <2>1, ShortSequences
<1>5. fun = << >>
  BY DEF Init
<1> QED
  BY <1>3, <1>4, <1>5 DEF IInv, Between

\* and every visit keeps it.
LEMMA NextIInv == IInv /\ [Next]_vars => IInv'
<1> SUFFICES ASSUME IInv, [Next]_vars PROVE IInv'
  OBVIOUS
<1>1. CASE UNCHANGED vars
  <2>1. todo' = todo /\ scope' = scope /\ fun' = fun /\ insert' = insert
    BY <1>1 DEF vars
  <2>2. Between => Between'
    BY <2>1 DEF Between
  <2>3. \A k : Inside(k) => Inside(k)'
    BY <2>1 DEF Inside
  <2> QED
    BY <2>1, <2>2, <2>3 DEF IInv
<1>2. CASE VisitNum
  BY <1>2, VisitNumKeeps
<1>3. CASE VisitVarDeclaration
  BY <1>3, VisitVarDeclarationKeeps
<1>4. CASE VisitFunDeclaration
  BY <1>4, VisitFunDeclarationKeeps
<1>5. CASE FunDeclarationEnd
  BY <1>5, FunDeclarationEndKeeps
<1>6. CASE VisitCompoundStmt
  BY <1>6, VisitCompoundStmtKeeps
<1>7. CASE NextStatement
  BY <1>7, NextStatementKeeps
<1>8. CASE AfterStatement
  BY <1>8, AfterStatementKeeps
<1>9. CASE ExitScope
  BY <1>9, ExitScopeKeeps
<1>10. CASE VisitExpressionStmt
  BY <1>10, VisitExpressionStmtKeeps
<1>11. CASE VisitSelectionStmt
  BY <1>11, VisitSelectionStmtKeeps
<1>12. CASE SelectionBranch
  BY <1>12, SelectionBranchKeeps
<1>13. CASE SelectionElse
  BY <1>13, SelectionElseKeeps
<1>14. CASE SelectionEnd
  BY <1>14, SelectionEndKeeps
<1>15. CASE VisitIterationStmt
  BY <1>15, VisitIterationStmtKeeps
<1>16. CASE IterationBranch
  BY <1>16, IterationBranchKeeps
<1>17. CASE IterationEnd
  BY <1>17, IterationEndKeeps
<1>18. CASE VisitReturnStmt
  BY <1>18, VisitReturnStmtKeeps, ReturnVoidKeeps
<1>19. CASE ReturnValue
  BY <1>19, ReturnValueKeeps
<1>20. CASE VisitVar
  BY <1>20, VisitVarKeeps
<1>21. CASE IndexedVar
  BY <1>21, IndexedVarKeeps
<1>22. CASE VisitAssignExpression
  BY <1>22, VisitAssignExpressionKeeps
<1>23. CASE AssignTo
  BY <1>23, AssignToKeeps
<1>24. CASE AssignStore
  BY <1>24, AssignStoreKeeps
<1>25. CASE VisitBinary
  BY <1>25, VisitBinaryKeeps
<1>26. CASE RightOperand
  BY <1>26, RightOperandKeeps
<1>27. CASE Combine
  BY <1>27, CombineKeeps
<1>28. CASE VisitCall
  BY <1>28, VisitCallKeeps
<1>29. CASE NextArgument
  BY <1>29, NextArgumentKeeps
<1>30. CASE PassArgument
  BY <1>30, PassArgumentKeeps
<1> QED
  BY <1>1, <1>2, <1>3, <1>4, <1>5, <1>6, <1>7, <1>8, <1>9, <1>10, <1>11, <1>12,
     <1>13, <1>14, <1>15, <1>16, <1>17, <1>18, <1>19, <1>20, <1>21, <1>22, <1>23,
     <1>24, <1>25, <1>26, <1>27, <1>28, <1>29, <1>30 DEF Next

\* The well-formed function, block by block.
LEMMA IInvBlocks == IInv => BlocksWellFormed
<1> SUFFICES ASSUME IInv, fun # << >>
             PROVE  \A b \in 1..Len(fun.blocks) :
                      /\ \A i \in 1..(Len(fun.blocks[b]) - 1) :
                           fun.blocks[b][i].op \notin {"br", "condbr", "ret"}
                      /\ fun.succ[b] = Targets(fun, b)
                      /\ \A p \in 1..Len(fun.blocks) :
                           Count(fun.pre[b], p) = Count(fun.succ[p], b)
                      /\ Built => Terminated(fun, b)
  BY DEF BlocksWellFormed, Count
<1>1. Wf(fun)
  BY DEF IInv, Between, Inside
<1>2. Built => Open(fun) = {}
  <2> SUFFICES ASSUME todo = <<>> PROVE Open(fun) = {}
    BY DEF Built
  <2>1. Len(todo) = 0
    OBVIOUS
  <2>2. Between
    BY <2>1 DEF IInv
  <2> QED
    BY <2>2 DEF Between
<1> TAKE b \in 1..Len(fun.blocks)
<1>3. /\ \A i \in 1..(Len(fun.blocks[b]) - 1) :
           fun.blocks[b][i].op \notin {"br", "condbr", "ret"}
      /\ fun.succ[b] = Targets(fun, b)
      /\ \A p \in 1..Len(fun.blocks) : Count(fun.pre[b], p) = Count(fun.succ[p], b)
  BY <1>1 DEF Wf, Terminators
<1>4. Built => Terminated(fun, b)
  BY <1>2 DEF Open
<1> QED
  BY <1>3, <1>4

\* For every program the agenda of the visitor and the open blocks of the
\* function it builds fit together: each open block but the insert block is
\* waited for by one item, and while the insert block is terminated the next
\* step is one that looks for that.
THEOREM AgendaInvariant == Spec => []IInv
<1> QED
  BY InitIInv, NextIInv, PTL DEF Spec

\* The blocks that CminusfBuilder makes for any program: a terminator is the
\* last instruction of its block, the successor and predecessor lists are those
\* of the terminators, and no block of a finished function lacks a terminator.
THEOREM BuilderBlocks == Spec => []BlocksWellFormed
<1> QED
  BY AgendaInvariant, IInvBlocks, PTL
==============================================================================
