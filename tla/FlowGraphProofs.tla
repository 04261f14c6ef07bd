-------------------------- MODULE FlowGraphProofs --------------------------
(***************************************************************************)
(* Facts about the reference definitions of FlowGraph, for every finite    *)
(* graph.  ReachAvoidingIn is a bounded iteration; the first lemmas show   *)
(* that such an iteration reaches a fixed point, the least one above its   *)
(* start.  What is known of dominance then follows from that, without      *)
(* paths and without induction.                                            *)
(***************************************************************************)
EXTENDS FlowGraph, FiniteSetTheorems, TLAPS

(***************************************************************************)
(* Bounded iteration.                                                      *)
(***************************************************************************)

\* A set of naturals that is not empty has a least element.
LEMMA LeastNat ==
  ASSUME NEW T \in SUBSET Nat, T # {}
  PROVE  \E m \in T : \A k \in T : m <= k
<1>1. PICK m \in T : \A k \in T : ~(<<k, m>> \in OpToRel(<, Nat))
  BY NatLessThanWellFounded, WFMin
<1>2. \A k \in T : ~(k < m)
  BY <1>1 DEF OpToRel
<1>3. \A k \in T : k \in Nat /\ m \in Nat
  OBVIOUS
<1>4. \A k \in T : m <= k
  <2> HIDE <1>1
  <2> QED
    BY <1>2, <1>3
<1> QED
  BY <1>4

\* Induction up to a bound: a set that holds 0 and, with each number below n,
\* the next one holds all numbers up to n.
LEMMA UpTo ==
  ASSUME NEW n \in Nat, NEW G, 0 \in G,
         \A k \in 1..n : k - 1 \in G => k \in G
  PROVE  \A k \in 0..n : k \in G
<1> DEFINE T == {k \in 0..n : k \notin G}
<1> SUFFICES ASSUME T # {} PROVE FALSE
  OBVIOUS
<1>1. T \in SUBSET Nat
  OBVIOUS
<1>2. PICK m \in T : \A k \in T : m <= k
  <2> HIDE DEF T
  <2> QED
    BY <1>1, LeastNat
<1>3. m \in 1..n /\ m - 1 \in 0..n /\ ~(m <= m - 1)
  <2>1. m \in 0..n /\ m # 0
    OBVIOUS
  <2> QED
    BY <2>1
<1>4. m - 1 \in G
  BY <1>2, <1>3
<1> QED
  BY <1>3, <1>4

\* A recursive function on 0..n that takes each value from the one before
\* exists: its defining equation has a solution.
LEMMA IterationExists ==
  ASSUME NEW X, NEW F \in [X -> X], NEW x0 \in X, NEW n \in Nat
  PROVE  \E f : f = [k \in 0..n |-> IF k = 0 THEN x0 ELSE F[f[k - 1]]]
<1> DEFINE Sol(m, f) == /\ f \in [0..m -> X]
                        /\ f[0] = x0
                        /\ \A k \in 1..m : f[k] = F[f[k - 1]]
           G == {m \in 0..n : \E f \in [0..m -> X] : Sol(m, f)}
<1>1. 0 \in G
  <2> DEFINE f == [k \in 0..0 |-> x0]
  <2>1. Sol(0, f)
    OBVIOUS
  <2>2. f \in [0..0 -> X] /\ 0 \in 0..n
    OBVIOUS
  <2> HIDE DEF f, Sol
  <2> QED
    BY <2>1, <2>2
<1>2. ASSUME NEW m \in 1..n, m - 1 \in G
      PROVE  m \in G
  <2>1. PICK e \in [0..(m - 1) -> X] : Sol(m - 1, e)
    BY <1>2
  <2> DEFINE f == [k \in 0..m |-> IF k = m THEN F[e[m - 1]] ELSE e[k]]
  <2>2. f \in [0..m -> X]
    OBVIOUS
  <2>3. \A k \in 0..(m - 1) : f[k] = e[k]
    OBVIOUS
  <2>4. f[0] = x0
    BY <2>1, <2>3
  <2>5. ASSUME NEW k \in 1..m
        PROVE  f[k] = F[f[k - 1]]
    <3>1. k - 1 \in 0..(m - 1) /\ f[k - 1] = e[k - 1]
      BY <2>3
    <3>2. CASE k = m
      BY <3>1, <3>2
    <3>3. CASE k # m
      <4>1. k \in 1..(m - 1) /\ k \in 0..m
        BY <3>3
      <4>2. f[k] = e[k]
        BY <2>3, <4>1
      <4> HIDE DEF f
      <4> QED
        BY <2>1, <3>1, <4>1, <4>2
    <3> QED
      BY <3>2, <3>3
  <2>6. Sol(m, f)
    BY <2>2, <2>4, <2>5
  <2>7. m \in 0..n
    OBVIOUS
  <2> HIDE DEF f, Sol
  <2> QED
    BY <2>2, <2>6, <2>7
<1>3. n \in G
  <2> HIDE DEF G
  <2>1. \A k \in 0..n : k \in G
    BY <1>1, <1>2, UpTo
  <2> QED
    BY <2>1
<1>4. PICK f \in [0..n -> X] : Sol(n, f)
  BY <1>3
<1>5. \A k \in 0..n : f[k] = IF k = 0 THEN x0 ELSE F[f[k - 1]]
  BY <1>4
<1>6. f = [k \in 0..n |-> IF k = 0 THEN x0 ELSE F[f[k - 1]]]
  BY <1>5
<1> QED
  BY <1>6

\* F only adds to a set of elements of B.
Grows(F, B) == /\ F \in [SUBSET B -> SUBSET B]
               /\ \A r \in SUBSET B : r \subseteq F[r]

\* f lists the first n sets of an iteration of F.
Iterates(f, F, B, n) == /\ f \in [0..n -> SUBSET B]
                        /\ \A k \in 1..n : f[k] = F[f[k - 1]]

\* An iteration of a growing function on the subsets of a finite set, with as
\* many steps as the set has elements, ends in a fixed point.
LEMMA IterationCloses ==
  ASSUME NEW B, NEW F, NEW f, IsFiniteSet(B),
         Grows(F, B), Iterates(f, F, B, Cardinality(B))
  PROVE  F[f[Cardinality(B)]] = f[Cardinality(B)]
<1> USE DEF Grows, Iterates
<1> DEFINE n == Cardinality(B)
<1>0. n \in Nat /\ n = Cardinality(B) /\ Iterates(f, F, B, n)
  BY FS_CardinalityType
<1> HIDE DEF n
<1> USE <1>0
<1> DEFINE G == {k \in 0..n : F[f[k]] = f[k] \/ Cardinality(f[k]) >= k}
<1>1. \A r \in SUBSET B : IsFiniteSet(r) /\ Cardinality(r) \in Nat
  BY FS_Subset, FS_CardinalityType
<1>2. 0 \in G
  BY <1>1
<1>3. ASSUME NEW k \in 1..n, k - 1 \in G
      PROVE  k \in G
  <2>1. k \in 0..n /\ k - 1 \in 0..n /\ f[k] = F[f[k - 1]]
    OBVIOUS
  <2>2. f[k] \in SUBSET B /\ f[k - 1] \in SUBSET B
    BY <2>1
  <2>3. CASE F[f[k - 1]] = f[k - 1]
    BY <2>1, <2>3
  <2>4. CASE F[f[k - 1]] # f[k - 1]
    <3>1. f[k - 1] \in SUBSET f[k] /\ f[k - 1] # f[k]
      BY <2>1, <2>2, <2>4
    <3>2. IsFiniteSet(f[k])
      BY <1>1, <2>2
    <3>3. /\ Cardinality(f[k - 1]) <= Cardinality(f[k])
          /\ Cardinality(f[k - 1]) # Cardinality(f[k])
      BY <3>1, <3>2, FS_Subset
    <3>4. Cardinality(f[k - 1]) >= k - 1
      BY <1>3, <2>4
    <3>5. Cardinality(f[k]) \in Nat /\ Cardinality(f[k - 1]) \in Nat
      BY <1>1, <2>2
    <3> QED
      BY <2>1, <3>3, <3>4, <3>5
  <2> QED
    BY <2>3, <2>4
<1>4. n \in G
  <2> HIDE DEF G
  <2>1. \A k \in 0..n : k \in G
    BY <1>2, <1>3, UpTo
  <2> QED
    BY <2>1
<1>5. f[n] \in SUBSET B
  OBVIOUS
<1>6. CASE Cardinality(f[n]) >= n
  <2>1. Cardinality(f[n]) <= Cardinality(B) /\ Cardinality(f[n]) \in Nat
    BY <1>1, <1>5, FS_Subset
  <2>2. Cardinality(B) = Cardinality(f[n])
    BY <1>6, <2>1
  <2>3. f[n] = B
    BY <1>5, <2>2, FS_Subset
  <2>4. B \in SUBSET B /\ B \subseteq F[B] /\ F[B] \in SUBSET B
    OBVIOUS
  <2> QED
    BY <2>3, <2>4
<1> QED
  BY <1>4, <1>6

\* Whatever the start lies in and the steps do not leave, the iteration lies
\* in.
LEMMA IterationStays ==
  ASSUME NEW X, NEW F, NEW n \in Nat,
         NEW f, \A k \in 1..n : f[k] = F[f[k - 1]],
         f[0] \in X, \A r \in X : F[r] \in X
  PROVE  \A k \in 0..n : f[k] \in X
<1> DEFINE G == {k \in 0..n : f[k] \in X}
<1>1. 0 \in G
  OBVIOUS
<1>2. \A k \in 1..n : k - 1 \in G => k \in G
  OBVIOUS
<1> HIDE DEF G
<1>3. \A k \in 0..n : k \in G
  BY <1>1, <1>2, UpTo
<1> QED
  BY <1>3 DEF G

-----------------------------------------------------------------------------
(***************************************************************************)
(* Reachability.                                                           *)
(***************************************************************************)

\* A finite graph whose blocks are not the null pointer and include the entry.
IsFlowGraph(g) ==
  /\ IsFiniteSet(DOMAIN g)
  /\ g \in [DOMAIN g -> SUBSET DOMAIN g]
  /\ Entry \in DOMAIN g
  /\ 0 \notin DOMAIN g

\* ReachAvoidingIn is the last element of an iteration.
LEMMA ReachIteration ==
  ASSUME NEW g, IsFlowGraph(g), NEW a
  PROVE  LET B == DOMAIN g
             n == Cardinality(B)
             F == [r \in SUBSET B |-> r \cup ((UNION {g[b] : b \in r}) \ {a})]
         IN  /\ n \in Nat
             /\ F \in [SUBSET B -> SUBSET B]
             /\ \E f \in [0..n -> SUBSET B] :
                  /\ f[0] = {Entry} \ {a}
                  /\ \A k \in 1..n : f[k] = F[f[k - 1]]
                  /\ ReachAvoidingIn(g, a) = f[n]
<1> DEFINE B == DOMAIN g
           n == Cardinality(B)
           S(r) == r \cup ((UNION {g[b] : b \in r}) \ {a})
           F == [r \in SUBSET B |-> S(r)]
           s == {Entry} \ {a}
           P(f) == f = [k \in 0..n |-> IF k = 0 THEN s ELSE S(f[k - 1])]
           c == CHOOSE f : P(f)
<1>1. n \in Nat
  BY FS_CardinalityType DEF IsFlowGraph
<1>2. F \in [SUBSET B -> SUBSET B]
  BY DEF IsFlowGraph
<1>3. s \in SUBSET B
  BY DEF IsFlowGraph
<1>4. PICK h : h = [k \in 0..n |-> IF k = 0 THEN s ELSE F[h[k - 1]]]
  <2> DEFINE X == SUBSET B
  <2>1. F \in [X -> X] /\ s \in X
    BY <1>2, <1>3
  <2> HIDE DEF F, n, s, X
  <2> QED
    BY <1>1, <2>1, IterationExists
<1>5. \A k \in 0..n : h[k] \in SUBSET B
  <2>1. h[0] \in SUBSET B
    <3> HIDE DEF F, n, s
    <3> QED
      BY <1>1, <1>3, <1>4
  <2>2. \A k \in 1..n : h[k] = F[h[k - 1]]
    <3> HIDE DEF F, n, s
    <3> QED
      BY <1>1, <1>4
  <2>3. \A r \in SUBSET B : F[r] \in SUBSET B
    <3> HIDE DEF F
    <3> QED
      BY <1>2
  <2> HIDE DEF F, n
  <2> QED
    BY <1>1, <2>1, <2>2, <2>3, IterationStays
<1>6. P(h)
  <2>1. \A k \in 0..n : k # 0 => F[h[k - 1]] = S(h[k - 1])
    <3> SUFFICES ASSUME NEW k \in 0..n, k # 0 PROVE F[h[k - 1]] = S(h[k - 1])
      OBVIOUS
    <3>1. h[k - 1] \in SUBSET B
      <4> HIDE DEF n
      <4> QED
        BY <1>1, <1>5
    <3> QED
      BY <3>1
  <2> HIDE DEF F, n, s, S
  <2> QED
    BY <1>4, <2>1
<1>7. P(c)
  <2> HIDE DEF P
  <2> QED
    BY <1>6, Zenon
<1>8. ReachAvoidingIn(g, a) = c[n]
  BY Zenon DEF ReachAvoidingIn
<1>9. c[0] = s /\ \A k \in 1..n : c[k] = S(c[k - 1])
  <2> HIDE DEF n, s, S, c
  <2> QED
    BY <1>1, <1>7
<1>10. \A k \in 0..n : c[k] \in SUBSET B
  <2> DEFINE G == {k \in 0..n : c[k] \in SUBSET B}
  <2>1. 0 \in G
    <3> HIDE DEF n, s, S, c
    <3> QED
      BY <1>1, <1>3, <1>9
  <2>2. ASSUME NEW k \in 1..n, k - 1 \in G PROVE k \in G
    <3>1. k \in 0..n /\ c[k] = S(c[k - 1]) /\ c[k - 1] \in SUBSET B
      <4> HIDE DEF n, S, c
      <4> QED
        BY <1>1, <1>9, <2>2
    <3>2. S(c[k - 1]) \in SUBSET B
      <4> HIDE DEF c, n
      <4> QED
        BY <3>1 DEF IsFlowGraph
    <3> QED
      BY <3>1, <3>2
  <2> HIDE DEF G, n, c
  <2>3. \A k \in 0..n : k \in G
    BY <1>1, <2>1, <2>2, UpTo
  <2> QED
    BY <2>3 DEF G
<1>11. c \in [0..n -> SUBSET B]
  <2> HIDE DEF n, s, S, c
  <2> QED
    BY <1>7, <1>10
<1>12. \A k \in 1..n : c[k] = F[c[k - 1]]
  <2> SUFFICES ASSUME NEW k \in 1..n PROVE c[k] = F[c[k - 1]]
    OBVIOUS
  <2>1. c[k - 1] \in SUBSET B /\ c[k] = S(c[k - 1])
    <3> HIDE DEF n, S, c
    <3> QED
      BY <1>1, <1>9, <1>10
  <2> HIDE DEF c, n
  <2> QED
    BY <2>1
<1> HIDE DEF c
<1> QED
  BY <1>1, <1>2, <1>8, <1>9, <1>11, <1>12

\* The blocks reached without entering a are blocks of the graph other than
\* a, include the entry and are closed under the other edges.
LEMMA ReachClosed ==
  ASSUME NEW g, IsFlowGraph(g), NEW a
  PROVE  /\ ReachAvoidingIn(g, a) \subseteq DOMAIN g
         /\ a \notin ReachAvoidingIn(g, a)
         /\ a # Entry => Entry \in ReachAvoidingIn(g, a)
         /\ \A b \in ReachAvoidingIn(g, a) :
              \A y \in g[b] : y # a => y \in ReachAvoidingIn(g, a)
<1> DEFINE B == DOMAIN g
           n == Cardinality(B)
           F == [r \in SUBSET B |-> r \cup ((UNION {g[b] : b \in r}) \ {a})]
           R == ReachAvoidingIn(g, a)
<1>1. n \in Nat /\ F \in [SUBSET B -> SUBSET B]
  BY ReachIteration
<1>2. PICK f \in [0..n -> SUBSET B] :
         /\ f[0] = {Entry} \ {a}
         /\ \A k \in 1..n : f[k] = F[f[k - 1]]
         /\ R = f[n]
  BY ReachIteration
<1>3. R \in SUBSET B
  <2> HIDE DEF F, n, R
  <2> QED
    BY <1>1, <1>2
<1>4. \A r \in SUBSET B : r \subseteq F[r]
  OBVIOUS
<1>5. F[R] = R
  <2>1. IsFiniteSet(B)
    BY DEF IsFlowGraph
  <2>2. Grows(F, B) /\ Iterates(f, F, B, n)
    <3> HIDE DEF F, n
    <3> QED
      BY <1>1, <1>2, <1>4 DEF Grows, Iterates
  <2> HIDE DEF F, R
  <2>3. F[f[n]] = f[n]
    BY <2>1, <2>2, IterationCloses, Zenon
  <2> QED
    BY <1>2, <2>3
<1>6. R = R \cup ((UNION {g[b] : b \in R}) \ {a})
  <2> HIDE DEF R
  <2> QED
    BY <1>3, <1>5
<1>7. a \notin R
  <2> DEFINE X == {r \in SUBSET B : a \notin r}
  <2>1. f[0] \in X
    <3> HIDE DEF n, R, F
    <3> QED
      BY <1>1, <1>2
  <2>2. ASSUME NEW r \in X PROVE F[r] \in X
    <3>1. F[r] \in SUBSET B
      <4> HIDE DEF F
      <4> QED
        BY <1>1
    <3>2. F[r] = r \cup ((UNION {g[b] : b \in r}) \ {a})
      OBVIOUS
    <3> HIDE DEF F
    <3> QED
      BY <3>1, <3>2
  <2>3. \A k \in 0..n : f[k] \in X
    <3> HIDE DEF n, R, F, X
    <3> QED
      BY <1>1, <1>2, <2>1, <2>2, IterationStays
  <2> HIDE DEF n, R, F
  <2> QED
    BY <1>1, <1>2, <2>3
<1>8. a # Entry => Entry \in R
  <2> DEFINE X == {r \in SUBSET B : a # Entry => Entry \in r}
  <2>1. f[0] \in X
    <3> HIDE DEF n, R, F
    <3> QED
      BY <1>1, <1>2
  <2>2. ASSUME NEW r \in X PROVE F[r] \in X
    <3>1. F[r] \in SUBSET B
      <4> HIDE DEF F
      <4> QED
        BY <1>1
    <3>2. F[r] = r \cup ((UNION {g[b] : b \in r}) \ {a})
      OBVIOUS
    <3> HIDE DEF F
    <3> QED
      BY <3>1, <3>2
  <2>3. \A k \in 0..n : f[k] \in X
    <3> HIDE DEF n, R, F, X
    <3> QED
      BY <1>1, <1>2, <2>1, <2>2, IterationStays
  <2> HIDE DEF n, R, F
  <2> QED
    BY <1>1, <1>2, <2>3
<1> HIDE DEF R
<1>9. ASSUME NEW b \in R, NEW y \in g[b], y # a
      PROVE  y \in R
  <2>1. y \in UNION {g[x] : x \in R}
    OBVIOUS
  <2> QED
    BY <1>6, <1>9, <2>1
<1> QED
  BY <1>3, <1>7, <1>8, <1>9 DEF R

\* They are the least such set: whatever holds of the entry and is passed on
\* along the edges that do not enter a holds of all of them.
LEMMA ReachLeast ==
  ASSUME NEW g, IsFlowGraph(g), NEW a, NEW S,
         a # Entry => Entry \in S,
         \A b \in S : b \in DOMAIN g => \A y \in g[b] : y # a => y \in S
  PROVE  ReachAvoidingIn(g, a) \subseteq S
<1> DEFINE B == DOMAIN g
           n == Cardinality(B)
           F == [r \in SUBSET B |-> r \cup ((UNION {g[b] : b \in r}) \ {a})]
           R == ReachAvoidingIn(g, a)
<1>1. n \in Nat /\ F \in [SUBSET B -> SUBSET B]
  BY ReachIteration
<1>2. PICK f \in [0..n -> SUBSET B] :
         /\ f[0] = {Entry} \ {a}
         /\ \A k \in 1..n : f[k] = F[f[k - 1]]
         /\ R = f[n]
  BY ReachIteration
<1> DEFINE X == {r \in SUBSET B : r \subseteq S}
<1>3. f[0] \in X
  <2> HIDE DEF n, R, F
  <2> QED
    BY <1>1, <1>2
<1>4. ASSUME NEW r \in X PROVE F[r] \in X
  <2>1. F[r] \in SUBSET B
    <3> HIDE DEF F
    <3> QED
      BY <1>1
  <2>2. F[r] = r \cup ((UNION {g[b] : b \in r}) \ {a})
    OBVIOUS
  <2>3. \A b \in r : \A y \in g[b] : y # a => y \in S
    OBVIOUS
  <2>4. (UNION {g[b] : b \in r}) \ {a} \subseteq S
    BY <2>3
  <2> HIDE DEF F
  <2> QED
    BY <2>1, <2>2, <2>4
<1>5. \A k \in 0..n : f[k] \in X
  <2> HIDE DEF n, R, F, X
  <2> QED
    BY <1>1, <1>2, <1>3, <1>4, IterationStays
<1> HIDE DEF n, R, F
<1>6. R \subseteq S
  BY <1>1, <1>2, <1>5
<1> QED
  BY <1>6 DEF R

-----------------------------------------------------------------------------
(***************************************************************************)
(* Dominance.                                                              *)
(***************************************************************************)

\* What is reached without entering a is reached; the entry is, and with a
\* block its successors.
LEMMA ReachFacts ==
  ASSUME NEW g, IsFlowGraph(g)
  PROVE  /\ ReachableIn(g) \subseteq DOMAIN g
         /\ Entry \in ReachableIn(g)
         /\ \A b \in ReachableIn(g) : g[b] \subseteq ReachableIn(g)
         /\ \A a : ReachAvoidingIn(g, a) \subseteq ReachableIn(g)
<1>1. \A b \in DOMAIN g : \A y \in g[b] : y # 0 /\ y \in DOMAIN g
  BY DEF IsFlowGraph
<1>2. 0 # Entry
  BY DEF Entry
<1>3. /\ ReachableIn(g) \subseteq DOMAIN g
      /\ Entry \in ReachableIn(g)
      /\ \A b \in ReachableIn(g) : \A y \in g[b] : y # 0 => y \in ReachableIn(g)
  BY <1>2, ReachClosed DEF ReachableIn
<1>4. \A b \in ReachableIn(g) : g[b] \subseteq ReachableIn(g)
  BY <1>1, <1>3
<1>5. ASSUME NEW a PROVE ReachAvoidingIn(g, a) \subseteq ReachableIn(g)
  BY <1>3, <1>4, ReachLeast
<1> QED
  BY <1>3, <1>4, <1>5

\* A block dominates itself, the entry dominates every block, and nothing
\* else dominates the entry.
LEMMA DomBasic ==
  ASSUME NEW g, IsFlowGraph(g), NEW b \in ReachableIn(g)
  PROVE  /\ DomIn(g, b, b)
         /\ DomIn(g, Entry, b)
         /\ \A a : DomIn(g, a, Entry) => a = Entry
<1>1. b \notin ReachAvoidingIn(g, b)
  BY ReachClosed
<1>2. ReachAvoidingIn(g, Entry) \subseteq {}
  <2> DEFINE S == {}
  <2>1. \A x \in S : x \in DOMAIN g => \A y \in g[x] : y # Entry => y \in S
    OBVIOUS
  <2> HIDE DEF S
  <2>2. ReachAvoidingIn(g, Entry) \subseteq S
    BY <2>1, ReachLeast
  <2> QED
    BY <2>2 DEF S
<1>3. \A a : a # Entry => Entry \in ReachAvoidingIn(g, a)
  BY ReachClosed
<1> QED
  BY <1>1, <1>2, <1>3 DEF DomIn

\* A dominator is a reachable block.
LEMMA DomReachable ==
  ASSUME NEW g, IsFlowGraph(g), NEW a, NEW b, DomIn(g, a, b)
  PROVE  a \in ReachableIn(g) /\ b \in ReachableIn(g)
<1>1. b \in ReachableIn(g) /\ b \notin ReachAvoidingIn(g, a)
  BY DEF DomIn
<1> SUFFICES ASSUME a \notin ReachableIn(g) PROVE FALSE
  BY <1>1
<1> DEFINE S == ReachAvoidingIn(g, a)
<1>2. Entry \in S
  BY ReachFacts, ReachClosed
<1>3. ASSUME NEW x \in S, NEW y \in g[x] PROVE y \in S
  <2>1. x \in ReachableIn(g)
    BY ReachFacts
  <2>2. y \in ReachableIn(g)
    BY <2>1, ReachFacts
  <2> QED
    BY <2>2, ReachClosed
<1>4. ReachAvoidingIn(g, 0) \subseteq S
  <2> HIDE DEF S
  <2> QED
    BY <1>2, <1>3, ReachLeast
<1> QED
  BY <1>1, <1>4 DEF ReachableIn

\* Dominance is transitive.
LEMMA DomTransitive ==
  ASSUME NEW g, IsFlowGraph(g), NEW a, NEW b, NEW c,
         DomIn(g, a, b), DomIn(g, b, c)
  PROVE  DomIn(g, a, c)
<1> DEFINE S == ReachAvoidingIn(g, a) \cap ReachAvoidingIn(g, b)
<1>1. /\ b \in ReachableIn(g) /\ b \notin ReachAvoidingIn(g, a)
      /\ c \in ReachableIn(g) /\ c \notin ReachAvoidingIn(g, b)
  BY DEF DomIn
<1>2. a # Entry => Entry \in S
  BY <1>1, ReachClosed
<1>3. ASSUME NEW x \in S, NEW y \in g[x], y # a PROVE y \in S
  <2>1. y \in ReachAvoidingIn(g, a)
    BY <1>3, ReachClosed
  <2>2. y # b
    BY <1>1, <2>1
  <2> QED
    BY <2>1, <2>2, ReachClosed
<1>4. ReachAvoidingIn(g, a) \subseteq S
  <2> HIDE DEF S
  <2> QED
    BY <1>2, <1>3, ReachLeast
<1> QED
  BY <1>1, <1>4 DEF DomIn

\* Two different blocks do not dominate each other.
LEMMA DomAntisymmetric ==
  ASSUME NEW g, IsFlowGraph(g), NEW a, NEW b, DomIn(g, a, b), DomIn(g, b, a)
  PROVE  a = b
<1> SUFFICES ASSUME a # b PROVE FALSE
  OBVIOUS
<1> DEFINE S == ReachAvoidingIn(g, a) \cap ReachAvoidingIn(g, b)
<1>1. /\ b \in ReachableIn(g) /\ b \notin ReachAvoidingIn(g, a)
      /\ a \in ReachableIn(g) /\ a \notin ReachAvoidingIn(g, b)
  BY DEF DomIn
<1>2. a # Entry /\ b # Entry
  BY <1>1, ReachClosed
<1>3. Entry \in S
  BY <1>2, ReachClosed
<1>4. ASSUME NEW x \in S, NEW y \in g[x] PROVE y \in S
  <2>1. y # a
    BY <1>1, ReachClosed
  <2>2. y # b
    BY <1>1, ReachClosed
  <2> QED
    BY <2>1, <2>2, ReachClosed
<1>5. ReachAvoidingIn(g, 0) \subseteq S
  <2> HIDE DEF S
  <2> QED
    BY <1>3, <1>4, ReachLeast
<1> QED
  BY <1>1, <1>5 DEF ReachableIn

\* Of two dominators of a block one dominates the other.
LEMMA DomChain ==
  ASSUME NEW g, IsFlowGraph(g), NEW a, NEW b, NEW c,
         DomIn(g, a, c), DomIn(g, b, c)
  PROVE  DomIn(g, a, b) \/ DomIn(g, b, a)
<1> SUFFICES ASSUME ~DomIn(g, a, b), ~DomIn(g, b, a) PROVE FALSE
  OBVIOUS
<1> DEFINE S == ReachAvoidingIn(g, a) \cup ReachAvoidingIn(g, b)
<1>1. a \in ReachableIn(g) /\ b \in ReachableIn(g)
  BY DomReachable
<1>2. b \in ReachAvoidingIn(g, a) /\ a \in ReachAvoidingIn(g, b)
  BY <1>1 DEF DomIn
<1>3. a # b
  BY <1>2, ReachClosed
<1>4. Entry \in S
  BY <1>3, ReachClosed
<1>5. ASSUME NEW x \in S, NEW y \in g[x] PROVE y \in S
  BY <1>2, ReachClosed
<1>6. ReachAvoidingIn(g, 0) \subseteq S
  <2> HIDE DEF S
  <2> QED
    BY <1>4, <1>5, ReachLeast
<1> QED
  BY <1>6 DEF ReachableIn, DomIn

\* A strict dominator of a block dominates its reachable predecessors.
LEMMA DomOfPred ==
  ASSUME NEW g, IsFlowGraph(g), NEW c, NEW b, NEW p \in ReachableIn(g),
         b \in g[p], SDomIn(g, c, b)
  PROVE  DomIn(g, c, p)
BY ReachClosed DEF SDomIn, DomIn

\* A block other than the entry is dominated by what dominates all its
\* reachable predecessors.
LEMMA DomFromPreds ==
  ASSUME NEW g, IsFlowGraph(g), NEW c, NEW b \in ReachableIn(g), b # Entry,
         \A p \in ReachableIn(g) : b \in g[p] => DomIn(g, c, p)
  PROVE  DomIn(g, c, b)
<1> SUFFICES ASSUME b \in ReachAvoidingIn(g, c) PROVE FALSE
  BY DEF DomIn
<1> DEFINE S == ReachAvoidingIn(g, c) \ {b}
<1>1. c # Entry => Entry \in S
  BY ReachClosed
<1>2. ASSUME NEW x \in S, NEW y \in g[x], y # c PROVE y \in S
  <2>1. x \in ReachableIn(g)
    BY ReachFacts
  <2>2. y \in ReachAvoidingIn(g, c)
    BY <1>2, ReachClosed
  <2>3. y # b
    BY <2>1 DEF DomIn
  <2> QED
    BY <2>2, <2>3
<1>3. ReachAvoidingIn(g, c) \subseteq S
  <2> HIDE DEF S
  <2> QED
    BY <1>1, <1>2, ReachLeast
<1> QED
  BY <1>3

\* A reachable block other than the entry has a reachable predecessor that it
\* does not dominate: a path enters it for the first time somewhere.
LEMMA FirstEntered ==
  ASSUME NEW g, IsFlowGraph(g), NEW y \in ReachableIn(g), y # Entry
  PROVE  \E p \in ReachableIn(g) : y \in g[p] /\ ~DomIn(g, y, p)
<1> SUFFICES ASSUME \A p \in ReachableIn(g) : y \in g[p] => DomIn(g, y, p)
             PROVE  FALSE
  OBVIOUS
<1> DEFINE S == ReachAvoidingIn(g, y)
<1>1. Entry \in S
  BY ReachClosed
<1>2. ASSUME NEW x \in S, NEW z \in g[x] PROVE z \in S
  <2>1. x \in ReachableIn(g)
    BY ReachFacts
  <2>2. z # y
    BY <2>1 DEF DomIn
  <2> QED
    BY <2>2, ReachClosed
<1>3. ReachAvoidingIn(g, 0) \subseteq S
  <2> HIDE DEF S
  <2> QED
    BY <1>1, <1>2, ReachLeast
<1> QED
  BY <1>3, ReachClosed DEF ReachableIn

\* A block other than the entry with at most one predecessor is in no
\* dominance frontier.
LEMMA OnePredNoFrontier ==
  ASSUME NEW g, IsFlowGraph(g), NEW y, y # Entry,
         \A p, q \in PredIn(g, y) : p = q,
         NEW b
  PROVE  y \notin FrontierIn(g, b)
<1> SUFFICES ASSUME y \in FrontierIn(g, b) PROVE FALSE
  OBVIOUS
<1>1. PICK p \in PredIn(g, y) : DomIn(g, b, p)
  BY DEF FrontierIn
<1>2. y \in ReachableIn(g) /\ ~SDomIn(g, b, y)
  BY DEF FrontierIn
<1>3. \A q \in ReachableIn(g) : y \in g[q] => q = p
  BY <1>1, ReachFacts DEF PredIn
<1>4. DomIn(g, b, y)
  BY <1>1, <1>2, <1>3, DomFromPreds
<1>5. b = y
  BY <1>2, <1>4 DEF SDomIn
<1> QED
  BY <1>1, <1>2, <1>3, <1>5, FirstEntered

\* On the way from a block down to one it strictly dominates lies a child of
\* it in the dominator tree.
LEMMA ChildToward ==
  ASSUME NEW g, IsFlowGraph(g), NEW a, NEW b, SDomIn(g, a, b)
  PROVE  \E c \in ChildrenIn(g, a) : DomIn(g, c, b)
<1> DEFINE B == DOMAIN g
           D(c) == {x \in B : DomIn(g, x, c)}
           C == {c \in B : SDomIn(g, a, c) /\ DomIn(g, c, b)}
           T == {Cardinality(D(c)) : c \in C}
<1>1. IsFiniteSet(B) /\ ReachableIn(g) \subseteq B
  BY ReachFacts DEF IsFlowGraph
<1>2. \A c : IsFiniteSet(D(c)) /\ Cardinality(D(c)) \in Nat
  <2> TAKE c
  <2>1. D(c) \subseteq B
    OBVIOUS
  <2> HIDE DEF B, D
  <2> QED
    BY <1>1, <2>1, FS_Subset, FS_CardinalityType
<1>3. b \in C
  <2>1. b \in ReachableIn(g)
    BY DomReachable DEF SDomIn
  <2> QED
    BY <1>1, <2>1, DomBasic
<1>4. PICK m \in T : \A k \in T : m <= k
  <2>1. T \in SUBSET Nat /\ T # {}
    BY <1>2, <1>3
  <2> HIDE DEF T
  <2> QED
    BY <2>1, LeastNat
<1>5. PICK c \in C : \A d \in C : Cardinality(D(c)) <= Cardinality(D(d))
  <2> HIDE DEF C, D
  <2> QED
    BY <1>4
<1>6. ASSUME NEW d \in B, SDomIn(g, d, c), ~DomIn(g, d, a) PROVE FALSE
  <2>1. /\ DomIn(g, d, c) /\ d # c /\ DomIn(g, a, c) /\ DomIn(g, c, b)
    BY <1>6 DEF SDomIn
  <2>2. DomIn(g, a, d)
    BY <1>6, <2>1, DomChain
  <2>3. a # d
    BY <1>6, <2>1, DomReachable, DomBasic
  <2>4. DomIn(g, d, b)
    BY <2>1, DomTransitive
  <2>5. d \in C
    BY <2>2, <2>3, <2>4 DEF SDomIn
  <2>6. D(d) \subseteq D(c)
    BY <2>1, DomTransitive
  <2>7. c \in D(c) /\ c \notin D(d)
    BY <2>1, DomReachable, DomBasic, DomAntisymmetric
  <2>8. Cardinality(D(d)) < Cardinality(D(c))
    <3>1. D(d) # D(c)
      BY <2>7
    <3>2. IsFiniteSet(D(c)) /\ Cardinality(D(c)) \in Nat /\ Cardinality(D(d)) \in Nat
      BY <1>2
    <3> HIDE DEF D
    <3>3. Cardinality(D(d)) <= Cardinality(D(c))
      BY <2>6, <3>2, FS_Subset
    <3>4. Cardinality(D(d)) # Cardinality(D(c))
      BY <2>6, <3>1, <3>2, FS_Subset
    <3> QED
      BY <3>2, <3>3, <3>4
  <2>9. Cardinality(D(c)) <= Cardinality(D(d))
    BY <1>5, <2>5
  <2> HIDE DEF D
  <2> QED
    BY <1>2, <2>8, <2>9
<1>7. c \in ChildrenIn(g, a)
  BY <1>6 DEF ChildrenIn, IsIdomIn
<1> QED
  BY <1>7
=============================================================================
