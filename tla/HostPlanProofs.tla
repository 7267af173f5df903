--------------------------- MODULE HostPlanProofs ---------------------------
(***************************************************************************)
(* TLAPS proofs about HostPlan, for every fleet.  Both plans are built by  *)
(* picking, again and again, the first of the hosts that may be placed:    *)
(* that pick is a CHOOSE, and means something only if there is one such    *)
(* host.  What the recursion computes is shown by the least round at which *)
(* it would go wrong; a plan that sticks is refuted by any order in which  *)
(* every host follows what it needs, as the first host of that order which *)
(* is not placed could be.  Handing hosts out along the plan then neither  *)
(* stalls nor overtakes a dependency.                                      *)
(***************************************************************************)
EXTENDS MCHostPlan, FiniteSetTheorems, TLAPS

\* A set of natural numbers has a least element: induction over a plan, or
\* over a schedule, is by the least counterexample.
LEMMA LeastNatural ==
  ASSUME NEW T \in SUBSET Nat, T # {}
  PROVE  \E m \in T : \A k \in T : ~(k < m)
  <1>1. PICK m \in T : \A k \in T : <<k, m>> \notin OpToRel(<, Nat)
    BY NatLessThanWellFounded, WFMin
  <1>2. \A k \in T : ~(k < m)
    BY <1>1 DEF OpToRel
  <1> QED BY <1>2

\* One of finitely many hosts has the least priority, which may be negative.
LEMMA LeastPriority ==
  ASSUME NEW S, IsFiniteSet(S), S # {}, NEW p \in [S -> Int]
  PROVE  \E a \in S : \A b \in S : p[a] <= p[b]
  <1>1. PICK n \in Nat : ExistsBijection(1 .. n, S)
    BY FS_NatBijection
  <1>2. PICK f \in Bijection(1 .. n, S) : TRUE
    BY <1>1 DEF ExistsBijection
  <1>3. f \in [1 .. n -> S] /\ \A b \in S : \E i \in 1 .. n : f[i] = b
    BY <1>2 DEF Bijection, Surjection, Injection
  <1> DEFINE c == [i \in 1 .. n |-> p[f[i]]]
             T == {k \in 1 .. n : ~\E i \in 1 .. k : \A j \in 1 .. k : c[i] <= c[j]}
  <1>4. c \in [1 .. n -> Int] /\ \A i \in 1 .. n : c[i] = p[f[i]]
    BY <1>3
  <1> HIDE DEF c
  <1>5. T = {}
    <2>1. SUFFICES ASSUME T # {} PROVE FALSE
      OBVIOUS
    <2>2. T \in SUBSET Nat
      OBVIOUS
    <2>3. PICK m \in T : \A k \in T : ~(k < m)
      BY <2>1, <2>2, LeastNatural
    <2>4. /\ m \in 1 .. n
          /\ ~\E i \in 1 .. m : \A j \in 1 .. m : c[i] <= c[j]
      BY <2>3
    <2>5. m # 1
      <3>1. CASE m = 1
        <4>1. c[1] \in Int /\ 1 .. m = {1}
          BY <1>4, <2>4, <3>1
        <4> QED BY <2>4, <4>1
      <3> QED BY <3>1
    <2>6. m - 1 \in 1 .. n /\ m - 1 < m
      BY <2>4, <2>5
    <2>7. PICK i \in 1 .. m - 1 : \A j \in 1 .. m - 1 : c[i] <= c[j]
      BY <2>3, <2>6
    <2> HIDE DEF T
    <2>8. \A j \in 1 .. m : c[j] \in Int /\ (j = m \/ j \in 1 .. m - 1)
      <3>1. \A j \in 1 .. m : j \in 1 .. n /\ (j = m \/ j \in 1 .. m - 1)
        BY <2>4
      <3> QED BY <1>4, <3>1
    <2>9. i \in 1 .. m /\ m \in 1 .. m
      BY <2>4
    <2>10. CASE c[i] <= c[m]
      BY <2>4, <2>7, <2>8, <2>9, <2>10
    <2>11. CASE ~(c[i] <= c[m])
      <3>1. \A j \in 1 .. m - 1 : c[m] <= c[j]
        <4>1. ASSUME NEW j \in 1 .. m - 1
              PROVE  c[m] <= c[j]
          <5>1. j \in 1 .. m /\ c[i] <= c[j]
            BY <2>4, <2>7
          <5>2. c[i] \in Int /\ c[j] \in Int /\ c[m] \in Int
            BY <2>8, <2>9, <5>1
          <5> QED BY <2>11, <5>1, <5>2
        <4> QED BY <4>1
      <3>2. c[m] <= c[m]
        BY <2>8, <2>9
      <3>3. \A j \in 1 .. m : c[m] <= c[j]
        BY <2>8, <3>1, <3>2
      <3> QED BY <2>4, <2>9, <3>3
    <2> QED BY <2>10, <2>11
  <1>6. n \in 1 .. n
    BY <1>1, <1>3
  <1>7. PICK i \in 1 .. n : \A j \in 1 .. n : c[i] <= c[j]
    BY <1>5, <1>6
  <1> HIDE DEF T
  <1>8. ASSUME NEW b \in S
        PROVE  p[f[i]] <= p[b]
    <2>1. PICK j \in 1 .. n : f[j] = b
      BY <1>3
    <2> QED BY <1>4, <1>7, <2>1
  <1> QED BY <1>3, <1>8

\* Of any finite set of hosts, whatever their priorities, exactly one is first
\* by (priority, ID), and First picks it: the order of the code's sort, and so
\* each step of the plans, is determined by the configuration alone.
THEOREM FirstIsTheFirst ==
  ASSUME NEW S \in SUBSET Nat, IsFiniteSet(S), S # {}, NEW p, \A h \in S : p[h] \in Int
  PROVE  /\ First(p, S) \in S
         /\ \A b \in S \ {First(p, S)} : /\ Before(p, First(p, S), b)
                                         /\ ~Before(p, b, First(p, S))
  <1> DEFINE g == [h \in S |-> p[h]]
  <1>1. g \in [S -> Int] /\ \A h \in S : g[h] = p[h]
    OBVIOUS
  <1> HIDE DEF g
  <1>2. PICK c \in S : \A b \in S : g[c] <= g[b]
    BY <1>1, LeastPriority
  <1>3. \A b \in S : p[c] <= p[b]
    BY <1>1, <1>2
  <1> DEFINE T == {h \in S : p[h] = p[c]}
  <1>4. PICK a \in T : \A k \in T : ~(k < a)
    <2>1. T \in SUBSET Nat /\ c \in T
      OBVIOUS
    <2> HIDE DEF T
    <2> QED BY <2>1, LeastNatural
  <1>5. a \in S /\ \A b \in S \ {a} : Before(p, a, b)
    <2>1. ASSUME NEW b \in S, b # a
          PROVE  Before(p, a, b)
      <3>1. p[a] = p[c] /\ p[a] <= p[b] /\ p[a] \in Int /\ p[b] \in Int
        BY <1>3, <1>4
      <3>2. CASE p[a] < p[b]
        BY <3>2 DEF Before
      <3>3. CASE p[b] = p[a]
        <4>1. ~(b < a) /\ a \in Nat /\ b \in Nat
          BY <1>4, <3>1, <3>3
        <4> QED BY <2>1, <3>3, <4>1 DEF Before
      <3> QED BY <3>1, <3>2, <3>3
    <2> QED BY <1>4, <2>1
  <1> DEFINE z == First(p, S)
  <1>6. z \in S /\ \A b \in S \ {z} : Before(p, z, b)
    BY <1>5 DEF First
  <1> HIDE DEF z
  <1>7. ASSUME NEW b \in S, b # z
        PROVE  ~Before(p, b, z)
    <2>1. Before(p, z, b) /\ p[z] \in Int /\ p[b] \in Int /\ z \in Nat /\ b \in Nat
      BY <1>6, <1>7
    <2> QED BY <2>1 DEF Before
  <1> QED BY <1>6, <1>7 DEF z

-----------------------------------------------------------------------------
(* What the recursion of Placed builds *)

StaysIn(N, S, step) == \A n \in 1 .. N : \A s \in S : step[n][s] \in S

IsIteration(N, S, s0, step, f) ==
  /\ f \in [0 .. N -> S]
  /\ f[0] = s0
  /\ \A n \in 1 .. N : f[n] = step[n][f[n - 1]]

\* A recursion over 0 .. N that stays in S defines a function.
LEMMA IterationExists ==
  ASSUME NEW N \in Nat, NEW S, NEW s0 \in S, NEW step, StaysIn(N, S, step)
  PROVE  \E f : IsIteration(N, S, s0, step, f)
  <1> SUFFICES \E f \in [0 .. N -> S] :
                 f[0] = s0 /\ \A n \in 1 .. N : f[n] = step[n][f[n - 1]]
    BY DEF IsIteration
  <1> DEFINE P(k) == \E f \in [0 .. k -> S] :
                       f[0] = s0 /\ \A n \in 1 .. k : f[n] = step[n][f[n - 1]]
             T == {k \in 0 .. N : ~P(k)}
  <1>1. SUFFICES ASSUME T # {} PROVE FALSE
    <2>1. N \in 0 .. N
      OBVIOUS
    <2> QED BY <2>1
  <1>2. T \in SUBSET Nat
    OBVIOUS
  <1>3. PICK m \in T : \A k \in T : ~(k < m)
    BY <1>1, <1>2, LeastNatural
  <1>4. m \in 0 .. N /\ ~P(m)
    BY <1>3
  <1>5. m # 0
    <2>1. CASE m = 0
      <3> DEFINE f == [i \in 0 .. 0 |-> s0]
      <3>1. f \in [0 .. 0 -> S] /\ f[0] = s0 /\ 1 .. 0 = {}
        OBVIOUS
      <3> QED BY <1>4, <2>1, <3>1
    <2> QED BY <2>1
  <1>6. m - 1 \in 0 .. N /\ m - 1 < m /\ m \in 1 .. N
    BY <1>4, <1>5
  <1>7. PICK f \in [0 .. m - 1 -> S] :
          f[0] = s0 /\ \A n \in 1 .. m - 1 : f[n] = step[n][f[n - 1]]
    BY <1>3, <1>6
  <1> DEFINE g == [i \in 0 .. m |-> IF i = m THEN step[m][f[m - 1]] ELSE f[i]]
  <1>8. g \in [0 .. m -> S]
    <2>1. f[m - 1] \in S
      BY <1>6, <1>7
    <2>2. step[m][f[m - 1]] \in S
      BY <1>6, <2>1 DEF StaysIn
    <2>3. \A i \in 0 .. m : i # m => f[i] \in S
      BY <1>6, <1>7
    <2> QED BY <2>2, <2>3
  <1>9. g[0] = s0
    BY <1>6, <1>7
  <1>10. ASSUME NEW n \in 1 .. m
         PROVE  g[n] = step[n][g[n - 1]]
    <2>1. n \in 0 .. m /\ n - 1 \in 0 .. m /\ n - 1 # m /\ (n # m => n \in 1 .. m - 1)
      BY <1>6
    <2>2. g[n - 1] = f[n - 1]
      BY <2>1
    <2>3. g[n] = IF n = m THEN step[m][f[m - 1]] ELSE f[n]
      BY <2>1
    <2> HIDE DEF g
    <2> QED BY <1>7, <2>1, <2>2, <2>3
  <1> HIDE DEF g
  <1> QED BY <1>4, <1>8, <1>9, <1>10

\* What such a recursion defines stays in S.
LEMMA IterationStays ==
  ASSUME NEW N \in Nat, NEW S, NEW s0 \in S, NEW step, StaysIn(N, S, step), NEW g,
         g = [n \in 0 .. N |-> IF n = 0 THEN s0 ELSE step[n][g[n - 1]]]
  PROVE  IsIteration(N, S, s0, step, g)
  <1>1. /\ g[0] = s0 /\ DOMAIN g = 0 .. N
        /\ \A n \in 1 .. N : g[n] = step[n][g[n - 1]]
    <2>1. 0 \in 0 .. N /\ \A n \in 1 .. N : n \in 0 .. N /\ n # 0
      OBVIOUS
    <2> QED BY <2>1
  <1> DEFINE T == {k \in 0 .. N : g[k] \notin S}
  <1>2. T = {}
    <2>1. SUFFICES ASSUME T # {} PROVE FALSE
      OBVIOUS
    <2>2. T \in SUBSET Nat
      OBVIOUS
    <2>3. PICK m \in T : \A k \in T : ~(k < m)
      BY <2>1, <2>2, LeastNatural
    <2>4. m \in 0 .. N /\ g[m] \notin S
      BY <2>3
    <2>5. m \in 1 .. N /\ m - 1 \in 0 .. N /\ m - 1 < m
      BY <1>1, <2>4
    <2>6. g[m - 1] \in S
      BY <2>3, <2>5
    <2>7. g[m] = step[m][g[m - 1]] /\ step[m][g[m - 1]] \in S
      BY <1>1, <2>5, <2>6 DEF StaysIn
    <2> QED BY <2>4, <2>7
  <1>3. \A k \in 0 .. N : g[k] \in S
    BY <1>2
  <1>4. g = [n \in 0 .. N |-> g[n]]
    OBVIOUS
  <1>5. g \in [0 .. N -> S]
    BY <1>3, <1>4
  <1> QED BY <1>1, <1>5 DEF IsIteration

\* One round of Placed.
Extended(p, E, needs, q) ==
  IF Ready(E, needs, Range(q)) = {} THEN q
  ELSE Append(q, First(p, Ready(E, needs, Range(q))))

LEMMA FirstReady ==
  ASSUME NEW E \in SUBSET Nat, IsFiniteSet(E), NEW p, \A h \in E : p[h] \in Int,
         NEW needs, NEW X, Ready(E, needs, X) # {}
  PROVE  /\ First(p, Ready(E, needs, X)) \in Ready(E, needs, X)
         /\ \A b \in Ready(E, needs, X) \ {First(p, Ready(E, needs, X))} :
              Before(p, First(p, Ready(E, needs, X)), b)
  <1> DEFINE R == Ready(E, needs, X)
  <1>1. R \in SUBSET E
    BY DEF Ready
  <1>2. R \in SUBSET Nat /\ IsFiniteSet(R) /\ R # {} /\ \A h \in R : p[h] \in Int
    BY <1>1, FS_Subset
  <1> HIDE DEF R
  <1>3. First(p, R) \in R /\ \A b \in R \ {First(p, R)} : Before(p, First(p, R), b)
    BY <1>2, FirstIsTheFirst
  <1> QED BY <1>3 DEF R

LEMMA PlacedRecursion ==
  ASSUME NEW E \in SUBSET Nat, IsFiniteSet(E), NEW p, \A h \in E : p[h] \in Int,
         NEW needs
  PROVE  \E g : /\ g[0] = <<>>
                /\ \A n \in 1 .. Cardinality(E) : g[n] = Extended(p, E, needs, g[n - 1])
                /\ Placed(p, E, needs) = g[Cardinality(E)]
  <1> DEFINE N == Cardinality(E)
  <1>1. N \in Nat
    BY FS_CardinalityType
  <1> DEFINE next == [q \in Seq(E) |-> Extended(p, E, needs, q)]
             step == [n \in 1 .. N |-> next]
  <1>2. next \in [Seq(E) -> Seq(E)]
    <2>1. ASSUME NEW q \in Seq(E)
          PROVE  Extended(p, E, needs, q) \in Seq(E)
      <3>1. CASE Ready(E, needs, Range(q)) = {}
        BY <3>1 DEF Extended
      <3>2. CASE Ready(E, needs, Range(q)) # {}
        <4> DEFINE a == First(p, Ready(E, needs, Range(q)))
        <4>1. a \in Ready(E, needs, Range(q))
          BY <3>2, FirstReady
        <4>2. a \in E
          BY <4>1 DEF Ready
        <4>3. Extended(p, E, needs, q) = Append(q, a)
          BY <3>2 DEF Extended
        <4> HIDE DEF a
        <4> QED BY <4>2, <4>3
      <3> QED BY <3>1, <3>2
    <2> QED BY <2>1
  <1>3. \A n \in 1 .. N : step[n] = next
    OBVIOUS
  <1>4. \A q \in Seq(E) : next[q] = Extended(p, E, needs, q)
    OBVIOUS
  <1>5. <<>> \in Seq(E)
    OBVIOUS
  <1> HIDE DEF N, next, step
  <1> DEFINE S == Seq(E)
             s0 == <<>>
  <1>6. s0 \in S /\ StaysIn(N, S, step)
    BY <1>2, <1>3, <1>5 DEF StaysIn
  <1> DEFINE r == CHOOSE g : g = [n \in 0 .. N |->
                     IF n = 0 THEN <<>> ELSE next[g[n - 1]]]
  <1>7. Placed(p, E, needs) = r[N]
    BY Zenon DEF Placed, Extended, N, next
  <1> HIDE DEF S, s0
  <1>8. PICK f : IsIteration(N, S, s0, step, f)
    BY <1>1, <1>6, IterationExists
  <1>9. f = [n \in 0 .. N |-> IF n = 0 THEN <<>> ELSE next[f[n - 1]]]
    <2>1. \A n \in 0 .. N : n = 0 \/ n \in 1 .. N
      BY <1>1
    <2>2. \A n \in 0 .. N : f[n] = IF n = 0 THEN <<>> ELSE next[f[n - 1]]
      BY <1>3, <1>8, <2>1 DEF IsIteration, s0
    <2>3. f = [n \in 0 .. N |-> f[n]]
      BY <1>8 DEF IsIteration
    <2> QED BY <2>2, <2>3
  <1>10. r = [n \in 0 .. N |-> IF n = 0 THEN <<>> ELSE next[r[n - 1]]]
    BY <1>9
  <1> HIDE DEF r
  <1>11. r = [n \in 0 .. N |-> IF n = 0 THEN s0 ELSE step[n][r[n - 1]]]
    <2>1. \A n \in 0 .. N : n = 0 \/ step[n] = next
      BY <1>1, <1>3
    <2> QED BY <1>10, <2>1 DEF s0
  <1>12. IsIteration(N, S, s0, step, r)
    BY <1>1, <1>6, <1>11, IterationStays
  <1>13. ASSUME NEW n \in 1 .. N
         PROVE  r[n] = Extended(p, E, needs, r[n - 1])
    <2>1. n - 1 \in 0 .. N
      BY <1>1
    <2>2. r[n - 1] \in Seq(E) /\ r[n] = next[r[n - 1]]
      BY <1>3, <1>12, <2>1 DEF IsIteration, S
    <2> QED BY <1>4, <2>2
  <1>14. r[0] = <<>>
    BY <1>12 DEF IsIteration, s0
  <1> QED BY <1>7, <1>13, <1>14 DEF N

Earlier(q, i) == {q[j] : j \in 1 .. i - 1}

\* Every host of q is the first of those that could be placed at its position.
Greedy(p, E, needs, q) ==
  /\ q \in Seq(E)
  /\ \A i \in 1 .. Len(q) :
       /\ Ready(E, needs, Earlier(q, i)) # {}
       /\ q[i] = First(p, Ready(E, needs, Earlier(q, i)))

LEMMA ExtendedGreedy ==
  ASSUME NEW E \in SUBSET Nat, IsFiniteSet(E), NEW p, \A h \in E : p[h] \in Int,
         NEW needs, NEW q, Greedy(p, E, needs, q)
  PROVE  /\ Greedy(p, E, needs, Extended(p, E, needs, q))
         /\ \/ Len(Extended(p, E, needs, q)) = Len(q) + 1
            \/ Extended(p, E, needs, q) = q /\ Ready(E, needs, Range(q)) = {}
  <1>1. CASE Ready(E, needs, Range(q)) = {}
    BY <1>1 DEF Extended
  <1>2. CASE Ready(E, needs, Range(q)) # {}
    <2> DEFINE a == First(p, Ready(E, needs, Range(q)))
               r == Append(q, a)
    <2>1. a \in Ready(E, needs, Range(q))
      BY <1>2, FirstReady
    <2>2. a \in E /\ q \in Seq(E)
      BY <2>1 DEF Ready, Greedy
    <2>3. Extended(p, E, needs, q) = r
      BY <1>2 DEF Extended
    <2>4. a = First(p, Ready(E, needs, Range(q)))
      OBVIOUS
    <2> HIDE DEF a
    <2>5. /\ r \in Seq(E) /\ Len(r) = Len(q) + 1 /\ Len(q) \in Nat
          /\ r[Len(q) + 1] = a
          /\ \A i \in 1 .. Len(q) : r[i] = q[i]
      BY <2>2
    <2>6. DOMAIN q = 1 .. Len(q)
      BY <2>2
    <2> HIDE DEF r
    <2>7. ASSUME NEW i \in 1 .. Len(q)
          PROVE  Earlier(r, i) = Earlier(q, i)
      <3>1. \A j \in 1 .. i - 1 : j \in 1 .. Len(q)
        BY <2>5
      <3> QED BY <2>5, <3>1 DEF Earlier
    <2>8. Earlier(r, Len(q) + 1) = Range(q)
      <3>1. 1 .. (Len(q) + 1) - 1 = 1 .. Len(q)
        BY <2>5
      <3>2. Earlier(r, Len(q) + 1) = {r[j] : j \in 1 .. Len(q)}
        BY <3>1 DEF Earlier
      <3> QED BY <2>5, <2>6, <3>2 DEF Range
    <2>9. ASSUME NEW i \in 1 .. Len(r)
          PROVE  /\ Ready(E, needs, Earlier(r, i)) # {}
                 /\ r[i] = First(p, Ready(E, needs, Earlier(r, i)))
      <3>1. i \in 1 .. Len(q) \/ i = Len(q) + 1
        BY <2>5
      <3>2. CASE i \in 1 .. Len(q)
        BY <2>5, <2>7, <3>2 DEF Greedy
      <3>3. CASE i = Len(q) + 1
        BY <1>2, <2>4, <2>5, <2>8, <3>3
      <3> QED BY <3>1, <3>2, <3>3
    <2> QED BY <2>3, <2>5, <2>9 DEF Greedy
  <1> QED BY <1>1, <1>2

LEMMA PlacedGreedy ==
  ASSUME NEW E \in SUBSET Nat, IsFiniteSet(E), NEW p, \A h \in E : p[h] \in Int,
         NEW needs
  PROVE  /\ Greedy(p, E, needs, Placed(p, E, needs))
         /\ \/ Len(Placed(p, E, needs)) = Cardinality(E)
            \/ /\ Len(Placed(p, E, needs)) < Cardinality(E)
               /\ Ready(E, needs, Range(Placed(p, E, needs))) = {}
  <1> DEFINE N == Cardinality(E)
  <1>1. N \in Nat
    BY FS_CardinalityType
  <1>2. PICK g : /\ g[0] = <<>>
                 /\ \A n \in 1 .. N : g[n] = Extended(p, E, needs, g[n - 1])
                 /\ Placed(p, E, needs) = g[N]
    BY PlacedRecursion
  <1> HIDE DEF N
  <1> DEFINE Holds(n) == /\ Greedy(p, E, needs, g[n])
                         /\ \/ Len(g[n]) = n
                            \/ Len(g[n]) < n /\ Ready(E, needs, Range(g[n])) = {}
             T == {n \in 0 .. N : ~Holds(n)}
  <1>3. T = {}
    <2>1. SUFFICES ASSUME T # {} PROVE FALSE
      OBVIOUS
    <2>2. T \in SUBSET Nat
      OBVIOUS
    <2>3. PICK m \in T : \A k \in T : ~(k < m)
      BY <2>1, <2>2, LeastNatural
    <2>4. m \in 0 .. N /\ ~Holds(m)
      BY <2>3
    <2>5. Holds(0)
      <3>1. <<>> \in Seq(E) /\ Len(<<>>) = 0 /\ 1 .. 0 = {}
        OBVIOUS
      <3>2. Greedy(p, E, needs, <<>>)
        BY <3>1 DEF Greedy
      <3> QED BY <1>2, <3>1, <3>2
    <2>6. m # 0
      BY <2>4, <2>5
    <2>7. m \in 1 .. N /\ m - 1 \in 0 .. N /\ m - 1 < m
      <3>1. m \in 0 .. N
        BY <2>4
      <3> HIDE DEF T, Holds
      <3> QED BY <1>1, <2>6, <3>1
    <2>8. Holds(m - 1)
      BY <2>3, <2>7
    <2> DEFINE q == g[m - 1]
    <2> HIDE DEF T
    <2>9. g[m] = Extended(p, E, needs, q)
      BY <1>2, <2>7
    <2>10. /\ Greedy(p, E, needs, q)
           /\ \/ Len(q) = m - 1
              \/ Len(q) < m - 1 /\ Ready(E, needs, Range(q)) = {}
      BY <2>8
    <2> HIDE DEF q
    <2>11. Len(q) \in Nat
      BY <2>10 DEF Greedy
    <2>12. CASE Ready(E, needs, Range(q)) = {}
      <3>1. g[m] = q
        BY <2>9, <2>12 DEF Extended
      <3>2. Len(q) < m
        BY <2>7, <2>10, <2>11
      <3> QED BY <2>4, <2>10, <2>12, <3>1, <3>2
    <2>13. CASE Ready(E, needs, Range(q)) # {}
      <3>1. Greedy(p, E, needs, g[m]) /\ Len(g[m]) = Len(q) + 1
        BY <2>9, <2>10, <2>13, ExtendedGreedy
      <3>2. Len(g[m]) = m
        BY <2>7, <2>10, <2>13, <3>1
      <3> QED BY <2>4, <3>1, <3>2
    <2> QED BY <2>12, <2>13
  <1>4. N \in 0 .. N
    BY <1>1
  <1>5. Holds(N)
    BY <1>3, <1>4
  <1> HIDE DEF T
  <1> QED BY <1>2, <1>5 DEF N

\* A greedy sequence places no host twice and every host after what it needs,
\* and no host that could have been placed at a position comes before the one
\* that was.
LEMMA GreedyOrder ==
  ASSUME NEW E \in SUBSET Nat, IsFiniteSet(E), NEW p, \A h \in E : p[h] \in Int,
         NEW needs, NEW q, Greedy(p, E, needs, q)
  PROVE  /\ Len(q) \in Nat /\ q \in [1 .. Len(q) -> E]
         /\ \A i \in 1 .. Len(q) :
              /\ needs[q[i]] \subseteq Earlier(q, i)
              /\ \A b \in Ready(E, needs, Earlier(q, i)) \ {q[i]} : Before(p, q[i], b)
         /\ \A i, j \in 1 .. Len(q) : q[i] = q[j] => i = j
  <1>1. Len(q) \in Nat /\ q \in [1 .. Len(q) -> E]
    BY DEF Greedy
  <1>2. ASSUME NEW i \in 1 .. Len(q)
        PROVE  /\ q[i] \in Ready(E, needs, Earlier(q, i))
               /\ \A b \in Ready(E, needs, Earlier(q, i)) \ {q[i]} : Before(p, q[i], b)
    <2> DEFINE X == Earlier(q, i)
    <2>1. Ready(E, needs, X) # {} /\ q[i] = First(p, Ready(E, needs, X))
      BY DEF Greedy
    <2> HIDE DEF X
    <2>2. /\ q[i] \in Ready(E, needs, X)
          /\ \A b \in Ready(E, needs, X) \ {q[i]} : Before(p, q[i], b)
      BY <2>1, FirstReady
    <2> QED BY <2>2 DEF X
  <1>3. \A i \in 1 .. Len(q) : q[i] \notin Earlier(q, i) /\ needs[q[i]] \subseteq Earlier(q, i)
    BY <1>2 DEF Ready
  <1>4. ASSUME NEW i \in 1 .. Len(q), NEW j \in 1 .. Len(q), q[i] = q[j], i < j
        PROVE  FALSE
    <2>1. i \in 1 .. j - 1
      BY <1>1, <1>4
    <2>2. q[i] \in Earlier(q, j)
      BY <2>1 DEF Earlier
    <2> QED BY <1>3, <1>4, <2>2
  <1>5. ASSUME NEW i \in 1 .. Len(q), NEW j \in 1 .. Len(q), q[i] = q[j]
        PROVE  i = j
    <2>1. i = j \/ i < j \/ j < i
      BY <1>1
    <2> QED BY <1>4, <1>5, <2>1
  <1> QED BY <1>1, <1>2, <1>3, <1>5

LEMMA FullPlan ==
  ASSUME NEW E \in SUBSET Nat, IsFiniteSet(E), NEW p, \A h \in E : p[h] \in Int,
         NEW needs, NEW q, Greedy(p, E, needs, q), Len(q) = Cardinality(E)
  PROVE  Range(q) = E
  <1> DEFINE N == Len(q)
  <1>1. /\ N \in Nat /\ q \in [1 .. N -> E]
        /\ \A i, j \in 1 .. N : q[i] = q[j] => i = j
    BY GreedyOrder
  <1>2. N = Cardinality(E)
    OBVIOUS
  <1> HIDE DEF N
  <1>3. Cardinality(1 .. N) = N
    BY <1>1, FS_Interval
  <1>4. q \in Injection(1 .. N, E)
    BY <1>1 DEF Injection, IsInjective
  <1>5. q \in Surjection(1 .. N, E)
    BY <1>2, <1>3, <1>4, FS_Injection
  <1>6. \A h \in E : \E i \in 1 .. N : q[i] = h
    BY <1>5 DEF Surjection
  <1>7. DOMAIN q = 1 .. N /\ \A i \in 1 .. N : q[i] \in E
    BY <1>1
  <1> QED BY <1>6, <1>7, Zenon DEF Range

\* o, up to k, holds every host of E, after what it needs.
Orders(o, k, E, needs) ==
  /\ \A h \in E : \E i \in 1 .. k : o[i] = h
  /\ \A i, j \in 1 .. k : o[i] \in E /\ o[j] \in needs[o[i]] => j < i

\* The plan places every host if there is any order, of these hosts or of
\* more, in which each host comes after what it needs.
LEMMA NotStuck ==
  ASSUME NEW E \in SUBSET Nat, IsFiniteSet(E), NEW p, \A h \in E : p[h] \in Int,
         NEW needs, \A h \in E : needs[h] \subseteq E,
         NEW k \in Nat, NEW o, Orders(o, k, E, needs)
  PROVE  Len(Placed(p, E, needs)) = Cardinality(E)
  <1> DEFINE q == Placed(p, E, needs)
  <1>1. /\ Greedy(p, E, needs, q)
        /\ \/ Len(q) = Cardinality(E)
           \/ Len(q) < Cardinality(E) /\ Ready(E, needs, Range(q)) = {}
    BY PlacedGreedy
  <1> HIDE DEF q
  <1>2. SUFFICES ASSUME Len(q) < Cardinality(E), Ready(E, needs, Range(q)) = {}
                 PROVE  FALSE
    BY <1>1 DEF q
  <1>3. Len(q) \in Nat /\ q \in [1 .. Len(q) -> E]
    BY <1>1, GreedyOrder
  <1>4. Range(q) # E
    <2>1. SUFFICES ASSUME Range(q) = E PROVE FALSE
      OBVIOUS
    <2> DEFINE n == Len(q)
    <2>2. q \in Surjection(1 .. n, E) /\ n \in Nat
      BY <1>3, <2>1 DEF Surjection, Range
    <2> HIDE DEF n
    <2>3. IsFiniteSet(1 .. n) /\ Cardinality(1 .. n) = n
      BY <2>2, FS_Interval
    <2>4. Cardinality(E) <= Len(q)
      BY <2>2, <2>3, FS_Surjection DEF n
    <2>5. Cardinality(E) \in Nat
      BY FS_CardinalityType
    <2> QED BY <1>2, <1>3, <2>4, <2>5
  <1>5. Range(q) \subseteq E
    BY <1>3 DEF Range
  <1>6. PICK h \in E : h \notin Range(q)
    BY <1>4, <1>5
  <1> DEFINE T == {i \in 1 .. k : o[i] \in E /\ o[i] \notin Range(q)}
  <1>7. T # {} /\ T \in SUBSET Nat
    BY <1>6 DEF Orders
  <1>8. PICK m \in T : \A i \in T : ~(i < m)
    BY <1>7, LeastNatural
  <1>9. m \in 1 .. k /\ o[m] \in E /\ o[m] \notin Range(q)
    BY <1>8
  <1>10. ASSUME NEW d \in needs[o[m]]
         PROVE  d \in Range(q)
    <2>1. PICK j \in 1 .. k : o[j] = d
      BY <1>9 DEF Orders
    <2>2. j < m /\ o[j] \in E
      BY <1>9, <2>1 DEF Orders
    <2> QED BY <1>8, <2>1, <2>2
  <1>11. o[m] \in Ready(E, needs, Range(q))
    BY <1>9, <1>10 DEF Ready
  <1> QED BY <1>2, <1>11

-----------------------------------------------------------------------------
(* The shutdown plan *)

\* A sort: every host once, each before all that come after it.
LEMMA SortedInOrder ==
  ASSUME NEW S \in SUBSET Nat, IsFiniteSet(S), NEW p, \A h \in S : p[h] \in Int
  PROVE  /\ Sorted(p, S) \in Orderings(S)
         /\ \A i, j \in DOMAIN Sorted(p, S) :
              i < j => Before(p, Sorted(p, S)[i], Sorted(p, S)[j])
  <1> DEFINE needs == [h \in S |-> {}]
             q == Placed(p, S, needs)
             N == Cardinality(S)
  <1>1. Sorted(p, S) = q
    BY DEF Sorted
  <1>2. \A h \in S : needs[h] = {} /\ needs[h] \subseteq S
    OBVIOUS
  <1> HIDE DEF needs, q
  <1>3. N \in Nat /\ ExistsBijection(1 .. N, S)
    BY FS_CardinalityType
  <1>4. PICK o \in Bijection(1 .. N, S) : TRUE
    BY <1>3 DEF ExistsBijection
  <1>5. Orders(o, N, S, needs)
    BY <1>2, <1>4 DEF Orders, Bijection, Surjection
  <1>6. N = Cardinality(S)
    OBVIOUS
  <1> HIDE DEF N
  <1>7. Len(q) = N
    BY <1>2, <1>3, <1>5, <1>6, NotStuck DEF q
  <1>8. Greedy(p, S, needs, q)
    BY PlacedGreedy DEF q
  <1>9. Range(q) = S
    BY <1>6, <1>7, <1>8, FullPlan
  <1>10. /\ q \in [1 .. N -> S] /\ DOMAIN q = 1 .. N
         /\ \A i \in 1 .. N : \A b \in Ready(S, needs, Earlier(q, i)) \ {q[i]} :
              Before(p, q[i], b)
         /\ \A i, j \in 1 .. N : q[i] = q[j] => i = j
    <2>1. /\ q \in [1 .. Len(q) -> S]
          /\ \A i \in 1 .. Len(q) : \A b \in Ready(S, needs, Earlier(q, i)) \ {q[i]} :
               Before(p, q[i], b)
          /\ \A i, j \in 1 .. Len(q) : q[i] = q[j] => i = j
      BY <1>8, GreedyOrder
    <2> QED BY <1>7, <2>1
  <1>11. q \in Orderings(S)
    BY <1>6, <1>9, <1>10 DEF Orderings
  <1>12. ASSUME NEW i \in 1 .. N, NEW j \in 1 .. N, i < j
         PROVE  Before(p, q[i], q[j])
    <2>1. \A k \in 1 .. i - 1 : k \in 1 .. N /\ k # j
      BY <1>3, <1>12
    <2>2. q[j] \notin Earlier(q, i)
      BY <1>10, <2>1 DEF Earlier
    <2>3. q[j] \in Ready(S, needs, Earlier(q, i))
      BY <1>2, <1>10, <2>2 DEF Ready
    <2>4. q[j] # q[i]
      BY <1>3, <1>10, <1>12
    <2> QED BY <1>10, <2>3, <2>4
  <1> QED BY <1>1, <1>10, <1>11, <1>12

\* BuildShutdownPlan, for every configuration: each host with a command of its
\* own is asked once, in the order of (shutdown priority, ID), and the hosts of
\* the NUT group are listed once, by ID.
THEOREM ShutdownPlanSorted ==
  ASSUME NEW c, DOMAIN c \in SUBSET Nat, IsFiniteSet(DOMAIN c),
         \A h \in DOMAIN c : c[h].shutdownPriority \in Int
  PROVE  LET pre == BuildShutdownPlan(c).preFSD
             group == BuildShutdownPlan(c).nutGroup
         IN  /\ pre \in Orderings(DirectHosts(c))
             /\ \A i, j \in DOMAIN pre : i < j =>
                  Before([h \in DOMAIN c |-> c[h].shutdownPriority], pre[i], pre[j])
             /\ group \in Orderings(NUTManaged(c))
             /\ \A i, j \in DOMAIN group : i < j => group[i] < group[j]
  <1> DEFINE D == DirectHosts(c)
             G == NUTManaged(c)
             p == [h \in DOMAIN c |-> c[h].shutdownPriority]
             z == [h \in DOMAIN c |-> 0]
             pre == Sorted(p, D)
             group == Sorted(z, G)
  <1>1. BuildShutdownPlan(c).preFSD = pre /\ BuildShutdownPlan(c).nutGroup = group
    BY DEF BuildShutdownPlan
  <1>2. D \subseteq DOMAIN c /\ G \subseteq DOMAIN c
    BY DEF DirectHosts, NUTManaged
  <1>3. /\ D \in SUBSET Nat /\ IsFiniteSet(D)
        /\ G \in SUBSET Nat /\ IsFiniteSet(G)
    BY <1>2, FS_Subset
  <1>4. (\A h \in D : p[h] \in Int) /\ \A h \in G : z[h] = 0 /\ z[h] \in Int
    BY <1>2
  <1>5. p = [h \in DOMAIN c |-> c[h].shutdownPriority]
    OBVIOUS
  <1> HIDE DEF D, G, p, z
  <1>6. pre \in Orderings(D) /\ \A i, j \in DOMAIN pre : i < j => Before(p, pre[i], pre[j])
    BY <1>3, <1>4, SortedInOrder
  <1>7. /\ group \in Orderings(G)
        /\ \A i, j \in DOMAIN group : i < j => Before(z, group[i], group[j])
    BY <1>3, <1>4, SortedInOrder
  <1> HIDE DEF pre, group
  <1>8. \A i \in DOMAIN group : group[i] \in G
    BY <1>7 DEF Orderings
  <1>9. ASSUME NEW i \in DOMAIN group, NEW j \in DOMAIN group, i < j
        PROVE  group[i] < group[j]
    <2>1. Before(z, group[i], group[j])
      BY <1>7, <1>9
    <2>2. z[group[i]] = 0 /\ z[group[j]] = 0
      BY <1>4, <1>8
    <2> QED BY <2>1, <2>2 DEF Before
  <1>10. pre \in Orderings(DirectHosts(c)) /\ group \in Orderings(NUTManaged(c))
    BY <1>6, <1>7 DEF D, G
  <1> QED BY <1>1, <1>5, <1>6, <1>9, <1>10

-----------------------------------------------------------------------------
(* The recovery plan *)

WakePriority(c) == [h \in DOMAIN c |-> c[h].wakePriority]

\* A configuration and a set of its hosts that can be planned.
Plannable(c, E) ==
  /\ E \in SUBSET Nat /\ IsFiniteSet(E) /\ E \subseteq DOMAIN c
  /\ \A h \in E : c[h].wakePriority \in Int

LEMMA NeedsFacts ==
  ASSUME NEW c, NEW E
  PROVE  \A h \in E : /\ Needs(c, E)[h] = c[h].dependsOn \cap E
                      /\ Needs(c, E)[h] \subseteq E
  BY DEF Needs

LEMMA RecoveryPlanGreedy ==
  ASSUME NEW c, NEW E, Plannable(c, E)
  PROVE  /\ \A h \in E : WakePriority(c)[h] \in Int
         /\ BuildRecoveryPlan(c, E) = Placed(WakePriority(c), E, Needs(c, E))
         /\ Greedy(WakePriority(c), E, Needs(c, E), BuildRecoveryPlan(c, E))
  <1>1. /\ \A h \in E : WakePriority(c)[h] \in Int
        /\ E \in SUBSET Nat /\ IsFiniteSet(E)
    BY DEF WakePriority, Plannable
  <1>2. BuildRecoveryPlan(c, E) = Placed(WakePriority(c), E, Needs(c, E))
    BY DEF BuildRecoveryPlan, WakePriority
  <1>3. Greedy(WakePriority(c), E, Needs(c, E), Placed(WakePriority(c), E, Needs(c, E)))
    BY <1>1, PlacedGreedy
  <1> QED BY <1>1, <1>2, <1>3

\* In a plan without a cycle every host has one position, after those of its
\* eligible dependencies.
LEMMA PlanPositions ==
  ASSUME NEW c, NEW E, Plannable(c, E), ~PlanFails(c, E)
  PROVE  LET q == BuildRecoveryPlan(c, E)
             N == Cardinality(E)
         IN  /\ N \in Nat /\ q \in [1 .. N -> E] /\ Len(q) = N
             /\ DOMAIN q = 1 .. N /\ Range(q) = E
             /\ \A h \in E : \E i \in 1 .. N : q[i] = h
             /\ \A i \in 1 .. N : \A d \in c[q[i]].dependsOn \cap E :
                  \E j \in 1 .. i - 1 : q[j] = d
             /\ \A i, j \in 1 .. N : q[i] = q[j] => i = j
  <1> DEFINE q == BuildRecoveryPlan(c, E)
             N == Cardinality(E)
             p == WakePriority(c)
             needs == Needs(c, E)
  <1>1. E \in SUBSET Nat /\ IsFiniteSet(E) /\ \A h \in E : p[h] \in Int
    BY RecoveryPlanGreedy DEF Plannable
  <1>2. Greedy(p, E, needs, q)
    BY RecoveryPlanGreedy
  <1>3. Len(q) = N
    BY DEF PlanFails
  <1>4. \A h \in E : needs[h] = c[h].dependsOn \cap E
    BY NeedsFacts
  <1> HIDE DEF q, N, p, needs
  <1>5. /\ N \in Nat /\ q \in [1 .. N -> E]
        /\ \A i \in 1 .. N : needs[q[i]] \subseteq Earlier(q, i)
        /\ \A i, j \in 1 .. N : q[i] = q[j] => i = j
    <2>1. /\ Len(q) \in Nat /\ q \in [1 .. Len(q) -> E]
          /\ \A i \in 1 .. Len(q) : needs[q[i]] \subseteq Earlier(q, i)
          /\ \A i, j \in 1 .. Len(q) : q[i] = q[j] => i = j
      BY <1>1, <1>2, GreedyOrder
    <2> QED BY <1>3, <2>1
  <1>6. Range(q) = E
    BY <1>1, <1>2, <1>3, FullPlan DEF N
  <1>7. DOMAIN q = 1 .. N
    BY <1>5
  <1>8. \A h \in E : \E i \in 1 .. N : q[i] = h
    BY <1>6, <1>7 DEF Range
  <1>9. ASSUME NEW i \in 1 .. N, NEW d \in c[q[i]].dependsOn \cap E
        PROVE  \E j \in 1 .. i - 1 : q[j] = d
    <2>1. q[i] \in E
      BY <1>5
    <2>2. d \in Earlier(q, i)
      BY <1>4, <1>5, <2>1
    <2> QED BY <2>2 DEF Earlier
  <1>10. /\ N \in Nat /\ q \in [1 .. N -> E] /\ Len(q) = N
         /\ DOMAIN q = 1 .. N /\ Range(q) = E
         /\ \A h \in E : \E i \in 1 .. N : q[i] = h
         /\ \A i \in 1 .. N : \A d \in c[q[i]].dependsOn \cap E :
              \E j \in 1 .. i - 1 : q[j] = d
         /\ \A i, j \in 1 .. N : q[i] = q[j] => i = j
    BY <1>3, <1>5, <1>6, <1>7, <1>8, <1>9
  <1> QED BY <1>10 DEF q, N

LEMMA PlanTopological ==
  ASSUME NEW c, NEW E, Plannable(c, E), ~PlanFails(c, E)
  PROVE  /\ BuildRecoveryPlan(c, E) \in Orderings(E)
         /\ Topological(c, BuildRecoveryPlan(c, E))
  <1> DEFINE q == BuildRecoveryPlan(c, E)
             N == Cardinality(E)
  <1>1. /\ N \in Nat /\ q \in [1 .. N -> E]
        /\ DOMAIN q = 1 .. N /\ Range(q) = E
        /\ \A i \in 1 .. N : \A d \in c[q[i]].dependsOn \cap E :
             \E j \in 1 .. i - 1 : q[j] = d
        /\ \A i, j \in 1 .. N : q[i] = q[j] => i = j
    BY PlanPositions
  <1>2. q \in Orderings(E)
    BY <1>1 DEF Orderings
  <1> HIDE DEF q, N
  <1>3. ASSUME NEW i \in 1 .. N, NEW j \in 1 .. N, q[j] \in c[q[i]].dependsOn
        PROVE  j < i
    <2>1. q[j] \in E
      BY <1>1
    <2>2. PICK k \in 1 .. i - 1 : q[k] = q[j]
      BY <1>1, <1>3, <2>1
    <2>3. k \in 1 .. N /\ k < i
      BY <1>1
    <2> QED BY <1>1, <2>2, <2>3
  <1>4. Topological(c, q)
    BY <1>1, <1>3 DEF Topological
  <1> QED BY <1>2, <1>4 DEF q

\* Any order of these hosts, or of more, that respects the dependencies of
\* these is enough for a plan.
LEMMA OrderedPlanSucceeds ==
  ASSUME NEW c, NEW E, Plannable(c, E), NEW k \in Nat, NEW o,
         \A h \in E : \E i \in 1 .. k : o[i] = h,
         \A i, j \in 1 .. k : o[i] \in E /\ o[j] \in c[o[i]].dependsOn => j < i
  PROVE  ~PlanFails(c, E)
  <1> DEFINE p == WakePriority(c)
             needs == Needs(c, E)
  <1>1. E \in SUBSET Nat /\ IsFiniteSet(E) /\ \A h \in E : p[h] \in Int
    BY RecoveryPlanGreedy DEF Plannable
  <1>2. BuildRecoveryPlan(c, E) = Placed(p, E, needs)
    BY RecoveryPlanGreedy
  <1>3. \A h \in E : needs[h] \subseteq E
    BY NeedsFacts
  <1>4. Orders(o, k, E, needs)
    BY NeedsFacts DEF Orders
  <1> HIDE DEF p, needs
  <1>5. Len(Placed(p, E, needs)) = Cardinality(E)
    BY <1>1, <1>3, <1>4, NotStuck
  <1> QED BY <1>2, <1>5 DEF PlanFails

\* Of the orders that respect the dependencies, the plan is the first.
LEMMA PlanLexFirst ==
  ASSUME NEW c, NEW E, Plannable(c, E), ~PlanFails(c, E),
         NEW o \in Orderings(E), Topological(c, o), o # BuildRecoveryPlan(c, E)
  PROVE  LexBefore(c, BuildRecoveryPlan(c, E), o)
  <1> DEFINE q == BuildRecoveryPlan(c, E)
             N == Cardinality(E)
             p == WakePriority(c)
             needs == Needs(c, E)
  <1>1. /\ E \in SUBSET Nat /\ IsFiniteSet(E)
        /\ \A h \in E : p[h] \in Int
        /\ Greedy(p, E, needs, q)
    BY RecoveryPlanGreedy DEF Plannable
  <1>2. N \in Nat /\ q \in [1 .. N -> E] /\ Len(q) = N
    BY PlanPositions
  <1>3. o \in [1 .. N -> E] /\ Range(o) = E /\ DOMAIN o = 1 .. N
    BY DEF Orderings
  <1>4. \A h \in E : needs[h] = c[h].dependsOn \cap E
    BY NeedsFacts
  <1>5. N = Cardinality(E)
    OBVIOUS
  <1>6. o # q
    OBVIOUS
  <1>7. p = [h \in DOMAIN c |-> c[h].wakePriority]
    BY DEF WakePriority
  <1> HIDE DEF q, N, p, needs
  <1>8. \A h \in E : \E i \in 1 .. N : o[i] = h
    BY <1>3 DEF Range
  <1>9. \A i, j \in 1 .. N : o[i] = o[j] => i = j
    <2>1. o \in Surjection(1 .. N, E)
      BY <1>3, <1>8 DEF Surjection
    <2>2. IsFiniteSet(1 .. N) /\ Cardinality(1 .. N) = Cardinality(E)
      BY <1>2, <1>5, FS_Interval
    <2>3. o \in Injection(1 .. N, E)
      BY <2>1, <2>2, FS_SurjSameCardinalityImpliesInj
    <2> QED BY <1>3, <2>3 DEF Injection, IsInjective
  <1>10. \A i, j \in 1 .. N : o[j] \in c[o[i]].dependsOn => j < i
    BY <1>3 DEF Topological
  <1> DEFINE T == {i \in 1 .. N : q[i] # o[i]}
  <1>11. T \in SUBSET Nat
    OBVIOUS
  <1>12. T # {}
    <2>1. SUFFICES ASSUME \A i \in 1 .. N : q[i] = o[i] PROVE FALSE
      OBVIOUS
    <2> QED BY <1>2, <1>3, <1>6, <2>1
  <1>13. PICK m \in T : \A i \in T : ~(i < m)
    BY <1>11, <1>12, LeastNatural
  <1>14. m \in 1 .. N /\ q[m] # o[m]
    BY <1>13
  <1>15. \A j \in 1 .. m - 1 : j \in 1 .. N /\ q[j] = o[j] /\ j # m
    <2>1. \A j \in 1 .. m - 1 : j \in 1 .. N /\ j < m /\ j # m
      BY <1>2, <1>14
    <2> QED BY <1>13, <2>1
  <1> HIDE DEF T
  <1>16. Earlier(q, m) = Earlier(o, m)
    BY <1>15 DEF Earlier
  <1>17. o[m] \in Ready(E, needs, Earlier(o, m))
    <2>1. o[m] \in E
      BY <1>3, <1>14
    <2>2. o[m] \notin Earlier(o, m)
      BY <1>9, <1>14, <1>15 DEF Earlier
    <2>3. ASSUME NEW d \in needs[o[m]]
          PROVE  d \in Earlier(o, m)
      <3>1. d \in E /\ d \in c[o[m]].dependsOn
        BY <1>4, <2>1
      <3>2. PICK j \in 1 .. N : o[j] = d
        BY <1>8, <3>1
      <3>3. j < m
        BY <1>10, <1>14, <3>1, <3>2
      <3>4. j \in 1 .. m - 1
        BY <1>2, <1>14, <3>3
      <3> QED BY <3>2, <3>4 DEF Earlier
    <2> QED BY <2>1, <2>2, <2>3 DEF Ready
  <1>18. Before(p, q[m], o[m])
    <2>1. \A i \in 1 .. Len(q) :
            \A b \in Ready(E, needs, Earlier(q, i)) \ {q[i]} : Before(p, q[i], b)
      BY <1>1, GreedyOrder
    <2> QED BY <1>2, <1>14, <1>16, <1>17, <2>1
  <1>19. m \in DOMAIN q
    BY <1>2, <1>14
  <1>20. LexBefore(c, q, o)
    BY <1>7, <1>15, <1>18, <1>19 DEF LexBefore
  <1> QED BY <1>20 DEF q

\* What PlanIsFirstTopological says, of any configuration and any hosts.
LEMMA PlanFirst ==
  ASSUME NEW c, NEW E, Plannable(c, E)
  PROVE  LET orders == {q \in Orderings(E) : Topological(c, q)}
             q == BuildRecoveryPlan(c, E)
         IN  /\ PlanFails(c, E) <=> orders = {}
             /\ orders # {} =>
                  q \in orders /\ \A o \in orders \ {q} : LexBefore(c, q, o)
  <1> DEFINE orders == {q \in Orderings(E) : Topological(c, q)}
             q == BuildRecoveryPlan(c, E)
  <1>1. ~PlanFails(c, E) => q \in orders
    BY PlanTopological
  <1>2. ASSUME NEW o \in orders
        PROVE  ~PlanFails(c, E)
    <2> DEFINE k == Cardinality(E)
    <2>1. k \in Nat
      BY FS_CardinalityType DEF Plannable
    <2>2. o \in [1 .. k -> E] /\ Range(o) = E /\ DOMAIN o = 1 .. k
      BY <1>2 DEF Orderings
    <2>3. Topological(c, o)
      BY <1>2
    <2> HIDE DEF k
    <2>4. \A h \in E : \E i \in 1 .. k : o[i] = h
      BY <2>2 DEF Range
    <2>5. \A i, j \in 1 .. k : o[i] \in E /\ o[j] \in c[o[i]].dependsOn => j < i
      BY <2>2, <2>3 DEF Topological
    <2> QED BY <2>1, <2>4, <2>5, OrderedPlanSucceeds
  <1>3. ASSUME ~PlanFails(c, E), NEW o \in orders \ {q}
        PROVE  LexBefore(c, q, o)
    BY <1>3, PlanLexFirst
  <1>4. PlanFails(c, E) <=> orders = {}
    BY <1>1, <1>2
  <1> HIDE DEF orders, q
  <1> QED BY <1>1, <1>3, <1>4 DEF orders, q

\* A fleet that can be planned as a whole, as the validation of the armed
\* configuration demands, can be planned in every outage: whichever of its
\* hosts are to be restored, BuildRecoveryPlan reports no cycle.
THEOREM NoCycleLater ==
  ASSUME NEW c, NEW S, Plannable(c, S), ~PlanFails(c, S),
         NEW d, NEW E, Plannable(d, E), E \subseteq S,
         \A h \in E : d[h].dependsOn = c[h].dependsOn
  PROVE  ~PlanFails(d, E)
  <1> DEFINE o == BuildRecoveryPlan(c, S)
             k == Cardinality(S)
  <1>1. /\ k \in Nat /\ o \in [1 .. k -> S] /\ DOMAIN o = 1 .. k
        /\ \A h \in S : \E i \in 1 .. k : o[i] = h
    BY PlanPositions
  <1>2. Topological(c, o)
    BY PlanTopological
  <1> HIDE DEF o, k
  <1>3. \A h \in E : \E i \in 1 .. k : o[i] = h
    BY <1>1
  <1>4. \A i, j \in 1 .. k : o[i] \in E /\ o[j] \in d[o[i]].dependsOn => j < i
    BY <1>1, <1>2 DEF Topological
  <1> QED BY <1>1, <1>3, <1>4, OrderedPlanSucceeds

\* Some host of a set is first in the plan: it depends on no other of the set.
LEMMA FirstInPlan ==
  ASSUME NEW c, NEW E, Plannable(c, E), ~PlanFails(c, E), NEW U \in SUBSET E, U # {}
  PROVE  \E i \in 1 .. Cardinality(E) :
           /\ BuildRecoveryPlan(c, E)[i] \in U
           /\ \A j \in 1 .. i - 1 : BuildRecoveryPlan(c, E)[j] \notin U
           /\ c[BuildRecoveryPlan(c, E)[i]].dependsOn \cap E \cap U = {}
  <1> DEFINE q == BuildRecoveryPlan(c, E)
             N == Cardinality(E)
  <1>1. /\ N \in Nat
        /\ \A h \in E : \E i \in 1 .. N : q[i] = h
        /\ \A i \in 1 .. N : \A d \in c[q[i]].dependsOn \cap E :
             \E j \in 1 .. i - 1 : q[j] = d
    BY PlanPositions
  <1> HIDE DEF q, N
  <1> DEFINE T == {i \in 1 .. N : q[i] \in U}
  <1>2. T # {} /\ T \in SUBSET Nat
    BY <1>1
  <1>3. PICK m \in T : \A i \in T : ~(i < m)
    BY <1>2, LeastNatural
  <1>4. m \in 1 .. N /\ q[m] \in U
    BY <1>3
  <1>5. \A j \in 1 .. m - 1 : q[j] \notin U
    <2>1. \A j \in 1 .. m - 1 : j \in 1 .. N /\ j < m
      BY <1>1, <1>4
    <2> QED BY <1>3, <2>1
  <1> HIDE DEF T
  <1>6. c[q[m]].dependsOn \cap E \cap U = {}
    <2>1. ASSUME NEW d \in c[q[m]].dependsOn \cap E
          PROVE  d \notin U
      <3>1. PICK j \in 1 .. m - 1 : q[j] = d
        BY <1>1, <1>4
      <3> QED BY <1>5, <3>1
    <2> QED BY <2>1
  <1> QED BY <1>4, <1>5, <1>6 DEF q, N

\* With a plan, some host is handed out whenever one could be woken.
LEMMA NextIfWakeable ==
  ASSUME NEW c, NEW s, Plannable(c, Eligible(c, s)), ~PlanFails(c, Eligible(c, s)),
         Wakeable(c, s) # {}
  PROVE  NextRecoveryHost(c, s) # {}
  <1> DEFINE E == Eligible(c, s)
             U == Wakeable(c, s)
             q == BuildRecoveryPlan(c, E)
             N == Cardinality(E)
  <1>1. U \in SUBSET E
    BY DEF Wakeable
  <1>2. Len(q) = N /\ DOMAIN q = 1 .. N
    BY PlanPositions
  <1>3. Plannable(c, E) /\ ~PlanFails(c, E) /\ U # {}
    OBVIOUS
  <1> HIDE DEF E, U
  <1>4. PICK i \in 1 .. N : q[i] \in U /\ \A j \in 1 .. i - 1 : q[j] \notin U
    BY <1>1, <1>3, FirstInPlan
  <1>5. \E plan_ \in {q} : /\ Len(plan_) = N
                           /\ \E k \in DOMAIN plan_ :
                                /\ plan_[k] = q[i]
                                /\ \A j \in 1 .. k - 1 : plan_[j] \notin U
    BY <1>2, <1>4
  <1> HIDE DEF q, N
  <1>6. q[i] \in NextRecoveryHost(c, s)
    BY <1>4, <1>5 DEF NextRecoveryHost, E, U, q, N
  <1> QED BY <1>6

-----------------------------------------------------------------------------
(* Handing out the hosts of a plan *)

PlanStates ==
  [present : BOOLEAN, wasOnline : {"yes", "no"},
   recovery : {"waiting", "online", "failed"}]

PlanTypeOK ==
  /\ planCfg \in [Ids -> HostConfigs(Ids)]
  /\ planStates \in [Ids -> PlanStates]

\* A host that is online is one whose dependencies are.
OnlineClosed ==
  \A h \in Restorable : planStates[h].recovery = "online" =>
    \A d \in planCfg[h].dependsOn \cap Restorable : planStates[d].recovery = "online"

PlanInv == PlanTypeOK /\ OnlineClosed

LEMMA PlanInitial == PlanInit => PlanInv
  <1> SUFFICES ASSUME PlanInit PROVE PlanInv
    OBVIOUS
  <1>1. PICK p \in [Ids -> Priorities], deps \in [Ids -> SUBSET Ids] :
          planCfg = [h \in Ids |-> PlannedHost(p[h], deps[h])]
    BY DEF PlanInit
  <1>2. PICK up \in SUBSET Ids : planStates = [h \in Ids |-> WaitingHost(h \in up)]
    BY DEF PlanInit
  <1>3. ASSUME NEW h \in Ids
        PROVE  planCfg[h] \in HostConfigs(Ids)
    <2>1. p[h] \in Int /\ deps[h] \in SUBSET Ids
      BY PlanAssumption
    <2>2. planCfg[h] = PlannedHost(p[h], deps[h])
      BY <1>1
    <2> QED BY <2>1, <2>2 DEF PlannedHost, HostConfigs, RestorePolicies
  <1>4. ASSUME NEW h \in Ids
        PROVE  planStates[h] \in PlanStates /\ planStates[h].recovery = "waiting"
    BY <1>2 DEF WaitingHost, PlanStates
  <1>5. PlanTypeOK
    BY <1>1, <1>2, <1>3, <1>4 DEF PlanTypeOK
  <1>6. Restorable \subseteq Ids
    BY <1>1 DEF Restorable, Eligible
  <1>7. OnlineClosed
    BY <1>4, <1>6 DEF OnlineClosed
  <1> QED BY <1>5, <1>7 DEF PlanInv

LEMMA RestorablePlannable ==
  ASSUME PlanTypeOK
  PROVE  Restorable \subseteq Ids /\ Plannable(planCfg, Restorable)
  <1>1. DOMAIN planCfg = Ids /\ \A h \in Ids : planCfg[h].wakePriority \in Int
    BY DEF PlanTypeOK, HostConfigs
  <1>2. Restorable \subseteq Ids
    BY <1>1 DEF Restorable, Eligible
  <1>3. IsFiniteSet(Restorable) /\ Ids \subseteq Nat
    BY <1>2, PlanAssumption, FS_Subset
  <1> QED BY <1>1, <1>2, <1>3 DEF Plannable

LEMMA HandedOutWakeable ==
  ASSUME NEW c, NEW s
  PROVE  NextRecoveryHost(c, s) \subseteq Wakeable(c, s)
  BY DEF NextRecoveryHost

LEMMA PlanStep == PlanInv /\ [PlanNext]_planVars => PlanInv'
  <1> SUFFICES ASSUME PlanInv, [PlanNext]_planVars PROVE PlanInv'
    OBVIOUS
  <1>1. CASE UNCHANGED planVars
    BY <1>1 DEF PlanInv, PlanTypeOK, OnlineClosed, Restorable, Eligible, planVars
  <1>2. CASE PlanNext
    <2>1. PICK g \in NextRecoveryHost(planCfg, planStates), o \in {"online", "failed"} :
            planStates' = [planStates EXCEPT ![g].recovery = o]
      BY <1>2 DEF PlanNext
    <2>2. planCfg' = planCfg
      BY <1>2 DEF PlanNext
    <2>3. g \in Wakeable(planCfg, planStates)
      BY <2>1, HandedOutWakeable
    <2>4. /\ g \in Restorable
          /\ planStates[g].recovery # "online"
          /\ \A d \in planCfg[g].dependsOn \cap Restorable :
               planStates[d].recovery = "online"
      BY <2>3 DEF Wakeable, Restorable, Finished
    <2>5. Restorable \subseteq Ids /\ DOMAIN planCfg = Ids
      BY RestorablePlannable DEF PlanInv, PlanTypeOK
    <2>6. planStates \in [Ids -> PlanStates] /\ g \in Ids
      BY <2>4, <2>5 DEF PlanInv, PlanTypeOK
    <2>7. /\ planStates' \in [Ids -> PlanStates]
          /\ \A h \in Ids : /\ h # g => planStates'[h] = planStates[h]
                            /\ planStates'[h].present = planStates[h].present
                            /\ planStates'[h].wasOnline = planStates[h].wasOnline
      BY <2>1, <2>6 DEF PlanStates
    <2>8. PlanTypeOK'
      BY <2>2, <2>7 DEF PlanInv, PlanTypeOK
    <2>9. Restorable' = Restorable
      BY <2>2, <2>5, <2>7 DEF Restorable, Eligible, EligibleForRestore
    <2>10. ASSUME NEW h \in Restorable, planStates'[h].recovery = "online",
                  NEW d \in planCfg[h].dependsOn \cap Restorable
           PROVE  planStates'[d].recovery = "online"
      <3>1. planStates[d].recovery = "online"
        BY <2>4, <2>5, <2>7, <2>10 DEF PlanInv, OnlineClosed
      <3>2. d # g /\ d \in Ids
        BY <2>4, <2>5, <3>1
      <3> QED BY <2>7, <3>1, <3>2
    <2>11. OnlineClosed'
      BY <2>2, <2>9, <2>10 DEF OnlineClosed
    <2> QED BY <2>8, <2>11 DEF PlanInv
  <1> QED BY <1>1, <1>2

\* Whatever the fleet and whatever became of the hosts handed out so far.
LEMMA PlanInvariant == PlanSpec => []PlanInv
  <1> QED BY PlanInitial, PlanStep, PTL DEF PlanSpec

\* BuildRecoveryPlan, for every fleet: a cycle is reported exactly when no
\* order respects the dependencies, and otherwise the plan is the first such
\* order by (wake priority, ID).
THEOREM FirstTopological == PlanSpec => []PlanIsFirstTopological
  <1>1. ASSUME PlanInv PROVE PlanIsFirstTopological
    <2>1. Plannable(planCfg, Restorable)
      BY <1>1, RestorablePlannable DEF PlanInv
    <2> DEFINE E == Restorable
               orders == {q \in Orderings(E) : Topological(planCfg, q)}
               q0 == BuildRecoveryPlan(planCfg, E)
    <2> HIDE DEF E
    <2>2. /\ PlanFails(planCfg, E) <=> orders = {}
          /\ orders # {} =>
               q0 \in orders /\ \A o \in orders \ {q0} : LexBefore(planCfg, q0, o)
      BY <2>1, PlanFirst DEF E
    <2> QED BY <2>2 DEF PlanIsFirstTopological, plan, E
  <1> QED BY <1>1, PlanInvariant, PTL

\* What a host needs is behind it, and so is everything behind that.
LEMMA BehindNeeds ==
  ASSUME NEW E, NEW needs, \A h \in E : needs[h] \subseteq E,
         NEW h \in E, NEW x \in needs[h]
  PROVE  x \in Behind(E, needs, h) /\ Behind(E, needs, x) \subseteq Behind(E, needs, h)
  <1>1. x \in E
    OBVIOUS
  <1>2. x \in Behind(E, needs, h)
    BY <1>1 DEF Behind
  <1>3. ASSUME NEW d \in Behind(E, needs, x)
        PROVE  d \in Behind(E, needs, h)
    <2>1. d \in E
      BY DEF Behind
    <2>2. ASSUME NEW C \in SUBSET E, needs[h] \subseteq C,
                 \A y \in C : needs[y] \subseteq C
          PROVE  d \in C
      <3>1. needs[x] \subseteq C
        BY <2>2
      <3> QED BY <2>2, <3>1 DEF Behind
    <2> QED BY <2>1, <2>2 DEF Behind
  <1> QED BY <1>2, <1>3

\* What is behind a host is in every closed set that holds what it needs.
LEMMA BehindLeast ==
  ASSUME NEW E, NEW needs, NEW h, NEW C \in SUBSET E, needs[h] \subseteq C,
         \A y \in C : needs[y] \subseteq C
  PROVE  Behind(E, needs, h) \subseteq C
  BY DEF Behind

\* NextRecoveryHost, for every fleet without a cycle: when no host is handed
\* out, each one left is behind a host that was given up.
THEOREM NeverStalls == PlanSpec => []PlanNeverStalls
  <1>1. ASSUME PlanInv PROVE PlanNeverStalls
    <2>1. SUFFICES ASSUME ~PlanFails(planCfg, Restorable),
                          NextRecoveryHost(planCfg, planStates) = {},
                          NEW h0 \in Restorable,
                          planStates[h0].recovery \notin Finished,
                          ~\E d \in DependsOn(h0) : planStates[d].recovery = "failed"
                   PROVE  FALSE
      BY DEF PlanNeverStalls
    <2>2. Plannable(planCfg, Restorable) /\ Restorable \subseteq Ids
      BY <1>1, RestorablePlannable DEF PlanInv
    <2>3. \A h \in Restorable : planStates[h].recovery \in {"waiting", "online", "failed"}
      BY <1>1, <2>2 DEF PlanInv, PlanTypeOK, PlanStates
    <2>4. Wakeable(planCfg, planStates) = {}
      BY <2>1, <2>2, NextIfWakeable DEF Restorable
    <2> DEFINE E == Restorable
               needs == Needs(planCfg, E)
               U == {h \in E : /\ planStates[h].recovery \notin Finished
                               /\ ~\E d \in Behind(E, needs, h) :
                                     planStates[d].recovery = "failed"}
    <2>5. h0 \in U
      BY <2>1 DEF DependsOn
    <2>6. \A h \in E : needs[h] = planCfg[h].dependsOn \cap E /\ needs[h] \subseteq E
      BY NeedsFacts
    <2>7. PICK h \in U : planCfg[h].dependsOn \cap E \cap U = {}
      <3>1. U \in SUBSET E /\ U # {} /\ Plannable(planCfg, E) /\ ~PlanFails(planCfg, E)
        BY <2>1, <2>2, <2>5
      <3> HIDE DEF U, E
      <3>2. PICK i \in 1 .. Cardinality(E) :
              /\ BuildRecoveryPlan(planCfg, E)[i] \in U
              /\ planCfg[BuildRecoveryPlan(planCfg, E)[i]].dependsOn \cap E \cap U = {}
        BY <3>1, FirstInPlan
      <3> QED BY <3>2
    <2>8. /\ h \in E /\ planStates[h].recovery \notin Finished
          /\ \A d \in Behind(E, needs, h) : planStates[d].recovery # "failed"
      BY <2>7
    <2> HIDE DEF needs
    <2>9. ASSUME NEW x \in planCfg[h].dependsOn \cap E
          PROVE  planStates[x].recovery = "online"
      <3>1. x \in needs[h] /\ x \in E /\ x \notin U
        BY <2>6, <2>7, <2>8
      <3>2. x \in Behind(E, needs, h) /\ Behind(E, needs, x) \subseteq Behind(E, needs, h)
        <4> HIDE DEF E
        <4> QED BY <2>6, <2>8, <3>1, BehindNeeds
      <3>3. planStates[x].recovery \in Finished
        BY <2>8, <3>1, <3>2
      <3>4. planStates[x].recovery # "failed"
        BY <2>8, <3>2
      <3> QED BY <2>3, <3>1, <3>3, <3>4 DEF Finished
    <2>10. h \in Wakeable(planCfg, planStates)
      BY <2>8, <2>9 DEF Wakeable, Restorable
    <2> QED BY <2>4, <2>10
  <1> QED BY <1>1, PlanInvariant, PTL

\* NextRecoveryHost, for every fleet: everything a host that is handed out
\* depends on, through any chain of eligible hosts, is online.
THEOREM UpFirst == PlanSpec => []DependenciesUpFirst
  <1>1. ASSUME PlanInv PROVE DependenciesUpFirst
    <2>1. SUFFICES ASSUME NEW h \in NextRecoveryHost(planCfg, planStates)
                   PROVE  \A d \in DependsOn(h) : planStates[d].recovery = "online"
      BY DEF DependenciesUpFirst
    <2> DEFINE E == Restorable
               needs == Needs(planCfg, E)
               C == {x \in E : planStates[x].recovery = "online"}
    <2>2. h \in Wakeable(planCfg, planStates)
      BY <2>1, HandedOutWakeable
    <2>3. h \in E /\ \A d \in planCfg[h].dependsOn \cap E : planStates[d].recovery = "online"
      BY <2>2 DEF Wakeable, Restorable
    <2>4. \A x \in E : needs[x] = planCfg[x].dependsOn \cap E
      BY NeedsFacts
    <2> HIDE DEF needs
    <2>5. needs[h] \subseteq C
      BY <2>3, <2>4
    <2>6. \A y \in C : needs[y] \subseteq C
      BY <1>1, <2>4 DEF PlanInv, OnlineClosed
    <2>7. Behind(E, needs, h) \subseteq C
      <3>1. C \in SUBSET E
        OBVIOUS
      <3> HIDE DEF C, E
      <3> QED BY <2>5, <2>6, <3>1, BehindLeast
    <2> QED BY <2>7 DEF DependsOn, needs
  <1> QED BY <1>1, PlanInvariant, PTL
=============================================================================
