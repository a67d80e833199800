------------------------------ MODULE Induction ------------------------------
(***************************************************************************)
(* Induction and recursion stated for sets and functions, so that they are *)
(* cited with an instance that is an expression: the theorems of           *)
(* NaturalsInduction take the predicate as an operator.  Then what they    *)
(* say of the sums of sequences of numbers.                                *)
(***************************************************************************)
EXTENDS Totals, TLAPS, WellFoundedInduction, SequenceTheorems

LEMMA LessThanWellFounded ==
  \E R : IsWellFoundedOn(R, Nat) /\ \A x, y \in Nat : y < x => <<y, x>> \in R
<1>1. \A x, y \in Nat : <<y, x>> \in OpToRel(<, Nat) <=> y < x
  BY DEF OpToRel
<1>2. IsWellFoundedOn(OpToRel(<, Nat), Nat)
  BY NatLessThanWellFounded
<1> DEFINE R == OpToRel(<, Nat)
<1>3. IsWellFoundedOn(R, Nat) /\ \A x, y \in Nat : y < x => <<y, x>> \in R
  BY <1>1, <1>2, Zenon
<1> HIDE DEF R
<1> QED
  BY <1>3

\* A set of naturals that is not empty has a least element.
LEMMA LeastNatural ==
  ASSUME NEW T, T \subseteq Nat, T # {}
  PROVE  \E x \in T : \A y \in T : x <= y
<1>1. PICK R : IsWellFoundedOn(R, Nat) /\ \A x, y \in Nat : y < x => <<y, x>> \in R
  BY LessThanWellFounded
<1>2. PICK x \in T : \A y \in T : ~ (<<y, x>> \in R)
  BY <1>1, WFMin
<1>3. ASSUME NEW y \in T PROVE x <= y
  <2>1. ~ (y < x)
    BY <1>1, <1>2
  <2> QED
    BY <2>1
<1> QED
  BY <1>3

\* Induction: a set with 0 that is closed under successor has all naturals.
THEOREM SetInduction ==
  ASSUME NEW S, 0 \in S, \A n \in Nat : n \in S => n + 1 \in S
  PROVE  Nat \subseteq S
<1> DEFINE T == Nat \ S
<1> SUFFICES ASSUME T # {} PROVE FALSE
  OBVIOUS
<1>1. PICK x \in T : \A y \in T : x <= y
  BY LeastNatural
<1>2. x # 0 /\ x - 1 \in Nat /\ x - 1 \notin T
  BY <1>1
<1> QED
  BY <1>2, x = (x - 1) + 1

\* Course-of-values induction.
THEOREM StrongSetInduction ==
  ASSUME NEW S, \A n \in Nat : (\A m \in Nat : m < n => m \in S) => n \in S
  PROVE  Nat \subseteq S
<1> DEFINE T == Nat \ S
<1> SUFFICES ASSUME T # {} PROVE FALSE
  OBVIOUS
<1>1. PICK x \in T : \A y \in T : x <= y
  BY LeastNatural
<1>2. \A m \in Nat : m < x => m \in S
  BY <1>1
<1> QED
  BY <1>1, <1>2

\* Induction over the elements of D by their rank.
THEOREM RankInduction ==
  ASSUME NEW D, NEW S, NEW rank \in [D -> Nat],
         \A x \in D : (\A y \in D : rank[y] < rank[x] => y \in S) => x \in S
  PROVE  D \subseteq S
<1> DEFINE T == {n \in Nat : \A x \in D : rank[x] = n => x \in S}
<1>1. ASSUME NEW n \in Nat, \A m \in Nat : m < n => m \in T PROVE n \in T
  BY <1>1
<1>2. Nat \subseteq T
  <2> HIDE DEF T
  <2> QED
    BY <1>1, StrongSetInduction
<1> QED
  BY <1>2

\* f computes up to rank n the value G gives from smaller ranks.
Computes(f, D, rank, G, n) == \A x \in D : rank[x] < n => f[x] = G[<<x, f>>]

\* The value G gives at x depends on smaller ranks only.
FromSmaller(D, S, rank, G) ==
  \A x \in D, f, g \in [D -> S] :
    (\A y \in D : rank[y] < rank[x] => f[y] = g[y]) => G[<<x, f>>] = G[<<x, g>>]

IsRecursion(D, S, rank, G) ==
  /\ S # {}
  /\ rank \in [D -> Nat]
  /\ G \in [D \X [D -> S] -> S]
  /\ FromSmaller(D, S, rank, G)

Defines(D, S, G) == \E f \in [D -> S] : \A x \in D : f[x] = G[<<x, f>>]

LEMMA ComputesUnique ==
  ASSUME NEW D, NEW S, NEW rank \in [D -> Nat], NEW G, NEW n \in Nat,
         FromSmaller(D, S, rank, G),
         NEW f \in [D -> S], NEW g \in [D -> S],
         Computes(f, D, rank, G, n), Computes(g, D, rank, G, n)
  PROVE  \A x \in D : rank[x] < n => f[x] = g[x]
<1> DEFINE E == {x \in D : rank[x] < n => f[x] = g[x]}
<1>1. ASSUME NEW x \in D, \A y \in D : rank[y] < rank[x] => y \in E
      PROVE  x \in E
  <2> SUFFICES ASSUME rank[x] < n PROVE f[x] = g[x]
    OBVIOUS
  <2>1. \A y \in D : rank[y] < rank[x] => f[y] = g[y]
    BY <1>1
  <2>2. G[<<x, f>>] = G[<<x, g>>]
    BY <2>1 DEF FromSmaller
  <2> QED
    BY <2>2 DEF Computes
<1>2. D \subseteq E
  <2> HIDE DEF E
  <2> QED
    BY <1>1, RankInduction
<1> QED
  BY <1>2

LEMMA ComputesExists ==
  ASSUME NEW D, NEW S, S # {}, NEW rank \in [D -> Nat], NEW G \in [D \X [D -> S] -> S],
         FromSmaller(D, S, rank, G)
  PROVE  \A n \in Nat : \E f \in [D -> S] : Computes(f, D, rank, G, n)
<1> DEFINE P == {n \in Nat : \E f \in [D -> S] : Computes(f, D, rank, G, n)}
<1>1. 0 \in P
  <2>1. PICK s \in S : TRUE
    OBVIOUS
  <2>2. [x \in D |-> s] \in [D -> S]
    OBVIOUS
  <2>3. Computes([x \in D |-> s], D, rank, G, 0)
    BY DEF Computes
  <2> QED
    BY <2>2, <2>3
<1>2. ASSUME NEW n \in Nat, n \in P PROVE n + 1 \in P
  <2>1. PICK f \in [D -> S] : Computes(f, D, rank, G, n)
    BY <1>2
  <2> DEFINE g == [x \in D |-> G[<<x, f>>]]
  <2>2. g \in [D -> S]
    OBVIOUS
  <2>3. ASSUME NEW x \in D, rank[x] < n + 1 PROVE g[x] = G[<<x, g>>]
    <3>1. \A y \in D : rank[y] < rank[x] => g[y] = f[y]
      BY <2>1, <2>3 DEF Computes
    <3>2. G[<<x, g>>] = G[<<x, f>>]
      BY <2>2, <3>1 DEF FromSmaller
    <3> QED
      BY <3>2
  <2>4. Computes(g, D, rank, G, n + 1)
    BY <2>3 DEF Computes
  <2>5. \E f_1 \in [D -> S] : Computes(f_1, D, rank, G, n + 1)
    <3> HIDE DEF g
    <3> QED
      BY <2>2, <2>4
  <2>6. n + 1 \in Nat
    OBVIOUS
  <2> QED
    BY <2>5, <2>6, Zenon
<1>3. Nat \subseteq P
  <2> HIDE DEF P
  <2> QED
    BY <1>1, <1>2, SetInduction
<1> QED
  BY <1>3

\* Definition by recursion on a rank.
THEOREM RankRecursion ==
  ASSUME NEW D, NEW S, NEW rank, NEW G, IsRecursion(D, S, rank, G)
  PROVE  Defines(D, S, G)
<1> USE DEF IsRecursion
<1> DEFINE F == [n \in Nat |-> CHOOSE f \in [D -> S] : Computes(f, D, rank, G, n)]
<1>1. \A n \in Nat : F[n] \in [D -> S] /\ Computes(F[n], D, rank, G, n)
  <2> SUFFICES ASSUME NEW n \in Nat
               PROVE  LET f == CHOOSE f \in [D -> S] : Computes(f, D, rank, G, n)
                      IN  f \in [D -> S] /\ Computes(f, D, rank, G, n)
    OBVIOUS
  <2>1. \E f \in [D -> S] : Computes(f, D, rank, G, n)
    BY ComputesExists
  <2> QED
    BY <2>1
<1> DEFINE h == [x \in D |-> F[rank[x] + 1][x]]
<1> HIDE DEF F
<1>2. h \in [D -> S]
  BY <1>1
<1>3. \A n \in Nat : \A x \in D : rank[x] < n => h[x] = F[n][x]
  <2> SUFFICES ASSUME NEW n \in Nat, NEW x \in D, rank[x] < n
               PROVE  F[rank[x] + 1][x] = F[n][x]
    OBVIOUS
  <2> DEFINE r == rank[x] + 1
  <2>1. r \in Nat /\ rank[x] < r /\ r <= n
    OBVIOUS
  <2>2. Computes(F[n], D, rank, G, r)
    <3>1. Computes(F[n], D, rank, G, n)
      BY <1>1
    <3>2. \A y \in D : rank[y] < r => rank[y] < n
      BY <2>1
    <3> HIDE DEF r, h
    <3> QED
      BY <3>1, <3>2 DEF Computes
  <2>3. Computes(F[r], D, rank, G, r) /\ F[r] \in [D -> S] /\ F[n] \in [D -> S]
    BY <1>1, <2>1
  <2> HIDE DEF r
  <2>4. F[r][x] = F[n][x]
    BY <2>1, <2>2, <2>3, ComputesUnique
  <2> QED
    BY <2>4 DEF r
<1>4. ASSUME NEW x \in D PROVE h[x] = G[<<x, h>>]
  <2> DEFINE n == rank[x] + 1
  <2>1. n \in Nat /\ rank[x] < n
    OBVIOUS
  <2>2. h[x] = F[n][x]
    BY <1>3, <2>1
  <2>3. F[n][x] = G[<<x, F[n]>>]
    BY <1>1, <2>1 DEF Computes
  <2>4. \A y \in D : rank[y] < rank[x] => h[y] = F[n][y]
    <3>1. \A y \in D : rank[y] < rank[x] => rank[y] < n
      BY <2>1
    <3> HIDE DEF h, n
    <3> QED
      BY <1>3, <2>1, <3>1
  <2>5. F[n] \in [D -> S]
    BY <1>1, <2>1
  <2> HIDE DEF h, n
  <2>6. G[<<x, h>>] = G[<<x, F[n]>>]
    BY <1>2, <2>4, <2>5 DEF FromSmaller
  <2> QED
    BY <2>2, <2>3, <2>6
<1> QED
  BY <1>2, <1>4 DEF Defines

\* Definition by recursion along a chain: outside of Stop, the value at x is
\* made from the value at next[x], which has a smaller rank.
IsChain(D, S, rank, Stop, base, next, step) ==
  /\ rank \in [D -> Nat]
  /\ base \in [D -> S]
  /\ next \in [D \ Stop -> D]
  /\ step \in [(D \ Stop) \X S -> S]
  /\ \A x \in D \ Stop : rank[next[x]] < rank[x]

FollowsChain(f, D, Stop, base, next, step) ==
  \A x \in D : /\ x \in Stop => f[x] = base[x]
               /\ x \notin Stop => f[x] = step[<<x, f[next[x]]>>]

THEOREM ChainRecursion ==
  ASSUME NEW D, NEW S, NEW rank, NEW Stop, NEW base, NEW next, NEW step,
         IsChain(D, S, rank, Stop, base, next, step)
  PROVE  \E f \in [D -> S] : FollowsChain(f, D, Stop, base, next, step)
<1> USE DEF IsChain
<1> DEFINE G == [p \in D \X [D -> S] |->
                   IF p[1] \in Stop THEN base[p[1]] ELSE step[<<p[1], p[2][next[p[1]]]>>]]
<1>1. ASSUME NEW x \in D, NEW f \in [D -> S]
      PROVE  /\ x \in Stop => G[<<x, f>>] = base[x]
             /\ x \notin Stop => G[<<x, f>>] = step[<<x, f[next[x]]>>]
             /\ G[<<x, f>>] \in S
  <2>1. <<x, f>> \in D \X [D -> S] /\ <<x, f>>[1] = x /\ <<x, f>>[2] = f
    OBVIOUS
  <2> QED
    BY <2>1
<1>2. G \in [D \X [D -> S] -> S]
  <2> SUFFICES ASSUME NEW p \in D \X [D -> S] PROVE G[p] \in S
    OBVIOUS
  <2>1. p[1] \in D /\ p[2] \in [D -> S] /\ p = <<p[1], p[2]>>
    OBVIOUS
  <2> HIDE DEF G
  <2> QED
    BY <1>1, <2>1
<1>3. FromSmaller(D, S, rank, G)
  <2> HIDE DEF G
  <2> SUFFICES ASSUME NEW x \in D, NEW f \in [D -> S], NEW g \in [D -> S],
                      \A y \in D : rank[y] < rank[x] => f[y] = g[y]
               PROVE  G[<<x, f>>] = G[<<x, g>>]
    BY DEF FromSmaller
  <2>1. x \notin Stop => f[next[x]] = g[next[x]]
    OBVIOUS
  <2>2. G[<<x, f>>] = IF x \in Stop THEN base[x] ELSE step[<<x, f[next[x]]>>]
    BY <1>1, Zenon
  <2>3. G[<<x, g>>] = IF x \in Stop THEN base[x] ELSE step[<<x, g[next[x]]>>]
    BY <1>1, Zenon
  <2> QED
    BY <2>1, <2>2, <2>3, Zenon
<1> HIDE DEF G
<1>4. CASE D = {}
  BY <1>4 DEF FollowsChain
<1>5. CASE D # {}
  <2>1. S # {}
    BY <1>5
  <2>2. IsRecursion(D, S, rank, G)
    BY <1>2, <1>3, <2>1 DEF IsRecursion
  <2>3. Defines(D, S, G)
    BY <2>2, RankRecursion
  <2>4. PICK f \in [D -> S] : \A x \in D : f[x] = G[<<x, f>>]
    BY <2>3 DEF Defines
  <2>5. FollowsChain(f, D, Stop, base, next, step)
    BY <1>1, <2>4, Zenon DEF FollowsChain
  <2> QED
    BY <2>5
<1> QED
  BY <1>4, <1>5

\* Definition by recursion from 0 to n.
AreSteps(n, S, first, step) == n \in Nat /\ first \in S /\ step \in [(1..n) \X S -> S]

THEOREM PrefixRecursion ==
  ASSUME NEW n, NEW S, NEW first, NEW step, AreSteps(n, S, first, step)
  PROVE  \E f \in [0..n -> S] : /\ f[0] = first
                                /\ \A i \in 1..n : f[i] = step[<<i, f[i - 1]>>]
<1> USE DEF AreSteps
<1> DEFINE D == 0..n
           rank == [i \in D |-> i]
           base == [i \in D |-> first]
           next == [i \in D \ {0} |-> i - 1]
<1>1. D \ {0} = 1..n /\ 0 \in D
  OBVIOUS
<1>2. IsChain(D, S, rank, {0}, base, next, step)
  BY <1>1 DEF IsChain
<1>3. PICK f \in [D -> S] : FollowsChain(f, D, {0}, base, next, step)
  <2> HIDE DEF D, rank, base, next
  <2> QED
    BY <1>2, ChainRecursion
<1>4. f[0] = first
  BY <1>1, <1>3 DEF FollowsChain
<1>5. \A i \in 1..n : f[i] = step[<<i, f[i - 1]>>]
  BY <1>1, <1>3 DEF FollowsChain
<1> QED
  BY <1>3, <1>4, <1>5
-----------------------------------------------------------------------------
(* Sums                                                                    *)

\* u has the sums of the first numbers of s.
ArePartialSums(u, s) ==
  /\ u \in [0..Len(s) -> Nat]
  /\ u[0] = 0
  /\ \A i \in 1..Len(s) : u[i] = u[i - 1] + s[i]

LEMMA PartialSums ==
  ASSUME NEW s \in Seq(Nat)
  PROVE  \E u : ArePartialSums(u, s) /\ TotalOf(s) = u[Len(s)]
<1> DEFINE D == 0..Len(s)
           upto[i \in D] == IF i = 0 THEN 0 ELSE upto[i - 1] + s[i]
           rank == [i \in D |-> i]
           base == [i \in D |-> 0]
           next == [i \in D \ {0} |-> i - 1]
           step == [p \in (D \ {0}) \X Nat |-> p[2] + s[p[1]]]
<1>0. Len(s) \in Nat /\ \A i \in D \ {0} : s[i] \in Nat
  BY LenProperties
<1>1. \A i \in D \ {0}, n \in Nat : step[<<i, n>>] = n + s[i]
  OBVIOUS
<1>2. step \in [(D \ {0}) \X Nat -> Nat]
  BY <1>0
<1>3. IsChain(D, Nat, rank, {0}, base, next, step)
  <2> HIDE DEF step
  <2> QED
    BY <1>2 DEF IsChain
<1>4. PICK f \in [D -> Nat] : FollowsChain(f, D, {0}, base, next, step)
  <2> HIDE DEF D, rank, base, next, step
  <2> QED
    BY <1>3, ChainRecursion
<1>5. ASSUME NEW i \in D PROVE f[i] = IF i = 0 THEN 0 ELSE f[i - 1] + s[i]
  <2>1. CASE i = 0
    BY <1>4, <2>1 DEF FollowsChain
  <2>2. CASE i # 0
    <3>0. i \in D \ {0} /\ i - 1 \in D
      BY <1>0, <2>2
    <3>1. i \in D \ {0} /\ next[i] = i - 1 /\ f[i - 1] \in Nat
      <4> HIDE DEF D, step
      <4> QED
        BY <3>0
    <3>2. f[i] = step[<<i, f[i - 1]>>]
      <4> HIDE DEF step
      <4> QED
        BY <1>4, <3>1 DEF FollowsChain
    <3> HIDE DEF step
    <3> QED
      BY <1>1, <2>2, <3>1, <3>2
  <2> QED
    BY <2>1, <2>2
<1>6. f = [i \in D |-> IF i = 0 THEN 0 ELSE f[i - 1] + s[i]]
  BY <1>5
<1>7. upto = [i \in D |-> IF i = 0 THEN 0 ELSE upto[i - 1] + s[i]]
  <2> HIDE DEF D
  <2> QED
    BY <1>6
<1>8. TotalOf(s) = upto[Len(s)]
  BY DEF TotalOf
<1> HIDE DEF upto
<1>9. \A i \in D : upto[i] = IF i = 0 THEN 0 ELSE upto[i - 1] + s[i]
  BY <1>7
<1>10. \A n \in Nat : n \in D => upto[n] = f[n]
  <2> DEFINE P == {n \in Nat : n \in D => upto[n] = f[n]}
  <2>1. 0 \in P
    BY <1>0, <1>5, <1>9
  <2>2. ASSUME NEW n \in Nat, n \in P PROVE n + 1 \in P
    <3>1. n + 1 \in D => n \in D /\ (n + 1) - 1 = n /\ n + 1 # 0
      BY <1>0
    <3> QED
      BY <2>2, <3>1, <1>5, <1>9
  <2>3. Nat \subseteq P
    <3> HIDE DEF P
    <3> QED
      BY <2>1, <2>2, SetInduction
  <2> QED
    BY <2>3
<1>11. ArePartialSums(f, s)
  BY <1>0, <1>5 DEF ArePartialSums
<1>12. TotalOf(s) = f[Len(s)]
  BY <1>0, <1>8, <1>10
<1> QED
  BY <1>11, <1>12

Vectors(n) == [1..n -> Nat]

LEMMA VectorSums ==
  ASSUME NEW n \in Nat, NEW s \in Vectors(n)
  PROVE  /\ s \in Seq(Nat) /\ Len(s) = n /\ TotalOf(s) \in Nat
         /\ \E u \in [0..n -> Nat] : /\ u[0] = 0 /\ TotalOf(s) = u[n]
                                     /\ \A i \in 1..n : u[i] = u[i - 1] + s[i]
<1>1. s \in Seq(Nat) /\ Len(s) = n
  BY DEF Vectors
<1>2. PICK u : ArePartialSums(u, s) /\ TotalOf(s) = u[Len(s)]
  BY <1>1, PartialSums
<1>3. /\ u \in [0..n -> Nat] /\ u[0] = 0 /\ TotalOf(s) = u[n]
      /\ \A i \in 1..n : u[i] = u[i - 1] + s[i]
  BY <1>1, <1>2 DEF ArePartialSums
<1>4. TotalOf(s) \in Nat
  BY <1>3
<1> QED
  BY <1>1, <1>3, <1>4

LEMMA TotalMonotone ==
  ASSUME NEW n \in Nat, NEW s \in Vectors(n), NEW t \in Vectors(n),
         \A i \in 1..n : s[i] <= t[i]
  PROVE  TotalOf(s) <= TotalOf(t)
<1>1. PICK u \in [0..n -> Nat] : /\ u[0] = 0 /\ TotalOf(s) = u[n]
                                 /\ \A i \in 1..n : u[i] = u[i - 1] + s[i]
  BY VectorSums
<1>2. PICK v \in [0..n -> Nat] : /\ v[0] = 0 /\ TotalOf(t) = v[n]
                                 /\ \A i \in 1..n : v[i] = v[i - 1] + t[i]
  BY VectorSums
<1> DEFINE P == {i \in Nat : i <= n => u[i] <= v[i]}
<1>3. 0 \in P
  BY <1>1, <1>2
<1>4. ASSUME NEW i \in Nat, i \in P PROVE i + 1 \in P
  <2> SUFFICES ASSUME i + 1 <= n PROVE u[i + 1] <= v[i + 1]
    OBVIOUS
  <2>1. i + 1 \in 1..n /\ (i + 1) - 1 = i /\ i \in 0..n
    OBVIOUS
  <2>2. u[i + 1] = u[i] + s[i + 1] /\ v[i + 1] = v[i] + t[i + 1] /\ s[i + 1] <= t[i + 1]
    BY <1>1, <1>2, <2>1
  <2>3. u[i] <= v[i] /\ u[i] \in Nat /\ v[i] \in Nat /\ s[i + 1] \in Nat /\ t[i + 1] \in Nat
    BY <1>4, <2>1 DEF Vectors
  <2> QED
    BY <2>2, <2>3, SMTT(30)
<1>5. Nat \subseteq P
  <2> HIDE DEF P
  <2> QED
    BY <1>3, <1>4, SetInduction
<1> QED
  BY <1>1, <1>2, <1>5

\* The vector with c more at k.
Raised(s, k, c) == [s EXCEPT ![k] = @ + c]

LEMMA TotalRaised ==
  ASSUME NEW n \in Nat, NEW s \in Vectors(n), NEW k \in 1..n, NEW c \in Nat
  PROVE  Raised(s, k, c) \in Vectors(n) /\ TotalOf(Raised(s, k, c)) = TotalOf(s) + c
<1> DEFINE t == Raised(s, k, c)
<1>1. t \in Vectors(n) /\ \A i \in 1..n : t[i] = IF i = k THEN s[i] + c ELSE s[i]
  BY DEF Vectors, Raised
<1>2. PICK u \in [0..n -> Nat] : /\ u[0] = 0 /\ TotalOf(s) = u[n]
                                 /\ \A i \in 1..n : u[i] = u[i - 1] + s[i]
  BY VectorSums
<1> HIDE DEF t
<1>3. PICK v \in [0..n -> Nat] : /\ v[0] = 0 /\ TotalOf(t) = v[n]
                                 /\ \A i \in 1..n : v[i] = v[i - 1] + t[i]
  BY <1>1, VectorSums
<1> DEFINE P == {i \in Nat : i <= n => v[i] = IF i >= k THEN u[i] + c ELSE u[i]}
<1>4. 0 \in P
  BY <1>2, <1>3
<1>5. ASSUME NEW i \in Nat, i \in P PROVE i + 1 \in P
  <2> SUFFICES ASSUME i + 1 <= n PROVE v[i + 1] = IF i + 1 >= k THEN u[i + 1] + c ELSE u[i + 1]
    OBVIOUS
  <2>1. i + 1 \in 1..n /\ (i + 1) - 1 = i /\ i \in 0..n
    OBVIOUS
  <2>2. u[i + 1] = u[i] + s[i + 1] /\ v[i + 1] = v[i] + t[i + 1]
    BY <1>2, <1>3, <2>1
  <2>3. v[i] = IF i >= k THEN u[i] + c ELSE u[i]
    BY <1>5, <2>1
  <2>4. t[i + 1] = IF i + 1 = k THEN s[i + 1] + c ELSE s[i + 1]
    BY <1>1, <2>1
  <2>5. u[i] \in Nat /\ v[i] \in Nat /\ s[i + 1] \in Nat
    BY <2>1 DEF Vectors
  <2> HIDE DEF P
  <2>6. CASE i + 1 < k
    BY <2>2, <2>3, <2>4, <2>6
  <2>7. CASE i + 1 = k
    <3>1. ~(i >= k) /\ i + 1 >= k
      BY <2>7
    <3>2. v[i] = u[i] /\ t[i + 1] = s[i + 1] + c
      BY <2>3, <2>4, <2>7, <3>1
    <3> QED
      BY <2>2, <2>5, <3>1, <3>2, SMTT(30)
  <2>8. CASE i + 1 > k
    <3>1. i >= k /\ i + 1 >= k /\ i + 1 # k
      BY <2>8
    <3>2. v[i] = u[i] + c /\ t[i + 1] = s[i + 1]
      BY <2>3, <2>4, <3>1
    <3> QED
      BY <2>2, <2>5, <3>1, <3>2, SMTT(30)
  <2> QED
    BY <2>6, <2>7, <2>8
<1>6. Nat \subseteq P
  <2> HIDE DEF P
  <2> QED
    BY <1>4, <1>5, SetInduction
<1>7. TotalOf(t) = TotalOf(s) + c
  BY <1>2, <1>3, <1>6
<1> QED
  BY <1>1, <1>7 DEF t

LEMMA TotalOfZeros ==
  ASSUME NEW n \in Nat, NEW s \in Vectors(n), \A i \in 1..n : s[i] = 0
  PROVE  TotalOf(s) = 0
<1>1. PICK u \in [0..n -> Nat] : /\ u[0] = 0 /\ TotalOf(s) = u[n]
                                 /\ \A i \in 1..n : u[i] = u[i - 1] + s[i]
  BY VectorSums
<1> DEFINE P == {i \in Nat : i <= n => u[i] = 0}
<1>2. 0 \in P
  BY <1>1
<1>3. ASSUME NEW i \in Nat, i \in P PROVE i + 1 \in P
  <2> SUFFICES ASSUME i + 1 <= n PROVE u[i + 1] = 0
    OBVIOUS
  <2>1. i + 1 \in 1..n /\ (i + 1) - 1 = i /\ i <= n
    OBVIOUS
  <2>2. u[i + 1] = u[i] + s[i + 1] /\ s[i + 1] = 0 /\ u[i] = 0
    BY <1>1, <1>3, <2>1
  <2> QED
    BY <2>2
<1>4. Nat \subseteq P
  <2> HIDE DEF P
  <2> QED
    BY <1>2, <1>3, SetInduction
<1> QED
  BY <1>1, <1>4

\* The first n numbers of a vector of n + 1.
Shortened(v, n) == [i \in 1..n |-> v[i]]

LEMMA VectorStep ==
  ASSUME NEW n \in Nat, NEW s \in Vectors(n + 1)
  PROVE  Shortened(s, n) \in Vectors(n) /\ TotalOf(s) = TotalOf(Shortened(s, n)) + s[n + 1]
<1> DEFINE t == Shortened(s, n)
<1>1. t \in Vectors(n) /\ \A i \in 1..n : t[i] = s[i]
  BY DEF Vectors, Shortened
<1>2. n + 1 \in Nat /\ n + 1 \in 1..(n + 1) /\ (n + 1) - 1 = n
  OBVIOUS
<1>3. PICK u \in [0..(n + 1) -> Nat] : /\ u[0] = 0 /\ TotalOf(s) = u[n + 1]
                                       /\ \A i \in 1..(n + 1) : u[i] = u[i - 1] + s[i]
  BY <1>2, VectorSums
<1> HIDE DEF t
<1>4. PICK v \in [0..n -> Nat] : /\ v[0] = 0 /\ TotalOf(t) = v[n]
                                 /\ \A i \in 1..n : v[i] = v[i - 1] + t[i]
  BY <1>1, VectorSums
<1> DEFINE P == {i \in Nat : i <= n => u[i] = v[i]}
<1>5. 0 \in P
  BY <1>3, <1>4
<1>6. ASSUME NEW i \in Nat, i \in P PROVE i + 1 \in P
  <2> SUFFICES ASSUME i + 1 <= n PROVE u[i + 1] = v[i + 1]
    OBVIOUS
  <2>1. i + 1 \in 1..n /\ i + 1 \in 1..(n + 1) /\ (i + 1) - 1 = i /\ i <= n
    OBVIOUS
  <2>2. u[i + 1] = u[i] + s[i + 1] /\ v[i + 1] = v[i] + t[i + 1]
    BY <1>3, <1>4, <2>1
  <2> QED
    BY <1>1, <1>6, <2>1, <2>2
<1>7. Nat \subseteq P
  <2> HIDE DEF P
  <2> QED
    BY <1>5, <1>6, SetInduction
<1>8. u[n] = v[n] /\ u[n + 1] = u[n] + s[n + 1]
  BY <1>2, <1>3, <1>7
<1> QED
  BY <1>1, <1>3, <1>4, <1>8 DEF t

\* Where the total is less, some number is.
LEMMA Pigeonhole ==
  ASSUME NEW n \in Nat, NEW s \in Vectors(n), NEW t \in Vectors(n), TotalOf(s) < TotalOf(t)
  PROVE  \E i \in 1..n : s[i] < t[i]
<1> SUFFICES ASSUME \A i \in 1..n : ~(s[i] < t[i]) PROVE FALSE
  OBVIOUS
<1>1. \A i \in 1..n : t[i] <= s[i]
  BY DEF Vectors
<1>2. TotalOf(t) <= TotalOf(s) /\ TotalOf(s) \in Nat /\ TotalOf(t) \in Nat
  BY <1>1, TotalMonotone, VectorSums
<1> QED
  BY <1>2

LEMMA TotalLess ==
  ASSUME NEW n \in Nat, NEW s \in Vectors(n), NEW t \in Vectors(n), NEW k \in 1..n,
         \A i \in 1..n : s[i] <= t[i], s[k] < t[k]
  PROVE  TotalOf(s) < TotalOf(t)
<1> DEFINE r == Raised(s, k, 1)
<1>1. r \in Vectors(n) /\ TotalOf(r) = TotalOf(s) + 1
  BY TotalRaised
<1>2. \A i \in 1..n : r[i] <= t[i]
  BY DEF Vectors, Raised
<1>3. TotalOf(r) <= TotalOf(t)
  <2> HIDE DEF r
  <2> QED
    BY <1>1, <1>2, TotalMonotone
<1>4. TotalOf(s) \in Nat /\ TotalOf(t) \in Nat
  BY VectorSums
<1> QED
  BY <1>1, <1>3, <1>4

LEMMA PartOfTotal ==
  ASSUME NEW n \in Nat, NEW s \in Vectors(n), NEW k \in 1..n
  PROVE  s[k] <= TotalOf(s)
<1> DEFINE z == [i \in 1..n |-> 0]
           r == Raised(z, k, s[k])
<1>1. z \in Vectors(n) /\ s[k] \in Nat
  BY DEF Vectors
<1>2. TotalOf(z) = 0
  BY <1>1, TotalOfZeros
<1>3. r \in Vectors(n) /\ TotalOf(r) = TotalOf(z) + s[k]
  <2> HIDE DEF z
  <2> QED
    BY <1>1, TotalRaised
<1>4. \A i \in 1..n : r[i] <= s[i]
  BY DEF Vectors, Raised
<1>5. TotalOf(r) <= TotalOf(s)
  <2> HIDE DEF r
  <2> QED
    BY <1>3, <1>4, TotalMonotone
<1> QED
  BY <1>1, <1>2, <1>3, <1>5

\* There is a greatest number, and a first of them.
LEMMA HasGreatest ==
  ASSUME NEW n \in Nat, NEW f \in Vectors(n), NEW S, S \subseteq 1..n, S # {}
  PROVE  \E i \in S : \A j \in S : f[j] < f[i] \/ (f[j] = f[i] /\ i <= j)
<1> DEFINE B == TotalOf(f)
           T == {B - f[j] : j \in S}
<1>1. B \in Nat /\ \A j \in S : f[j] \in Nat /\ f[j] <= B
  BY VectorSums, PartOfTotal DEF Vectors
<1> HIDE DEF B
<1>2. T \subseteq Nat /\ T # {}
  <2>1. PICK j \in S : TRUE
    OBVIOUS
  <2>2. B - f[j] \in T
    OBVIOUS
  <2>3. \A j_1 \in S : B - f[j_1] \in Nat
    BY <1>1
  <2>4. T \subseteq Nat
    BY <2>3, Zenon
  <2> HIDE DEF T
  <2> QED
    BY <2>2, <2>4
<1>3. PICK x \in T : \A y \in T : x <= y
  <2> HIDE DEF T
  <2> QED
    BY <1>2, LeastNatural
<1>4. PICK k \in S : x = B - f[k]
  BY <1>3
<1>5. \A j \in S : f[j] <= f[k]
  <2> SUFFICES ASSUME NEW j \in S PROVE f[j] <= f[k]
    OBVIOUS
  <2>1. B - f[j] \in T
    OBVIOUS
  <2>2. x <= B - f[j]
    BY <1>3, <2>1
  <2> QED
    BY <1>1, <1>4, <2>2
<1> DEFINE M == {j \in S : f[j] = f[k]}
<1>6. M \subseteq Nat /\ M # {}
  <2>1. k \in M
    BY <1>4
  <2>2. M \subseteq 1..n
    OBVIOUS
  <2> HIDE DEF M
  <2> QED
    BY <2>1, <2>2
<1>7. PICK i \in M : \A j \in M : i <= j
  <2> HIDE DEF M
  <2> QED
    BY <1>6, LeastNatural
<1>8. \A j \in S : f[j] < f[i] \/ (f[j] = f[i] /\ i <= j)
  BY <1>1, <1>5, <1>7
<1> QED
  BY <1>7, <1>8

==============================================================================
