------------------------- MODULE AbstractWcet_proofs -------------------------
(***************************************************************************)
(* What the operations of the algebra of abstract WCETs compute, for lists *)
(* of any length.                                                          *)
(***************************************************************************)
EXTENDS AbstractWcet, Induction, SequenceTheorems

MultiWcets == [wl : Seq(Nat), last : Nat]
IsDecreasing(m) == \A i \in Nat \ {0} : Value(m, i + 1) <= Value(m, i)

LEMMA ValueType ==
  ASSUME NEW m \in MultiWcets, NEW i \in Nat \ {0}
  PROVE  Value(m, i) \in Nat
BY DEF MultiWcets, Value

LEMMA ValueOfConstant ==
  ASSUME NEW c \in Nat
  PROVE  /\ MWcet(<<>>, c) \in MultiWcets
         /\ IsDecreasing(MWcet(<<>>, c))
         /\ \A i \in Nat \ {0} : Value(MWcet(<<>>, c), i) = c
BY DEF MultiWcets, Value, MWcet, IsDecreasing

LEMMA ValuesDecrease ==
  ASSUME NEW m \in MultiWcets, IsDecreasing(m), NEW i \in Nat \ {0}, NEW n \in Nat
  PROVE  Value(m, i + n) <= Value(m, i)
<1> DEFINE P == {k \in Nat : Value(m, i + k) <= Value(m, i)}
<1>1. 0 \in P
  BY ValueType
<1>2. ASSUME NEW k \in Nat, k \in P PROVE k + 1 \in P
  <2>1. Value(m, (i + k) + 1) <= Value(m, i + k)
    BY DEF IsDecreasing
  <2>2. /\ Value(m, (i + k) + 1) \in Nat
        /\ Value(m, i + k) \in Nat
        /\ Value(m, i) \in Nat
    BY ValueType
  <2>3. Value(m, i + k) <= Value(m, i)
    BY <1>2
  <2>4. (i + k) + 1 = i + (k + 1)
    OBVIOUS
  <2> QED
    BY <2>1, <2>2, <2>3, <2>4
<1>3. Nat \subseteq P
  <2> HIDE DEF P
  <2> QED
    BY <1>1, <1>2, SetInduction
<1> QED
  BY <1>3

-----------------------------------------------------------------------------
(* Sums of values                                                          *)

\* Total(m)[k] is the sum of the first k values of m.
IsTotal(t, m) ==
  /\ t \in [Nat -> Nat]
  /\ t[0] = 0
  /\ \A k \in Nat : t[k + 1] = t[k] + Value(m, k + 1)
Total(m) == CHOOSE t : IsTotal(t, m)

LEMMA TotalDef ==
  ASSUME NEW m \in MultiWcets
  PROVE  IsTotal(Total(m), m)
<1> DEFINE rank == [k \in Nat |-> k]
           base == [k \in Nat |-> 0]
           next == [k \in Nat \ {0} |-> k - 1]
           step == [p \in (Nat \ {0}) \X Nat |-> p[2] + Value(m, p[1])]
<1>1. \A k \in Nat \ {0}, n \in Nat : step[<<k, n>>] = n + Value(m, k)
  OBVIOUS
<1>2. step \in [(Nat \ {0}) \X Nat -> Nat]
  BY ValueType
<1>3. IsChain(Nat, Nat, rank, {0}, base, next, step)
  <2> HIDE DEF step
  <2> QED
    BY <1>2 DEF IsChain
<1>4. PICK t \in [Nat -> Nat] : FollowsChain(t, Nat, {0}, base, next, step)
  <2> HIDE DEF rank, base, next, step
  <2> QED
    BY <1>3, ChainRecursion
<1>5. ASSUME NEW k \in Nat PROVE t[k + 1] = t[k] + Value(m, k + 1)
  <2>1. t[k + 1] = step[<<k + 1, t[next[k + 1]]>>] /\ next[k + 1] = k
    <3> HIDE DEF step
    <3> QED
      BY <1>4 DEF FollowsChain
  <2> HIDE DEF next, step
  <2> QED
    BY <1>1, <2>1
<1>6. t[0] = 0
  BY <1>4 DEF FollowsChain
<1>7. IsTotal(t, m)
  BY <1>5, <1>6 DEF IsTotal
<1> QED
  BY <1>7 DEF Total

\* A function that starts at 0 and grows by the values of m is Total(m).
LEMMA TotalUnique ==
  ASSUME NEW m \in MultiWcets, NEW N \in Nat, NEW t,
         t[0] = 0, \A k \in Nat : k < N => t[k + 1] = t[k] + Value(m, k + 1)
  PROVE  \A k \in 0..N : t[k] = Total(m)[k]
<1> DEFINE P == {k \in Nat : k <= N => t[k] = Total(m)[k]}
<1>0. IsTotal(Total(m), m)
  BY TotalDef
<1>1. 0 \in P
  BY <1>0 DEF IsTotal
<1>2. ASSUME NEW k \in Nat, k \in P PROVE k + 1 \in P
  <2>1. CASE k + 1 <= N
    BY <1>0, <1>2, <2>1 DEF IsTotal
  <2> QED
    BY <2>1
<1>3. Nat \subseteq P
  <2> HIDE DEF P
  <2> QED
    BY <1>1, <1>2, SetInduction
<1> QED
  BY <1>3

\* The sum of k values behind the first d is a difference of totals.
LEMMA ValSumOfTotal ==
  ASSUME NEW m \in MultiWcets, NEW k \in Nat, NEW d \in Nat
  PROVE  /\ ValSum(k, d, m) \in Nat
         /\ Total(m)[d + k] = Total(m)[d] + ValSum(k, d, m)
<1> DEFINE D == 0..k
           upto[i \in D] == IF i = 0 THEN 0 ELSE upto[i - 1] + Value(m, d + i)
           rank == [i \in D |-> i]
           base == [i \in D |-> 0]
           next == [i \in D \ {0} |-> i - 1]
           step == [p \in (D \ {0}) \X Nat |-> p[2] + Value(m, d + p[1])]
<1>1. \A i \in D \ {0}, n \in Nat : step[<<i, n>>] = n + Value(m, d + i)
  OBVIOUS
<1>2. step \in [(D \ {0}) \X Nat -> Nat]
  BY ValueType
<1>3. IsChain(D, Nat, rank, {0}, base, next, step)
  <2> HIDE DEF step
  <2> QED
    BY <1>2 DEF IsChain
<1>4. PICK f \in [D -> Nat] : FollowsChain(f, D, {0}, base, next, step)
  <2> HIDE DEF D, rank, base, next, step
  <2> QED
    BY <1>3, ChainRecursion
<1>5. f = [i \in D |-> IF i = 0 THEN 0 ELSE f[i - 1] + Value(m, d + i)]
  <2>1. ASSUME NEW i \in D \ {0} PROVE f[i] = f[i - 1] + Value(m, d + i)
    <3>1. f[i] = step[<<i, f[next[i]]>>] /\ next[i] = i - 1
      <4> HIDE DEF step
      <4> QED
        BY <1>4 DEF FollowsChain
    <3> HIDE DEF step, next
    <3> QED
      BY <1>1, <3>1
  <2>2. f[0] = 0
    <3>1. 0 \in D /\ base[0] = 0
      OBVIOUS
    <3> HIDE DEF D, base, next, step
    <3> QED
      BY <1>4, <3>1 DEF FollowsChain
  <2> HIDE DEF step
  <2> QED
    BY <2>1, <2>2
<1>6. upto = [i \in D |-> IF i = 0 THEN 0 ELSE upto[i - 1] + Value(m, d + i)]
  BY <1>5
<1>7. ValSum(k, d, m) = upto[k]
  BY DEF ValSum
<1> HIDE DEF upto
<1> DEFINE T == Total(m)
           P == {i \in Nat : i <= k => upto[i] \in Nat /\ T[d + i] = T[d] + upto[i]}
<1>8. IsTotal(T, m)
  BY TotalDef
<1> HIDE DEF T
<1>9. 0 \in P
  BY <1>6, <1>8 DEF IsTotal
<1>10. ASSUME NEW i \in Nat, i \in P PROVE i + 1 \in P
  <2> SUFFICES ASSUME i + 1 <= k
               PROVE  upto[i + 1] \in Nat /\ T[d + (i + 1)] = T[d] + upto[i + 1]
    OBVIOUS
  <2>1. upto[i + 1] = upto[i] + Value(m, d + (i + 1))
    BY <1>6
  <2>2. T[(d + i) + 1] = T[d + i] + Value(m, (d + i) + 1)
    BY <1>8 DEF IsTotal
  <2>3. (d + i) + 1 = d + (i + 1)
    OBVIOUS
  <2>4. upto[i] \in Nat /\ T[d + i] = T[d] + upto[i]
    BY <1>10
  <2>5. Value(m, d + (i + 1)) \in Nat /\ T[d] \in Nat
    <3>1. d + (i + 1) \in Nat \ {0}
      OBVIOUS
    <3> QED
      BY <1>8, <3>1, ValueType DEF IsTotal
  <2> QED
    BY <2>1, <2>2, <2>3, <2>4, <2>5, SMTT(30)
<1>11. Nat \subseteq P
  <2> HIDE DEF P
  <2> QED
    BY <1>9, <1>10, SetInduction
<1> QED
  BY <1>7, <1>11 DEF T

-----------------------------------------------------------------------------
(* Lists                                                                   *)

\* t is s with e behind its first p elements.
IsInserted(t, S, s, p, e) ==
  /\ t \in Seq(S)
  /\ Len(t) = Len(s) + 1
  /\ \A i \in 1..p : t[i] = s[i]
  /\ t[p + 1] = e
  /\ \A i \in (p + 1)..Len(s) : t[i + 1] = s[i]

\* What SequencesExt!InsertAt does to a sequence.
LEMMA InsertAtProperties ==
  ASSUME NEW S, NEW s \in Seq(S), NEW p \in 0..Len(s), NEW e \in S
  PROVE  IsInserted(InsertAt(s, p + 1, e), S, s, p, e)
<1> DEFINE front == SubSeq(s, 1, p)
           back == SubSeq(s, p + 1, Len(s))
           fe == front \o <<e>>
           t == InsertAt(s, p + 1, e)
<1>1. Len(s) \in Nat
  BY LenProperties
<1>2. /\ front \in Seq(S)
      /\ Len(front) = p
      /\ \A i \in 1..p : front[i] = s[i]
  <2>1. \A i \in 1..p : s[i] \in S
    BY <1>1, ElementOfSeq
  <2>2. /\ front \in Seq(S)
        /\ Len(front) = IF 1 <= p THEN p - 1 + 1 ELSE 0
        /\ \A i \in 1..(p - 1 + 1) : front[i] = s[1 + i - 1]
    BY <1>1, <2>1, SubSeqProperties
  <2> HIDE DEF front
  <2>3. p - 1 + 1 = p /\ \A i \in 1..p : 1 + i - 1 = i
    BY <1>1
  <2> QED
    BY <1>1, <2>2, <2>3
<1>3. /\ back \in Seq(S)
      /\ Len(back) = Len(s) - p
      /\ \A i \in 1..(Len(s) - p) : back[i] = s[p + i]
  <2>1. \A i \in (p + 1)..Len(s) : s[i] \in S
    BY <1>1, ElementOfSeq
  <2>2. /\ back \in Seq(S)
        /\ Len(back) = IF p + 1 <= Len(s) THEN Len(s) - (p + 1) + 1 ELSE 0
        /\ \A i \in 1..(Len(s) - (p + 1) + 1) : back[i] = s[(p + 1) + i - 1]
    BY <1>1, <2>1, SubSeqProperties
  <2> HIDE DEF back
  <2>3. Len(s) - (p + 1) + 1 = Len(s) - p
    BY <1>1
  <2>4. ASSUME NEW i \in 1..(Len(s) - p) PROVE back[i] = s[p + i]
    <3>1. (p + 1) + i - 1 = p + i
      BY <1>1
    <3> QED
      BY <2>2, <2>3, <3>1
  <2>5. Len(back) = Len(s) - p
    BY <1>1, <2>2
  <2> QED
    BY <2>2, <2>4, <2>5
<1>4. <<e>> \in Seq(S) /\ Len(<<e>>) = 1 /\ <<e>>[1] = e
  OBVIOUS
<1> HIDE DEF front, back
<1>5. /\ fe \in Seq(S)
      /\ Len(fe) = p + 1
      /\ \A i \in 1..p : fe[i] = s[i]
      /\ fe[p + 1] = e
  <2>1. /\ fe \in Seq(S)
        /\ Len(fe) = p + 1
        /\ \A i \in 1..(p + 1) : fe[i] = IF i <= p THEN front[i] ELSE <<e>>[i - p]
    BY <1>2, <1>4, ConcatProperties
  <2> HIDE DEF fe
  <2> QED
    BY <1>1, <1>2, <1>4, <2>1
<1> HIDE DEF fe
<1>6. t = fe \o back
  <2>1. (p + 1) - 1 = p
    BY <1>1
  <2> QED
    BY <2>1 DEF InsertAt, fe, front, back
<1>7. /\ t \in Seq(S)
      /\ Len(t) = (p + 1) + (Len(s) - p)
      /\ \A i \in 1..((p + 1) + (Len(s) - p)) :
           t[i] = IF i <= p + 1 THEN fe[i] ELSE back[i - (p + 1)]
  <2>1. /\ fe \o back \in Seq(S)
        /\ Len(fe \o back) = Len(fe) + Len(back)
        /\ \A i \in 1..(Len(fe) + Len(back)) :
             (fe \o back)[i] = IF i <= Len(fe) THEN fe[i] ELSE back[i - Len(fe)]
    BY <1>3, <1>5, ConcatProperties
  <2> HIDE DEF t
  <2>2. Len(fe) = p + 1 /\ Len(back) = Len(s) - p
    BY <1>3, <1>5
  <2> QED
    BY <1>6, <2>1, <2>2, Zenon
<1> HIDE DEF t
<1>8. \A i \in (p + 1)..Len(s) : t[i + 1] = s[i]
  <2> SUFFICES ASSUME NEW i \in (p + 1)..Len(s) PROVE t[i + 1] = s[i]
    OBVIOUS
  <2>1. t[i + 1] = back[(i + 1) - (p + 1)]
    BY <1>1, <1>7
  <2>2. (i + 1) - (p + 1) = i - p /\ i - p \in 1..(Len(s) - p) /\ p + (i - p) = i
    BY <1>1
  <2> QED
    BY <1>3, <2>1, <2>2
<1>9. Len(t) = Len(s) + 1 /\ (p + 1) + (Len(s) - p) = Len(s) + 1
  BY <1>1, <1>7
<1>10. \A i \in 1..(p + 1) : t[i] = fe[i]
  <2>1. \A i \in 1..(p + 1) : i \in 1..(Len(s) + 1) /\ i <= p + 1
    BY <1>1
  <2> QED
    BY <1>7, <1>9, <2>1
<1>11. t[p + 1] = e /\ \A i \in 1..p : t[i] = s[i]
  BY <1>1, <1>5, <1>10
<1> QED
  BY <1>7, <1>8, <1>9, <1>11 DEF t, IsInserted

\* List.merge finds a place for w, and keeps the order of the others.
LEMMA MergeOneProperties ==
  ASSUME NEW wl \in Seq(Nat), NEW w \in Nat
  PROVE  \E p \in 0..Len(wl) : /\ \A i \in 1..p : wl[i] >= w
                               /\ IsInserted(MergeOne(wl, w), Nat, wl, p, w)
<1> DEFINE n == Len(wl)
           IsPlace(k) == /\ \A i \in 1..k : wl[i] >= w
                         /\ k < n => wl[k + 1] < w
           p == CHOOSE k \in 0..n : IsPlace(k)
<1>1. n \in Nat /\ \A i \in 1..n : wl[i] \in Nat
  BY LenProperties, ElementOfSeq
<1> HIDE DEF n
<1>2. \E k \in 0..n : IsPlace(k)
  <2> DEFINE T == {k \in Nat : k >= n \/ wl[k + 1] < w}
  <2>1. PICK k \in T : \A j \in T : k <= j
    <3>1. n \in T
      BY <1>1
    <3> HIDE DEF T
    <3>2. T \subseteq Nat
      BY DEF T
    <3> QED
      BY <3>1, <3>2, LeastNatural
  <2>2. k \in 0..n
    BY <1>1, <2>1
  <2>3. \A i \in 1..k : wl[i] >= w
    <3> SUFFICES ASSUME NEW i \in 1..k PROVE wl[i] >= w
      OBVIOUS
    <3>1. i - 1 \in Nat /\ i - 1 < k /\ (i - 1) + 1 = i
      BY <2>2
    <3>2. i - 1 \notin T
      BY <2>1, <3>1
    <3>3. ~(wl[i] < w) /\ wl[i] \in Nat
      BY <1>1, <2>2, <3>1, <3>2
    <3> QED
      BY <3>3
  <2> QED
    BY <1>1, <2>1, <2>2, <2>3
<1>3. p \in 0..n /\ IsPlace(p)
  BY <1>2
<1>4. MergeOne(wl, w) = InsertAt(wl, p + 1, w)
  BY DEF MergeOne, n
<1> HIDE DEF p
<1>5. p \in 0..Len(wl) /\ \A i \in 1..p : wl[i] >= w
  BY <1>3 DEF n
<1>6. IsInserted(InsertAt(wl, p + 1, w), Nat, wl, p, w)
  BY <1>5, InsertAtProperties
<1> QED
  BY <1>4, <1>5, <1>6

LEMMA InsertType ==
  ASSUME NEW m \in MultiWcets, NEW w \in Nat
  PROVE  Insert(w, m) \in MultiWcets
<1>1. m.wl \in Seq(Nat) /\ m.last \in Nat
  BY DEF MultiWcets
<1>2. MergeOne(m.wl, w) \in Seq(Nat) /\ MergeOne(m.wl, m.last) \in Seq(Nat)
  BY <1>1, MergeOneProperties DEF IsInserted
<1> QED
  BY <1>1, <1>2 DEF Insert, MWcet, MultiWcets

\* Inserted into a decreasing list, a value that is not less than any in it
\* becomes the first one and the others move back.
IsFront(r, w, m) ==
  /\ Value(r, 1) = w
  /\ \A i \in Nat \ {0} : Value(r, i + 1) = Value(m, i)

LEMMA FrontDecreases ==
  ASSUME NEW m \in MultiWcets, NEW w \in Nat, NEW r, IsFront(r, w, m),
         IsDecreasing(m), w >= Value(m, 1)
  PROVE  IsDecreasing(r)
<1> SUFFICES ASSUME NEW i \in Nat \ {0} PROVE Value(r, i + 1) <= Value(r, i)
  BY DEF IsDecreasing
<1>1. CASE i = 1
  BY <1>1 DEF IsFront
<1>2. CASE i # 1
  <2>1. i - 1 \in Nat \ {0} /\ (i - 1) + 1 = i
    BY <1>2
  <2> QED
    BY <2>1 DEF IsFront, IsDecreasing
<1> QED
  BY <1>1, <1>2

\* The list of the result when w, at least all of wl, is merged into it.
LEMMA MergeFront ==
  ASSUME NEW wl \in Seq(Nat), NEW w \in Nat, \A i \in 1..Len(wl) : wl[i] <= w
  PROVE  IsInserted(MergeOne(wl, w), Nat, wl, 0, w)
<1>1. PICK p \in 0..Len(wl) : /\ \A i \in 1..p : wl[i] >= w
                              /\ IsInserted(MergeOne(wl, w), Nat, wl, p, w)
  BY MergeOneProperties
<1>2. Len(wl) \in Nat
  BY LenProperties
<1> DEFINE t == MergeOne(wl, w)
<1> HIDE DEF t
<1>3. /\ t \in Seq(Nat)
      /\ Len(t) = Len(wl) + 1
      /\ \A i \in 1..p : t[i] = wl[i]
      /\ t[p + 1] = w
      /\ \A i \in (p + 1)..Len(wl) : t[i + 1] = wl[i]
  BY <1>1 DEF IsInserted, t
<1>4. \A i \in 1..p : wl[i] = w
  <2> SUFFICES ASSUME NEW i \in 1..p PROVE wl[i] = w
    OBVIOUS
  <2>1. i \in 1..Len(wl) /\ wl[i] \in Nat
    BY <1>2, ElementOfSeq
  <2> QED
    BY <1>1, <2>1
<1>5. \A i \in 1..(p + 1) : t[i] = w
  <2> SUFFICES ASSUME NEW i \in 1..(p + 1) PROVE t[i] = w
    OBVIOUS
  <2>1. i \in 1..p \/ i = p + 1
    BY <1>2
  <2>2. CASE i \in 1..p
    <3>1. t[i] = wl[i]
      BY <1>3, <2>2
    <3>2. wl[i] = w
      BY <1>4, <2>2
    <3> QED
      BY <3>1, <3>2
  <2>3. CASE i = p + 1
    BY <1>3, <2>3
  <2> QED
    BY <2>1, <2>2, <2>3
<1>6. \A i \in 1..Len(wl) : t[i + 1] = wl[i]
  BY <1>2, <1>3, <1>4, <1>5
<1>7. t[0 + 1] = w
  BY <1>5
<1> QED
  BY <1>3, <1>6, <1>7 DEF IsInserted, t

THEOREM InsertFront ==
  ASSUME NEW m \in MultiWcets, IsDecreasing(m), NEW w \in Nat, w >= Value(m, 1)
  PROVE  /\ Insert(w, m) \in MultiWcets
         /\ IsDecreasing(Insert(w, m))
         /\ IsFront(Insert(w, m), w, m)
<1> DEFINE wl == m.wl
           n == Len(wl)
           r == Insert(w, m)
<1>1. wl \in Seq(Nat) /\ m.last \in Nat /\ n \in Nat
  BY LenProperties DEF MultiWcets
<1>2. \A i \in Nat \ {0} : Value(m, i) \in Nat /\ Value(m, i) <= w
  <2> SUFFICES ASSUME NEW i \in Nat \ {0} PROVE Value(m, i) \in Nat /\ Value(m, i) <= w
    OBVIOUS
  <2>1. Value(m, 1 + (i - 1)) <= Value(m, 1)
    BY ValuesDecrease
  <2>2. 1 + (i - 1) = i /\ Value(m, i) \in Nat /\ Value(m, 1) \in Nat
    BY ValueType
  <2> QED
    BY <2>1, <2>2
<1>3. \A i \in Nat \ {0} : Value(m, i) = IF i <= n THEN wl[i] ELSE m.last
  BY DEF Value
<1> HIDE DEF n
<1>4. /\ \A i \in 1..n : wl[i] \in Nat /\ wl[i] <= w
      /\ m.last <= w
  <2>1. n + 1 \in Nat \ {0} /\ ~(n + 1 <= n)
    BY <1>1
  <2>2. Value(m, n + 1) = m.last /\ Value(m, n + 1) <= w
    BY <1>2, <1>3, <2>1
  <2>3. ASSUME NEW i \in 1..n PROVE wl[i] \in Nat /\ wl[i] <= w
    <3>1. i \in Nat \ {0} /\ i <= n
      BY <1>1
    <3>2. Value(m, i) = wl[i]
      BY <1>3, <3>1
    <3> QED
      BY <1>2, <3>1, <3>2
  <2> QED
    BY <2>2, <2>3
<1>5. IsInserted(MergeOne(wl, w), Nat, wl, 0, w)
  BY <1>1, <1>4, MergeFront DEF n
<1>6. r = MWcet(MergeOne(wl, w), m.last)
  <2>1. CASE w > m.last
    BY <2>1 DEF Insert
  <2>2. CASE ~(w > m.last)
    <3>1. m.last = w
      BY <1>1, <1>4, <2>2
    <3> QED
      BY <2>2, <3>1 DEF Insert
  <2> QED
    BY <2>1, <2>2
<1> DEFINE t == MergeOne(wl, w)
<1>7. /\ Len(t) = n + 1
      /\ t[1] = w
      /\ \A i \in 1..n : t[i + 1] = wl[i]
  <2>1. 0 + 1 = 1
    OBVIOUS
  <2> QED
    BY <1>5, <2>1 DEF IsInserted, n
<1>8. r.wl = t /\ r.last = m.last
  BY <1>6 DEF MWcet
<1> HIDE DEF t, r, wl
<1>9. \A i \in Nat \ {0} : Value(r, i) = IF i <= n + 1 THEN t[i] ELSE m.last
  BY <1>7, <1>8 DEF Value
<1>10. IsFront(r, w, m)
  <2>1. Value(r, 1) = w
    BY <1>1, <1>7, <1>9
  <2>2. ASSUME NEW i \in Nat \ {0} PROVE Value(r, i + 1) = Value(m, i)
    <3>1. i + 1 \in Nat \ {0} /\ (i + 1 <= n + 1 <=> i <= n) /\ (i <= n => i \in 1..n)
      BY <1>1
    <3> QED
      BY <1>3, <1>7, <1>9, <3>1
  <2> QED
    BY <2>1, <2>2 DEF IsFront
<1> QED
  BY <1>10, FrontDecreases, InsertType DEF r

-----------------------------------------------------------------------------
(* The recursive functions that put a list together: at x they stop with a  *)
(* constant, or put a value in front of the list made at next[x].           *)

IsBuilder(D, rank, Stop, last, next, val) ==
  /\ rank \in [D -> Nat]
  /\ last \in [D -> Nat]
  /\ next \in [D \ Stop -> D]
  /\ val \in [D \ Stop -> Nat]
  /\ \A x \in D \ Stop : rank[next[x]] < rank[x]

Builds(f, D, Stop, last, next, val) ==
  \A x \in D : /\ x \in Stop => f[x] = MWcet(<<>>, last[x])
               /\ x \notin Stop => f[x] = Insert(val[x], f[next[x]])

\* The first value of the list made at x.
HeadAt(x, Stop, last, val) == IF x \in Stop THEN last[x] ELSE val[x]

LEMMA BuilderExists ==
  ASSUME NEW D, NEW rank, NEW Stop, NEW last, NEW next, NEW val,
         IsBuilder(D, rank, Stop, last, next, val)
  PROVE  \E f \in [D -> MultiWcets] : Builds(f, D, Stop, last, next, val)
<1> DEFINE base == [x \in D |-> MWcet(<<>>, last[x])]
           step == [p \in (D \ Stop) \X MultiWcets |-> Insert(val[p[1]], p[2])]
<1>1. base \in [D -> MultiWcets]
  BY ValueOfConstant DEF IsBuilder
<1>2. ASSUME NEW x \in D \ Stop, NEW m \in MultiWcets
      PROVE  step[<<x, m>>] = Insert(val[x], m)
  OBVIOUS
<1>3. step \in [(D \ Stop) \X MultiWcets -> MultiWcets]
  <2> SUFFICES ASSUME NEW p \in (D \ Stop) \X MultiWcets
               PROVE  Insert(val[p[1]], p[2]) \in MultiWcets
    OBVIOUS
  <2>1. val[p[1]] \in Nat /\ p[2] \in MultiWcets
    BY DEF IsBuilder
  <2> QED
    BY <2>1, InsertType
<1> HIDE DEF step
<1>4. IsChain(D, MultiWcets, rank, Stop, base, next, step)
  BY <1>1, <1>3 DEF IsChain, IsBuilder
<1>5. PICK f \in [D -> MultiWcets] : FollowsChain(f, D, Stop, base, next, step)
  <2> HIDE DEF base
  <2> QED
    BY <1>4, ChainRecursion
<1>6. ASSUME NEW x \in D
      PROVE  /\ x \in Stop => f[x] = MWcet(<<>>, last[x])
             /\ x \notin Stop => f[x] = Insert(val[x], f[next[x]])
  <2>1. CASE x \in Stop
    BY <1>5, <2>1 DEF FollowsChain
  <2>2. CASE x \notin Stop
    <3>1. f[next[x]] \in MultiWcets
      BY <2>2 DEF IsBuilder
    <3>2. f[x] = step[<<x, f[next[x]]>>]
      BY <1>5, <2>2 DEF FollowsChain
    <3> QED
      BY <1>2, <2>2, <3>1, <3>2
  <2> QED
    BY <2>1, <2>2
<1>7. Builds(f, D, Stop, last, next, val)
  BY <1>6 DEF Builds
<1> QED
  BY <1>7

\* When no value is less than the one behind it, nothing is sorted.
LEMMA BuilderInOrder ==
  ASSUME NEW D, NEW rank, NEW Stop, NEW last, NEW next, NEW val, NEW f,
         IsBuilder(D, rank, Stop, last, next, val),
         Builds(f, D, Stop, last, next, val),
         \A x \in D \ Stop : val[x] >= HeadAt(next[x], Stop, last, val)
  PROVE  \A x \in D :
           /\ f[x] \in MultiWcets
           /\ IsDecreasing(f[x])
           /\ Value(f[x], 1) = HeadAt(x, Stop, last, val)
           /\ x \in Stop => \A i \in Nat \ {0} : Value(f[x], i) = last[x]
           /\ x \notin Stop => \A i \in Nat \ {0} : Value(f[x], i + 1) = Value(f[next[x]], i)
<1> DEFINE Good == {x \in D :
                      /\ f[x] \in MultiWcets
                      /\ IsDecreasing(f[x])
                      /\ Value(f[x], 1) = HeadAt(x, Stop, last, val)}
<1>1. ASSUME NEW x \in D \cap Stop
      PROVE  x \in Good /\ \A i \in Nat \ {0} : Value(f[x], i) = last[x]
  <2>1. last[x] \in Nat /\ f[x] = MWcet(<<>>, last[x])
    BY DEF IsBuilder, Builds
  <2> QED
    BY <2>1, ValueOfConstant DEF HeadAt
<1>2. ASSUME NEW x \in D \ Stop, next[x] \in Good
      PROVE  /\ x \in Good
             /\ IsFront(f[x], val[x], f[next[x]])
  <2>1. val[x] \in Nat /\ f[x] = Insert(val[x], f[next[x]])
    BY DEF IsBuilder, Builds
  <2>2. /\ f[next[x]] \in MultiWcets
        /\ IsDecreasing(f[next[x]])
        /\ val[x] >= Value(f[next[x]], 1)
    BY <1>2
  <2>3. /\ f[x] \in MultiWcets
        /\ IsDecreasing(f[x])
        /\ IsFront(f[x], val[x], f[next[x]])
    BY <2>1, <2>2, InsertFront
  <2> QED
    BY <2>3 DEF IsFront, HeadAt
<1>3. ASSUME NEW x \in D, \A y \in D : rank[y] < rank[x] => y \in Good
      PROVE  x \in Good
  <2>1. x \notin Stop => next[x] \in D /\ rank[next[x]] < rank[x]
    BY DEF IsBuilder
  <2> HIDE DEF Good
  <2> QED
    BY <1>1, <1>2, <1>3, <2>1
<1>4. D \subseteq Good
  <2>1. rank \in [D -> Nat]
    BY DEF IsBuilder
  <2> HIDE DEF Good
  <2> QED
    BY <1>3, <2>1, RankInduction
<1>5. \A x \in D \ Stop : next[x] \in Good
  BY <1>4 DEF IsBuilder
<1> QED
  BY <1>1, <1>2, <1>4, <1>5 DEF IsFront

-----------------------------------------------------------------------------
(* The operations                                                          *)

DecreasingWcets == {m \in MultiWcets : IsDecreasing(m)}

LEMMA ListLength ==
  ASSUME NEW m \in MultiWcets
  PROVE  /\ Len(m.wl) \in Nat
         /\ \A i \in Nat : i > Len(m.wl) => Value(m, i) = m.last
         /\ m.last \in Nat
BY LenProperties DEF MultiWcets, Value

\* sum adds the values at each position.
THEOREM SumValues ==
  ASSUME NEW a \in DecreasingWcets, NEW b \in DecreasingWcets
  PROVE  /\ SumMWcet(a, b) \in DecreasingWcets
         /\ \A i \in Nat \ {0} : Value(SumMWcet(a, b), i) = Value(a, i) + Value(b, i)
<1> DEFINE n == IF Len(a.wl) >= Len(b.wl) THEN Len(a.wl) ELSE Len(b.wl)
           D == 1..(n + 1)
           from[k \in D] ==
             IF k = n + 1
             THEN MWcet(<<>>, a.last + b.last)
             ELSE Insert(Value(a, k) + Value(b, k), from[k + 1])
           Stop == {n + 1}
           rank == [k \in D |-> n + 1 - k]
           last == [k \in D |-> a.last + b.last]
           next == [k \in D \ Stop |-> k + 1]
           val == [k \in D \ Stop |-> Value(a, k) + Value(b, k)]
<1>1. a \in MultiWcets /\ IsDecreasing(a) /\ b \in MultiWcets /\ IsDecreasing(b)
  BY DEF DecreasingWcets
<1>2. /\ n \in Nat
      /\ a.last \in Nat /\ b.last \in Nat
      /\ \A i \in Nat : i > n => Value(a, i) = a.last /\ Value(b, i) = b.last
      /\ \A i \in Nat \ {0} : Value(a, i) \in Nat /\ Value(b, i) \in Nat
  BY <1>1, ListLength, ValueType
<1>3. SumMWcet(a, b) = from[1]
  BY DEF SumMWcet
<1> HIDE DEF n
<1>4. IsBuilder(D, rank, Stop, last, next, val)
  BY <1>2 DEF IsBuilder
<1>5. PICK f \in [D -> MultiWcets] : Builds(f, D, Stop, last, next, val)
  <2> HIDE DEF D, rank, Stop, last, next, val
  <2> QED
    BY <1>4, BuilderExists
<1>6. f = [k \in D |-> IF k = n + 1 THEN MWcet(<<>>, a.last + b.last)
                                    ELSE Insert(Value(a, k) + Value(b, k), f[k + 1])]
  BY <1>5 DEF Builds
<1>7. from = [k \in D |-> IF k = n + 1 THEN MWcet(<<>>, a.last + b.last)
                                       ELSE Insert(Value(a, k) + Value(b, k), from[k + 1])]
  BY <1>6
<1> HIDE DEF from
<1>8. Builds(from, D, Stop, last, next, val)
  BY <1>7 DEF Builds
<1>9. \A k \in D : HeadAt(k, Stop, last, val) = Value(a, k) + Value(b, k)
  BY <1>2 DEF HeadAt
<1>10. ASSUME NEW k \in D \ Stop PROVE val[k] >= HeadAt(next[k], Stop, last, val)
  <2>1. Value(a, k + 1) <= Value(a, k) /\ Value(b, k + 1) <= Value(b, k)
    BY <1>1 DEF IsDecreasing
  <2>2. k + 1 \in D /\ k + 1 \in Nat \ {0} /\ k \in Nat \ {0}
    BY <1>2
  <2>3. HeadAt(k + 1, Stop, last, val) = Value(a, k + 1) + Value(b, k + 1)
    BY <1>9, <2>2
  <2>4. val[k] = Value(a, k) + Value(b, k) /\ next[k] = k + 1
    OBVIOUS
  <2> HIDE DEF val, next
  <2> QED
    BY <1>2, <2>1, <2>2, <2>3, <2>4
<1>11. \A k \in D :
        /\ from[k] \in MultiWcets
        /\ IsDecreasing(from[k])
        /\ Value(from[k], 1) = HeadAt(k, Stop, last, val)
        /\ k \in Stop => \A i \in Nat \ {0} : Value(from[k], i) = last[k]
        /\ k \notin Stop => \A i \in Nat \ {0} : Value(from[k], i + 1) = Value(from[next[k]], i)
  <2> HIDE DEF D, rank, Stop, last, next, val
  <2> QED
    BY <1>4, <1>8, <1>10, BuilderInOrder
<1> DEFINE P == {j \in Nat : \A k \in D : Value(from[k], j + 1) = Value(a, k + j) + Value(b, k + j)}
<1>12. 0 \in P
  <2>1. \A k \in D : k + 0 = k
    OBVIOUS
  <2>2. 0 + 1 = 1
    OBVIOUS
  <2> HIDE DEF D, val, last, Stop
  <2> QED
    BY <1>9, <1>11, <2>1, <2>2
<1>13. ASSUME NEW j \in Nat, j \in P PROVE j + 1 \in P
  <2> SUFFICES ASSUME NEW k \in D
               PROVE  Value(from[k], (j + 1) + 1) = Value(a, k + (j + 1)) + Value(b, k + (j + 1))
    OBVIOUS
  <2>1. CASE k \in Stop
    <3>0. (j + 1) + 1 \in Nat \ {0} /\ last[k] = a.last + b.last
      OBVIOUS
    <3>1. Value(from[k], (j + 1) + 1) = a.last + b.last
      <4> HIDE DEF last, D, Stop, val
      <4> QED
        BY <1>11, <2>1, <3>0, Zenon
    <3>2. k + (j + 1) \in Nat /\ k + (j + 1) > n
      BY <1>2, <2>1
    <3> QED
      BY <1>2, <3>1, <3>2
  <2>2. CASE k \notin Stop
    <3>1. k + 1 \in D /\ next[k] = k + 1 /\ (k + 1) + j = k + (j + 1)
      BY <1>2, <2>2
    <3>2. Value(from[k], (j + 1) + 1) = Value(from[k + 1], j + 1)
      <4>1. j + 1 \in Nat \ {0}
        OBVIOUS
      <4> HIDE DEF D, Stop, next, last, val
      <4>2. \A i \in Nat \ {0} : Value(from[k], i + 1) = Value(from[next[k]], i)
        BY <1>11, <2>2, Zenon
      <4> QED
        BY <3>1, <4>1, <4>2
    <3>3. Value(from[k + 1], j + 1) = Value(a, (k + 1) + j) + Value(b, (k + 1) + j)
      <4>1. \A c \in D : Value(from[c], j + 1) = Value(a, c + j) + Value(b, c + j)
        BY <1>13
      <4> HIDE DEF D, Stop, next, last, val, from
      <4> QED
        BY <3>1, <4>1
    <3> HIDE DEF D, Stop, next, last, val, from
    <3> QED
      BY <3>1, <3>2, <3>3
  <2> QED
    BY <2>1, <2>2
<1>14. Nat \subseteq P
  <2> HIDE DEF P
  <2> QED
    BY <1>12, <1>13, SetInduction
<1>15. ASSUME NEW i \in Nat \ {0} PROVE Value(from[1], i) = Value(a, i) + Value(b, i)
  <2>1. i - 1 \in Nat /\ 1 \in D /\ (i - 1) + 1 = i /\ 1 + (i - 1) = i
    BY <1>2
  <2>2. Value(from[1], (i - 1) + 1) = Value(a, 1 + (i - 1)) + Value(b, 1 + (i - 1))
    BY <1>14, <2>1
  <2> QED
    BY <2>1, <2>2
<1>16. 1 \in D
  BY <1>2
<1> QED
  BY <1>3, <1>11, <1>15, <1>16 DEF DecreasingWcets

LEMMA TimesMonotone ==
  ASSUME NEW k \in Nat, NEW x \in Nat, NEW y \in Nat, x <= y
  PROVE  k * x \in Nat /\ k * x <= k * y
OBVIOUS

\* prod multiplies each value.
THEOREM ProdValues ==
  ASSUME NEW m \in DecreasingWcets, NEW k \in Nat
  PROVE  /\ ProdMWcet(k, m) \in DecreasingWcets
         /\ \A i \in Nat \ {0} : Value(ProdMWcet(k, m), i) = k * Value(m, i)
<1> DEFINE r == ProdMWcet(k, m)
           n == Len(m.wl)
           wl == [i \in DOMAIN m.wl |-> m.wl[i] * k]
<1>1. m \in MultiWcets /\ IsDecreasing(m)
  BY DEF DecreasingWcets
<1>2. n \in Nat /\ m.last \in Nat /\ DOMAIN m.wl = 1..n /\ \A i \in 1..n : m.wl[i] \in Nat
  BY <1>1, LenProperties, ElementOfSeq DEF MultiWcets
<1>3. wl \in Seq(Nat) /\ Len(wl) = n /\ \A i \in 1..n : wl[i] = k * m.wl[i]
  <2>1. \A i \in 1..n : m.wl[i] * k \in Nat /\ m.wl[i] * k = k * m.wl[i]
    BY <1>2
  <2>2. wl \in [1..n -> Nat]
    BY <1>2, <2>1
  <2>3. wl \in Seq(Nat)
    BY <1>2, <2>2, SeqDef
  <2>4. Len(wl) = n
    BY <1>2, <2>2, <2>3, LenProperties
  <2> QED
    BY <1>2, <2>1, <2>3, <2>4
<1>4. r.wl = wl /\ r.last = k * m.last /\ r \in MultiWcets
  BY <1>2, <1>3 DEF ProdMWcet, MWcet, MultiWcets
<1> HIDE DEF r, wl, n
<1>5. ASSUME NEW i \in Nat \ {0} PROVE Value(r, i) = k * Value(m, i)
  <2>1. CASE i <= n
    <3>1. i \in 1..n
      BY <1>2, <2>1
    <3>2. Value(r, i) = wl[i] /\ Value(m, i) = m.wl[i]
      BY <1>3, <1>4, <2>1 DEF Value, n
    <3> QED
      BY <1>3, <3>1, <3>2
  <2>2. CASE ~(i <= n)
    BY <1>3, <1>4, <2>2 DEF Value, n
  <2> QED
    BY <2>1, <2>2
<1>6. ASSUME NEW i \in Nat \ {0} PROVE Value(r, i + 1) <= Value(r, i)
  <2>1. Value(m, i + 1) <= Value(m, i) /\ Value(m, i + 1) \in Nat /\ Value(m, i) \in Nat
    BY <1>1, ValueType DEF IsDecreasing
  <2>2. Value(r, i + 1) = k * Value(m, i + 1) /\ Value(r, i) = k * Value(m, i)
    BY <1>5
  <2> QED
    BY <2>1, <2>2, TimesMonotone
<1> QED
  BY <1>4, <1>5, <1>6 DEF DecreasingWcets, IsDecreasing, r

\* annot keeps the first n values and puts 0 behind them.
THEOREM KeepFirstValues ==
  ASSUME NEW m \in DecreasingWcets, NEW n \in Nat
  PROVE  /\ KeepFirst(n, m) \in DecreasingWcets
         /\ \A i \in Nat \ {0} : Value(KeepFirst(n, m), i) = IF i <= n THEN Value(m, i) ELSE 0
<1> DEFINE D == 0..n
           from[k \in D] ==
             IF k = n THEN MWcet(<<>>, 0) ELSE Insert(Value(m, k + 1), from[k + 1])
           Stop == {n}
           rank == [k \in D |-> n - k]
           last == [k \in D |-> 0]
           next == [k \in D \ Stop |-> k + 1]
           val == [k \in D \ Stop |-> Value(m, k + 1)]
<1>1. m \in MultiWcets /\ IsDecreasing(m) /\ \A i \in Nat \ {0} : Value(m, i) \in Nat
  BY ValueType DEF DecreasingWcets
<1>2. KeepFirst(n, m) = from[0]
  BY DEF KeepFirst
<1>3. IsBuilder(D, rank, Stop, last, next, val)
  BY <1>1 DEF IsBuilder
<1>4. PICK f \in [D -> MultiWcets] : Builds(f, D, Stop, last, next, val)
  <2> HIDE DEF D, rank, Stop, last, next, val
  <2> QED
    BY <1>3, BuilderExists
<1>5. f = [k \in D |-> IF k = n THEN MWcet(<<>>, 0) ELSE Insert(Value(m, k + 1), f[k + 1])]
  BY <1>4 DEF Builds
<1>6. from = [k \in D |-> IF k = n THEN MWcet(<<>>, 0) ELSE Insert(Value(m, k + 1), from[k + 1])]
  BY <1>5
<1> HIDE DEF from
<1>7. Builds(from, D, Stop, last, next, val)
  BY <1>6 DEF Builds
<1>8. ASSUME NEW k \in D \ Stop PROVE val[k] >= HeadAt(next[k], Stop, last, val)
  <2>1. /\ Value(m, (k + 1) + 1) <= Value(m, k + 1)
        /\ Value(m, k + 1) \in Nat /\ Value(m, (k + 1) + 1) \in Nat
    BY <1>1 DEF IsDecreasing
  <2>2. HeadAt(k + 1, Stop, last, val) = IF k + 1 = n THEN 0 ELSE Value(m, (k + 1) + 1)
    BY DEF HeadAt
  <2>3. val[k] = Value(m, k + 1) /\ next[k] = k + 1
    OBVIOUS
  <2> HIDE DEF val, next
  <2> QED
    BY <2>1, <2>2, <2>3
<1>9. \A k \in D :
        /\ from[k] \in MultiWcets
        /\ IsDecreasing(from[k])
        /\ Value(from[k], 1) = HeadAt(k, Stop, last, val)
        /\ k \in Stop => \A i \in Nat \ {0} : Value(from[k], i) = last[k]
        /\ k \notin Stop => \A i \in Nat \ {0} : Value(from[k], i + 1) = Value(from[next[k]], i)
  <2> HIDE DEF D, rank, Stop, last, next, val
  <2> QED
    BY <1>3, <1>7, <1>8, BuilderInOrder
<1> DEFINE Expected(i) == IF i <= n THEN Value(m, i) ELSE 0
           P == {j \in Nat : \A k \in D : Value(from[k], j + 1) = Expected((k + j) + 1)}
<1>10. 0 \in P
  <2>1. ASSUME NEW k \in D PROVE HeadAt(k, Stop, last, val) = Expected(k + 1)
    BY DEF HeadAt
  <2>2. \A k \in D : (k + 0) + 1 = k + 1
    OBVIOUS
  <2>3. 0 + 1 = 1
    OBVIOUS
  <2> HIDE DEF D, val, last, Stop, Expected
  <2> QED
    BY <1>9, <2>1, <2>2, <2>3
<1>11. ASSUME NEW j \in Nat, j \in P PROVE j + 1 \in P
  <2> SUFFICES ASSUME NEW k \in D
               PROVE  Value(from[k], (j + 1) + 1) = Expected((k + (j + 1)) + 1)
    OBVIOUS
  <2>1. CASE k \in Stop
    <3>1. (j + 1) + 1 \in Nat \ {0} /\ last[k] = 0 /\ Expected((k + (j + 1)) + 1) = 0
      BY <2>1
    <3> HIDE DEF last, D, Stop, val, Expected
    <3> QED
      BY <1>9, <2>1, <3>1, Zenon
  <2>2. CASE k \notin Stop
    <3>1. k + 1 \in D /\ next[k] = k + 1 /\ (k + 1) + j = k + (j + 1) /\ j + 1 \in Nat \ {0}
      BY <2>2
    <3>2. Value(from[k + 1], j + 1) = Expected(((k + 1) + j) + 1)
      BY <1>11, <3>1
    <3>3. Value(from[k], (j + 1) + 1) = Value(from[k + 1], j + 1)
      <4> HIDE DEF last, D, Stop, next, val, Expected
      <4> QED
        BY <1>9, <2>2, <3>1, Zenon
    <3> HIDE DEF Expected
    <3> QED
      BY <3>1, <3>2, <3>3
  <2> QED
    BY <2>1, <2>2
<1>12. Nat \subseteq P
  <2> HIDE DEF P
  <2> QED
    BY <1>10, <1>11, SetInduction
<1>13. ASSUME NEW i \in Nat \ {0} PROVE Value(from[0], i) = Expected(i)
  <2>1. i - 1 \in Nat /\ 0 \in D /\ (i - 1) + 1 = i /\ (0 + (i - 1)) + 1 = i
    OBVIOUS
  <2>2. Value(from[0], (i - 1) + 1) = Expected((0 + (i - 1)) + 1)
    BY <1>12, <2>1
  <2> HIDE DEF Expected
  <2> QED
    BY <2>1, <2>2
<1>14. 0 \in D
  OBVIOUS
<1> QED
  BY <1>2, <1>9, <1>13, <1>14 DEF DecreasingWcets

\* The sum of k values changes by the ones that enter and leave the window.
LEMMA ValSumSlides ==
  ASSUME NEW m \in DecreasingWcets, NEW k \in Nat, NEW d \in Nat
  PROVE  /\ ValSum(k, d, m) \in Nat
         /\ ValSum(k, d + 1, m) + Value(m, d + 1) = ValSum(k, d, m) + Value(m, (d + k) + 1)
         /\ ValSum(k, d + 1, m) <= ValSum(k, d, m)
         /\ d >= Len(m.wl) => ValSum(k, d + 1, m) = ValSum(k, d, m)
<1> DEFINE T == Total(m)
<1>1. m \in MultiWcets /\ IsDecreasing(m)
  BY DEF DecreasingWcets
<1>2. /\ T[d + 1] = T[d] + Value(m, d + 1)
      /\ T[(d + k) + 1] = T[d + k] + Value(m, (d + k) + 1)
      /\ T[d] \in Nat /\ T[d + k] \in Nat
  BY <1>1, TotalDef DEF IsTotal
<1>3. /\ ValSum(k, d, m) \in Nat
      /\ T[d + k] = T[d] + ValSum(k, d, m)
  BY <1>1, ValSumOfTotal
<1>4. /\ ValSum(k, d + 1, m) \in Nat
      /\ T[(d + 1) + k] = T[d + 1] + ValSum(k, d + 1, m)
  <2>1. d + 1 \in Nat
    OBVIOUS
  <2> QED
    BY <1>1, <2>1, ValSumOfTotal
<1>5. /\ Value(m, (d + 1) + k) <= Value(m, d + 1)
      /\ Value(m, d + 1) \in Nat /\ Value(m, (d + k) + 1) \in Nat
  BY <1>1, ValuesDecrease, ValueType
<1>6. (d + 1) + k = (d + k) + 1
  OBVIOUS
<1>7. d >= Len(m.wl) => Value(m, d + 1) = m.last /\ Value(m, (d + k) + 1) = m.last
  BY <1>1, ListLength
<1> HIDE DEF T
<1>8. ValSum(k, d + 1, m) + Value(m, d + 1) = ValSum(k, d, m) + Value(m, (d + k) + 1)
  BY <1>2, <1>3, <1>4, <1>5, <1>6
<1>9. ValSum(k, d + 1, m) <= ValSum(k, d, m)
  BY <1>3, <1>4, <1>5, <1>6, <1>8
<1>10. d >= Len(m.wl) => ValSum(k, d + 1, m) = ValSum(k, d, m)
  BY <1>3, <1>4, <1>5, <1>7, <1>8
<1> QED
  BY <1>3, <1>8, <1>9, <1>10

LEMMA ValSumDecreases ==
  ASSUME NEW m \in DecreasingWcets, NEW k \in Nat, NEW d \in Nat, NEW e \in Nat
  PROVE  /\ ValSum(k, d + e, m) <= ValSum(k, d, m)
         /\ d >= Len(m.wl) => ValSum(k, d + e, m) = ValSum(k, d, m)
<1> DEFINE P == {j \in Nat : /\ ValSum(k, d + j, m) <= ValSum(k, d, m)
                             /\ d >= Len(m.wl) => ValSum(k, d + j, m) = ValSum(k, d, m)}
<1>1. 0 \in P
  <2>1. d + 0 = d /\ ValSum(k, d, m) \in Nat
    BY ValSumSlides
  <2> QED
    BY <2>1
<1>2. ASSUME NEW j \in Nat, j \in P PROVE j + 1 \in P
  <2>1. /\ ValSum(k, d, m) \in Nat
        /\ ValSum(k, d + j, m) \in Nat
        /\ ValSum(k, (d + j) + 1, m) \in Nat
        /\ ValSum(k, (d + j) + 1, m) <= ValSum(k, d + j, m)
        /\ d + j >= Len(m.wl) => ValSum(k, (d + j) + 1, m) = ValSum(k, d + j, m)
    <3>1. d + j \in Nat /\ (d + j) + 1 \in Nat
      OBVIOUS
    <3>2. ValSum(k, (d + j) + 1, m) \in Nat
      BY <3>1, ValSumSlides
    <3> QED
      BY <3>1, <3>2, ValSumSlides
  <2>2. (d + j) + 1 = d + (j + 1) /\ (d >= Len(m.wl) => d + j >= Len(m.wl))
    BY ListLength DEF DecreasingWcets
  <2>3. /\ ValSum(k, d + j, m) <= ValSum(k, d, m)
        /\ d >= Len(m.wl) => ValSum(k, d + j, m) = ValSum(k, d, m)
    BY <1>2
  <2> QED
    BY <2>1, <2>2, <2>3
<1>3. Nat \subseteq P
  <2> HIDE DEF P
  <2> QED
    BY <1>1, <1>2, SetInduction
<1> QED
  BY <1>3

LEMMA NextMultiple ==
  ASSUME NEW k \in Nat, NEW j \in Nat
  PROVE  (j + 1) * k = k + j * k /\ j * k \in Nat /\ 0 * k = 0
OBVIOUS

\* pack sums k values at a time.
THEOREM PackValues ==
  ASSUME NEW m \in DecreasingWcets, NEW k \in Nat
  PROVE  /\ Pack(k, m) \in DecreasingWcets
         /\ \A j \in Nat : Value(Pack(k, m), j + 1) = ValSum(k, j * k, m)
<1> DEFINE n == Len(m.wl)
           D == 0..(n + k)
           from[d \in D] ==
             IF d >= n
             THEN MWcet(<<>>, ValSum(k, n, m))
             ELSE Insert(ValSum(k, d, m), from[d + k])
           Stop == {d \in D : d >= n}
           rank == [d \in D |-> n + k - d]
           last == [d \in D |-> ValSum(k, n, m)]
           next == [d \in D \ Stop |-> d + k]
           val == [d \in D \ Stop |-> ValSum(k, d, m)]
<1>1. n \in Nat /\ \A d \in Nat : ValSum(k, d, m) \in Nat
  BY ListLength, ValSumSlides DEF DecreasingWcets
<1>2. CASE k = 0
  <2>1. Pack(k, m) = MWcet(<<>>, 0)
    BY <1>2 DEF Pack
  <2>2. ASSUME NEW j \in Nat PROVE ValSum(k, j * k, m) = 0
    <3>1. /\ Total(m)[0] \in Nat
          /\ ValSum(0, 0, m) \in Nat
          /\ Total(m)[0 + 0] = Total(m)[0] + ValSum(0, 0, m)
      BY TotalDef, ValSumOfTotal DEF DecreasingWcets, IsTotal
    <3>2. j * k = 0 /\ 0 + 0 = 0
      BY <1>2
    <3> QED
      BY <1>2, <3>1, <3>2
  <2>3. \A j \in Nat : j + 1 \in Nat \ {0}
    OBVIOUS
  <2> QED
    BY <2>1, <2>2, <2>3, ValueOfConstant DEF DecreasingWcets
<1>3. CASE k # 0
  <2>1. Pack(k, m) = from[0]
    BY <1>3 DEF Pack
  <2> HIDE DEF n
  <2>2. IsBuilder(D, rank, Stop, last, next, val)
    <3>1. rank \in [D -> Nat]
      BY <1>1
    <3>2. last \in [D -> Nat]
      BY <1>1
    <3>3. next \in [D \ Stop -> D]
      BY <1>1
    <3>4. val \in [D \ Stop -> Nat]
      BY <1>1
    <3>5. \A x \in D \ Stop : rank[next[x]] < rank[x]
      BY <1>1, <1>3
    <3> HIDE DEF D, rank, Stop, last, next, val
    <3> QED
      BY <3>1, <3>2, <3>3, <3>4, <3>5 DEF IsBuilder
  <2>3. PICK f \in [D -> MultiWcets] : Builds(f, D, Stop, last, next, val)
    <3> HIDE DEF D, rank, Stop, last, next, val
    <3> QED
      BY <2>2, BuilderExists
  <2>4. f = [d \in D |-> IF d >= n THEN MWcet(<<>>, ValSum(k, n, m))
                                   ELSE Insert(ValSum(k, d, m), f[d + k])]
    BY <2>3 DEF Builds
  <2>5. from = [d \in D |-> IF d >= n THEN MWcet(<<>>, ValSum(k, n, m))
                                      ELSE Insert(ValSum(k, d, m), from[d + k])]
    BY <2>4
  <2> HIDE DEF from
  <2>6. Builds(from, D, Stop, last, next, val)
    BY <2>5 DEF Builds
  <2>7. \A d \in D : HeadAt(d, Stop, last, val) = ValSum(k, d, m)
    <3> SUFFICES ASSUME NEW d \in D PROVE HeadAt(d, Stop, last, val) = ValSum(k, d, m)
      OBVIOUS
    <3>1. CASE d \in Stop
      <4>1. d - n \in Nat /\ n + (d - n) = d
        BY <1>1, <3>1
      <4>2. ValSum(k, n + (d - n), m) = ValSum(k, n, m)
        <5>1. n >= Len(m.wl)
          BY <1>1 DEF n
        <5> QED
          BY <1>1, <4>1, <5>1, ValSumDecreases
      <4> QED
        BY <3>1, <4>1, <4>2 DEF HeadAt
    <3>2. CASE d \notin Stop
      BY <3>2 DEF HeadAt
    <3> QED
      BY <3>1, <3>2
  <2>8. ASSUME NEW d \in D \ Stop PROVE val[d] >= HeadAt(next[d], Stop, last, val)
    <3>1. d + k \in D /\ next[d] = d + k /\ val[d] = ValSum(k, d, m) /\ d \in Nat
      BY <1>1
    <3>2. ValSum(k, d + k, m) <= ValSum(k, d, m)
      BY <3>1, ValSumDecreases
    <3>3. ValSum(k, d + k, m) \in Nat /\ ValSum(k, d, m) \in Nat
      BY <1>1, <3>1
    <3> HIDE DEF D, Stop, val, next, last
    <3> QED
      BY <2>7, <3>1, <3>2, <3>3
  <2>9. \A d \in D :
          /\ from[d] \in MultiWcets
          /\ IsDecreasing(from[d])
          /\ Value(from[d], 1) = HeadAt(d, Stop, last, val)
          /\ d \in Stop => \A i \in Nat \ {0} : Value(from[d], i) = last[d]
          /\ d \notin Stop => \A i \in Nat \ {0} : Value(from[d], i + 1) = Value(from[next[d]], i)
    <3> HIDE DEF D, rank, Stop, last, next, val
    <3> QED
      BY <2>2, <2>6, <2>8, BuilderInOrder
  <2> DEFINE P == {j \in Nat : \A d \in D : Value(from[d], j + 1) = ValSum(k, d + j * k, m)}
  <2>10. 0 \in P
    <3>1. \A d \in D : d + 0 * k = d
      BY <1>1
    <3>2. 0 + 1 = 1
      OBVIOUS
    <3> HIDE DEF D, Stop, last, val
    <3> QED
      BY <2>7, <2>9, <3>1, <3>2
  <2>11. ASSUME NEW j \in Nat, j \in P PROVE j + 1 \in P
    <3> SUFFICES ASSUME NEW d \in D
                 PROVE  Value(from[d], (j + 1) + 1) = ValSum(k, d + (j + 1) * k, m)
      OBVIOUS
    <3>1. (j + 1) * k = k + j * k /\ j * k \in Nat /\ (j + 1) * k \in Nat /\ d \in Nat
      BY <1>1, NextMultiple
    <3>2. CASE d \in Stop
      <4>1. (j + 1) + 1 \in Nat \ {0} /\ last[d] = ValSum(k, n, m)
        OBVIOUS
      <4>2. Value(from[d], (j + 1) + 1) = ValSum(k, n, m)
        <5> HIDE DEF D, Stop, last, val
        <5> QED
          BY <2>9, <3>2, <4>1, Zenon
      <4>3. ValSum(k, d, m) = ValSum(k, n, m)
        BY <2>7, <3>2 DEF HeadAt
      <4>4. ValSum(k, d + (j + 1) * k, m) = ValSum(k, d, m)
        BY <3>1, <3>2, ValSumDecreases DEF n
      <4> QED
        BY <4>2, <4>3, <4>4
    <3>3. CASE d \notin Stop
      <4>1. d + k \in D /\ next[d] = d + k /\ j + 1 \in Nat \ {0}
        BY <1>1, <3>3
      <4>2. Value(from[d + k], j + 1) = ValSum(k, (d + k) + j * k, m)
        <5>1. \A c \in D : Value(from[c], j + 1) = ValSum(k, c + j * k, m)
          BY <2>11
        <5> HIDE DEF D, Stop, next, last, val, from
        <5> QED
          BY <4>1, <5>1
      <4>3. Value(from[d], (j + 1) + 1) = Value(from[d + k], j + 1)
        <5> HIDE DEF D, Stop, last, next, val
        <5> QED
          BY <2>9, <3>3, <4>1, Zenon
      <4>4. (d + k) + j * k = d + (j + 1) * k
        BY <3>1
      <4> QED
        BY <4>2, <4>3, <4>4
    <3> QED
      BY <3>2, <3>3
  <2>12. Nat \subseteq P
    <3> HIDE DEF P
    <3> QED
      BY <2>10, <2>11, SetInduction
  <2>13. ASSUME NEW j \in Nat PROVE Value(from[0], j + 1) = ValSum(k, j * k, m)
    <3>1. 0 \in D /\ 0 + j * k = j * k
      BY <1>1
    <3>2. Value(from[0], j + 1) = ValSum(k, 0 + j * k, m)
      BY <2>12, <3>1
    <3> QED
      BY <3>1, <3>2
  <2>14. 0 \in D
    BY <1>1
  <2> QED
    BY <2>1, <2>9, <2>13, <2>14 DEF DecreasingWcets
<1> QED
  BY <1>2, <1>3

-----------------------------------------------------------------------------
(* Sums of the first values                                                *)

LEMMA TotalStep ==
  ASSUME NEW m \in MultiWcets, NEW k \in Nat
  PROVE  /\ Total(m)[k] \in Nat
         /\ Total(m)[0] = 0
         /\ Total(m)[k + 1] = Total(m)[k] + Value(m, k + 1)
BY TotalDef DEF IsTotal

\* When r is s with one value more in front of it, so are their sums.
LEMMA TotalOfFront ==
  ASSUME NEW r \in MultiWcets, NEW s \in MultiWcets,
         \A i \in Nat \ {0} : Value(r, i + 1) = Value(s, i), NEW k \in Nat
  PROVE  Total(r)[k + 1] = Value(r, 1) + Total(s)[k]
<1> DEFINE P == {j \in Nat : Total(r)[j + 1] = Value(r, 1) + Total(s)[j]}
<1>1. 0 \in P
  <2>1. Total(r)[0 + 1] = Total(r)[0] + Value(r, 0 + 1)
    BY TotalStep, Zenon
  <2>2. Total(r)[0] = 0 /\ Total(s)[0] = 0
    BY TotalStep
  <2>3. 0 + 1 = 1 /\ Value(r, 1) \in Nat
    BY ValueType
  <2> QED
    BY <2>1, <2>2, <2>3
<1>2. ASSUME NEW j \in Nat, j \in P PROVE j + 1 \in P
  <2>1. Total(r)[(j + 1) + 1] = Total(r)[j + 1] + Value(r, (j + 1) + 1)
    <3>1. j + 1 \in Nat
      OBVIOUS
    <3> QED
      BY <3>1, TotalStep, Zenon
  <2>2. Total(s)[j + 1] = Total(s)[j] + Value(s, j + 1) /\ Total(s)[j] \in Nat
    BY TotalStep
  <2>3. Value(r, (j + 1) + 1) = Value(s, j + 1) /\ j + 1 \in Nat \ {0}
    <3>1. j + 1 \in Nat \ {0}
      OBVIOUS
    <3> QED
      BY <3>1, Zenon
  <2>4. Value(r, 1) \in Nat /\ Value(s, j + 1) \in Nat
    BY ValueType
  <2>5. Total(r)[j + 1] = Value(r, 1) + Total(s)[j]
    BY <1>2
  <2>6. Total(r)[(j + 1) + 1] = Value(r, 1) + Total(s)[j + 1]
    BY <2>1, <2>2, <2>3, <2>4, <2>5
  <2> QED
    BY <2>6
<1>3. Nat \subseteq P
  <2> HIDE DEF P
  <2> QED
    BY <1>1, <1>2, SetInduction
<1> QED
  BY <1>3

\* k of one and l - k of the other, shared out in the worst way, make h[l].
IsWorstSplit(h, f, g, l) ==
  /\ \A s \in 0..l : f[s] + g[l - s] <= h[l]
  /\ \E s \in 0..l : f[s] + g[l - s] = h[l]

LEMMA SplitCommutes ==
  ASSUME NEW h, NEW l \in Nat, NEW f, NEW g,
         \A s \in 0..l : f[s] \in Nat /\ g[s] \in Nat,
         IsWorstSplit(h, f, g, l)
  PROVE  IsWorstSplit(h, g, f, l)
<1>1. ASSUME NEW s \in 0..l PROVE g[s] + f[l - s] <= h[l]
  <2>1. l - s \in 0..l /\ l - (l - s) = s
    OBVIOUS
  <2>2. f[l - s] + g[l - (l - s)] <= h[l]
    BY <2>1 DEF IsWorstSplit
  <2>3. f[l - s] \in Nat /\ g[s] \in Nat
    BY <2>1
  <2> QED
    BY <2>1, <2>2, <2>3
<1>2. PICK s \in 0..l : f[s] + g[l - s] = h[l]
  BY DEF IsWorstSplit
<1>3. l - s \in 0..l /\ l - (l - s) = s
  OBVIOUS
<1>4. f[s] \in Nat /\ g[l - s] \in Nat
  BY <1>3
<1>5. g[l - s] + f[l - (l - s)] = h[l]
  BY <1>2, <1>3, <1>4
<1> QED
  BY <1>1, <1>3, <1>5 DEF IsWorstSplit

\* f and h put v in front of f1 and h1, and g does not grow faster than v.
TakesGreater(v, f, f1, g, h, h1, l) ==
  /\ v \in Nat
  /\ \A s \in Nat : f[s] \in Nat /\ f1[s] \in Nat /\ g[s] \in Nat
  /\ h1[l] \in Nat /\ f[0] = 0 /\ f1[0] = 0
  /\ \A s \in Nat : f[s + 1] = v + f1[s]
  /\ g[l + 1] <= v + g[l]
  /\ h[l + 1] = v + h1[l]

\* Taking the greater of the two first values keeps the worst split.
LEMMA SplitStep ==
  ASSUME NEW l \in Nat, NEW v, NEW f, NEW f1, NEW g, NEW h, NEW h1,
         TakesGreater(v, f, f1, g, h, h1, l),
         IsWorstSplit(h1, f1, g, l)
  PROVE  IsWorstSplit(h, f, g, l + 1)
<1> USE DEF TakesGreater
<1>1. ASSUME NEW s \in 0..(l + 1) PROVE f[s] + g[(l + 1) - s] <= h[l + 1]
  <2>1. CASE s = 0
    <3>1. f1[0] + g[l - 0] <= h1[l]
      BY DEF IsWorstSplit
    <3>2. l - 0 = l /\ (l + 1) - 0 = l + 1 /\ g[l] \in Nat /\ g[l + 1] \in Nat
      OBVIOUS
    <3>3. f[s] + g[(l + 1) - s] = g[l + 1]
      BY <2>1, <3>2
    <3> QED
      BY <3>1, <3>2, <3>3
  <2>2. CASE s # 0
    <3>1. s - 1 \in 0..l /\ (s - 1) + 1 = s /\ l - (s - 1) = (l + 1) - s /\ (l + 1) - s \in Nat
      BY <2>2
    <3>2. f1[s - 1] + g[l - (s - 1)] <= h1[l]
      BY <3>1 DEF IsWorstSplit
    <3>3. f[(s - 1) + 1] = v + f1[s - 1] /\ f1[s - 1] \in Nat /\ g[(l + 1) - s] \in Nat
      BY <3>1
    <3> QED
      BY <3>1, <3>2, <3>3
  <2> QED
    BY <2>1, <2>2
<1>2. PICK s \in 0..l : f1[s] + g[l - s] = h1[l]
  BY DEF IsWorstSplit
<1>3. s + 1 \in 0..(l + 1) /\ (l + 1) - (s + 1) = l - s /\ l - s \in Nat
  OBVIOUS
<1>4. f[s + 1] + g[(l + 1) - (s + 1)] = h[l + 1]
  <2>1. f[s + 1] = v + f1[s] /\ f1[s] \in Nat /\ g[l - s] \in Nat
    BY <1>3
  <2> QED
    BY <1>2, <1>3, <2>1
<1> QED
  BY <1>1, <1>3, <1>4 DEF IsWorstSplit

\* The sums of the values of m from position i on.
SumsFrom(m, i) == [s \in Nat |-> ValSum(s, i - 1, m)]
\* The position behind i, the list of m being followed by its last value.
Behind(m, i) == IF i = Len(m.wl) + 1 THEN i ELSE i + 1

LEMMA SumsFromStep ==
  ASSUME NEW m \in DecreasingWcets, NEW i \in 1..(Len(m.wl) + 1)
  PROVE  /\ Behind(m, i) \in 1..(Len(m.wl) + 1)
         /\ SumsFrom(m, i)[0] = 0
         /\ \A s \in Nat : /\ SumsFrom(m, i)[s] \in Nat
                           /\ SumsFrom(m, i)[s + 1] = Value(m, i) + SumsFrom(m, Behind(m, i))[s]
                           /\ SumsFrom(m, i)[s + 1] <= Value(m, i) + SumsFrom(m, i)[s]
<1> DEFINE n == Len(m.wl)
           d == i - 1
           T == Total(m)
<1>1. m \in MultiWcets /\ n \in Nat /\ d \in Nat /\ d + 1 = i
  BY ListLength DEF DecreasingWcets
<1> HIDE DEF d
<1>2. ASSUME NEW s \in Nat
      PROVE  /\ ValSum(s, d, m) \in Nat
             /\ ValSum(s, d + 1, m) \in Nat
             /\ ValSum(s + 1, d, m) = Value(m, d + 1) + ValSum(s, d + 1, m)
             /\ ValSum(s + 1, d, m) <= Value(m, d + 1) + ValSum(s, d, m)
  <2>1. d + 1 \in Nat /\ s + 1 \in Nat /\ d + (s + 1) = (d + 1) + s
    BY <1>1
  <2>2. ValSum(s, d, m) \in Nat /\ ValSum(s, d + 1, m) <= ValSum(s, d, m)
    BY <1>1, ValSumSlides
  <2>3. /\ ValSum(s, d + 1, m) \in Nat
        /\ T[(d + 1) + s] = T[d + 1] + ValSum(s, d + 1, m)
    BY <1>1, <2>1, ValSumOfTotal
  <2>4. /\ ValSum(s + 1, d, m) \in Nat
        /\ T[d + (s + 1)] = T[d] + ValSum(s + 1, d, m)
    BY <1>1, <2>1, ValSumOfTotal
  <2>5. T[d + 1] = T[d] + Value(m, d + 1) /\ T[d] \in Nat
    BY <1>1, TotalStep
  <2>6. Value(m, d + 1) \in Nat
    BY <1>1, ValueType
  <2> HIDE DEF T
  <2>7. ValSum(s + 1, d, m) = Value(m, d + 1) + ValSum(s, d + 1, m)
    <3>1. T[d + (s + 1)] = T[(d + 1) + s]
      BY <2>1
    <3>2. T[d] + ValSum(s + 1, d, m) = T[d + 1] + ValSum(s, d + 1, m)
      BY <2>3, <2>4, <3>1
    <3> QED
      BY <2>3, <2>4, <2>5, <2>6, <3>2, SMTT(30)
  <2> QED
    BY <2>2, <2>3, <2>6, <2>7
<1>3. ASSUME NEW s \in Nat PROVE SumsFrom(m, Behind(m, i))[s] = ValSum(s, d + 1, m)
  <2>1. CASE i = n + 1
    <3>1. Behind(m, i) = i /\ d >= Len(m.wl)
      BY <1>1, <2>1 DEF Behind
    <3>2. ValSum(s, d + 1, m) = ValSum(s, d, m)
      BY <1>1, <3>1, ValSumSlides
    <3> QED
      BY <3>1, <3>2 DEF SumsFrom, d
  <2>2. CASE i # n + 1
    <3>1. Behind(m, i) = i + 1 /\ (i + 1) - 1 = d + 1
      BY <1>1, <2>2 DEF Behind
    <3> QED
      BY <3>1 DEF SumsFrom
  <2> QED
    BY <2>1, <2>2
<1>4. SumsFrom(m, i) = [s \in Nat |-> ValSum(s, d, m)]
  BY DEF SumsFrom, d
<1>5. ValSum(0, d, m) = 0
  <2>1. /\ ValSum(0, d, m) \in Nat
        /\ T[d + 0] = T[d] + ValSum(0, d, m)
    BY <1>1, ValSumOfTotal
  <2>2. d + 0 = d /\ T[d] \in Nat
    BY <1>1, TotalStep
  <2> HIDE DEF T
  <2> QED
    BY <2>1, <2>2
<1>6. Behind(m, i) \in 1..(n + 1)
  BY <1>1 DEF Behind
<1>7. ASSUME NEW s \in Nat
      PROVE  /\ SumsFrom(m, i)[s] \in Nat
             /\ SumsFrom(m, i)[s + 1] = Value(m, i) + SumsFrom(m, Behind(m, i))[s]
             /\ SumsFrom(m, i)[s + 1] <= Value(m, i) + SumsFrom(m, i)[s]
  <2>1. SumsFrom(m, i)[s] = ValSum(s, d, m) /\ SumsFrom(m, i)[s + 1] = ValSum(s + 1, d, m)
    BY <1>4
  <2> QED
    BY <1>1, <1>2, <1>3, <2>1
<1> QED
  BY <1>4, <1>5, <1>6, <1>7

\* union makes a list out of the values of both, the greater ones first.
\* Any k of its values are the worst way to take k values from the two.
THEOREM UnionValues ==
  ASSUME NEW a \in DecreasingWcets, NEW b \in DecreasingWcets
  PROVE  /\ UnionMWcet(a, b) \in DecreasingWcets
         /\ \A l \in Nat : IsWorstSplit(Total(UnionMWcet(a, b)), Total(a), Total(b), l)
<1> DEFINE aEnd == Len(a.wl) + 1
           bEnd == Len(b.wl) + 1
           D == (1..aEnd) \X (1..bEnd)
           from[p \in D] ==
             LET i == p[1]
                 j == p[2]
             IN  IF i = aEnd /\ j = bEnd
                 THEN MWcet(<<>>, IF a.last >= b.last THEN a.last ELSE b.last)
                 ELSE IF i = aEnd
                 THEN IF a.last >= b.wl[j] THEN MWcet(<<>>, a.last)
                                           ELSE Insert(b.wl[j], from[<<i, j + 1>>])
                 ELSE IF j = bEnd
                 THEN IF b.last >= a.wl[i] THEN MWcet(<<>>, b.last)
                                           ELSE Insert(a.wl[i], from[<<i + 1, j>>])
                 ELSE IF a.wl[i] >= b.wl[j] THEN Insert(a.wl[i], from[<<i + 1, j>>])
                                            ELSE Insert(b.wl[j], from[<<i, j + 1>>])
           va(p) == Value(a, p[1])
           vb(p) == Value(b, p[2])
           greater(p) == IF va(p) >= vb(p) THEN va(p) ELSE vb(p)
           Stop == {p \in D : \/ p[1] = aEnd /\ p[2] = bEnd
                              \/ p[1] = aEnd /\ va(p) >= vb(p)
                              \/ p[2] = bEnd /\ vb(p) >= va(p)}
           FromA(p) == p[1] # aEnd /\ va(p) >= vb(p)
           rank == [p \in D |-> (aEnd - p[1]) + (bEnd - p[2])]
           last == [p \in D |-> greater(p)]
           next == [p \in D \ Stop |-> IF FromA(p) THEN <<p[1] + 1, p[2]>> ELSE <<p[1], p[2] + 1>>]
           val == [p \in D \ Stop |-> greater(p)]
<1>1. a \in MultiWcets /\ IsDecreasing(a) /\ b \in MultiWcets /\ IsDecreasing(b)
  BY DEF DecreasingWcets
<1>2. /\ aEnd \in Nat \ {0} /\ bEnd \in Nat \ {0}
      /\ Value(a, aEnd) = a.last /\ Value(b, bEnd) = b.last
      /\ \A i \in 1..aEnd : i # aEnd => Value(a, i) = a.wl[i]
      /\ \A j \in 1..bEnd : j # bEnd => Value(b, j) = b.wl[j]
  <2>1. Len(a.wl) \in Nat /\ Len(b.wl) \in Nat
    BY <1>1, ListLength
  <2> QED
    BY <2>1 DEF Value
<1>3. \A p \in D : va(p) \in Nat /\ vb(p) \in Nat /\ greater(p) \in Nat
  BY <1>1, <1>2, ValueType
<1>4. UnionMWcet(a, b) = from[<<1, 1>>]
  BY DEF UnionMWcet
<1> HIDE DEF aEnd, bEnd
<1>5. ASSUME NEW p \in D
      PROVE  /\ p[1] \in 1..aEnd /\ p[2] \in 1..bEnd
             /\ p[1] # aEnd => <<p[1] + 1, p[2]>> \in D
             /\ p[2] # bEnd => <<p[1], p[2] + 1>> \in D
  BY <1>2
<1>6. ASSUME NEW p \in D \ Stop
      PROVE  /\ FromA(p) => p[1] # aEnd /\ next[p] = <<p[1] + 1, p[2]>>
             /\ ~FromA(p) => p[2] # bEnd /\ next[p] = <<p[1], p[2] + 1>>
             /\ next[p] \in D
             /\ rank[next[p]] < rank[p]
  <2>1. ~FromA(p) => p[2] # bEnd
    BY <1>3
  <2>2. p[1] \in 1..aEnd /\ p[2] \in 1..bEnd
    BY <1>5
  <2>3. next[p] \in D
    BY <1>5, <2>1
  <2>4. \A q \in D : rank[q] = (aEnd - q[1]) + (bEnd - q[2])
    OBVIOUS
  <2>5. CASE FromA(p)
    <3>1. next[p] = <<p[1] + 1, p[2]>> /\ next[p][1] = p[1] + 1 /\ next[p][2] = p[2]
      BY <2>5
    <3> HIDE DEF rank, next
    <3> QED
      BY <1>2, <2>2, <2>3, <2>4, <2>5, <3>1
  <2>6. CASE ~FromA(p)
    <3>1. next[p] = <<p[1], p[2] + 1>> /\ next[p][1] = p[1] /\ next[p][2] = p[2] + 1
      BY <2>6
    <3> HIDE DEF rank, next
    <3> QED
      BY <1>2, <2>1, <2>2, <2>3, <2>4, <2>6, <3>1
  <2> QED
    BY <2>5, <2>6
<1>7. IsBuilder(D, rank, Stop, last, next, val)
  <2>1. rank \in [D -> Nat]
    BY <1>2
  <2>2. last \in [D -> Nat] /\ val \in [D \ Stop -> Nat]
    BY <1>3
  <2>3. next \in [D \ Stop -> D]
    <3>1. next = [p \in D \ Stop |-> next[p]]
      OBVIOUS
    <3> HIDE DEF D, Stop, next
    <3> QED
      BY <1>6, <3>1
  <2> HIDE DEF D, rank, Stop, last, next, val
  <2> QED
    BY <1>6, <2>1, <2>2, <2>3 DEF IsBuilder
<1> HIDE DEF from
<1>8. from = [p \in D |-> IF p \in Stop THEN MWcet(<<>>, last[p]) ELSE Insert(val[p], from[next[p]])]
  <2> DEFINE F(g) == [p \in D |->
             LET i == p[1]
                 j == p[2]
             IN  IF i = aEnd /\ j = bEnd
                 THEN MWcet(<<>>, IF a.last >= b.last THEN a.last ELSE b.last)
                 ELSE IF i = aEnd
                 THEN IF a.last >= b.wl[j] THEN MWcet(<<>>, a.last)
                                           ELSE Insert(b.wl[j], g[<<i, j + 1>>])
                 ELSE IF j = bEnd
                 THEN IF b.last >= a.wl[i] THEN MWcet(<<>>, b.last)
                                           ELSE Insert(a.wl[i], g[<<i + 1, j>>])
                 ELSE IF a.wl[i] >= b.wl[j] THEN Insert(a.wl[i], g[<<i + 1, j>>])
                                            ELSE Insert(b.wl[j], g[<<i, j + 1>>])]
         B(g) == [p \in D |-> IF p \in Stop THEN MWcet(<<>>, last[p]) ELSE Insert(val[p], g[next[p]])]
  <2>1. ASSUME NEW g, NEW p \in D PROVE F(g)[p] = B(g)[p]
    <3> DEFINE i == p[1]
               j == p[2]
    <3>1. i \in 1..aEnd /\ j \in 1..bEnd
      BY <1>5
    <3>2. /\ i = aEnd => va(p) = a.last
          /\ i # aEnd => va(p) = a.wl[i]
          /\ j = bEnd => vb(p) = b.last
          /\ j # bEnd => vb(p) = b.wl[j]
          /\ va(p) \in Nat /\ vb(p) \in Nat
      BY <1>2, <1>3, <3>1
    <3>3. CASE p \in Stop
      <4>1. B(g)[p] = MWcet(<<>>, greater(p))
        BY <3>3
      <4>2. CASE i = aEnd /\ j = bEnd
        BY <3>2, <4>1, <4>2
      <4>3. CASE i = aEnd /\ j # bEnd
        <5>1. a.last >= b.wl[j] /\ greater(p) = a.last
          BY <3>2, <3>3, <4>3
        <5> QED
          BY <4>1, <4>3, <5>1
      <4>4. CASE i # aEnd
        <5>1. j = bEnd /\ b.last >= a.wl[i] /\ greater(p) = b.last
          BY <3>2, <3>3, <4>4
        <5> QED
          BY <4>1, <4>4, <5>1
      <4> QED
        BY <4>2, <4>3, <4>4
    <3>4. CASE p \notin Stop
      <4>1. B(g)[p] = Insert(greater(p), g[next[p]])
        BY <3>4
      <4>2. CASE FromA(p)
        <5>1. i # aEnd /\ greater(p) = a.wl[i] /\ next[p] = <<i + 1, j>>
          BY <1>6, <3>2, <3>4, <4>2
        <5>2. j = bEnd => ~(b.last >= a.wl[i])
          BY <3>2, <3>4, <5>1
        <5>3. j # bEnd => a.wl[i] >= b.wl[j]
          BY <3>2, <4>2
        <5>4. B(g)[p] = Insert(a.wl[i], g[<<i + 1, j>>])
          BY <4>1, <5>1
        <5> QED
          BY <5>1, <5>2, <5>3, <5>4
      <4>3. CASE ~FromA(p)
        <5>1. j # bEnd /\ next[p] = <<i, j + 1>>
          BY <1>6, <3>4, <4>3
        <5>2. vb(p) = b.wl[j] /\ greater(p) = b.wl[j]
          BY <3>2, <3>4, <4>3, <5>1
        <5>3. i = aEnd => ~(a.last >= b.wl[j])
          BY <3>2, <3>4, <5>1
        <5>4. i # aEnd => ~(a.wl[i] >= b.wl[j])
          BY <3>2, <4>3, <5>2
        <5>5. B(g)[p] = Insert(b.wl[j], g[<<i, j + 1>>])
          BY <4>1, <5>1, <5>2
        <5> QED
          BY <5>1, <5>3, <5>4, <5>5
      <4> QED
        BY <4>2, <4>3
    <3> QED
      BY <3>3, <3>4
  <2>2. \A g : F(g) = B(g)
    <3>1. \A g : F(g) = [p \in D |-> F(g)[p]] /\ B(g) = [p \in D |-> B(g)[p]]
      OBVIOUS
    <3> HIDE DEF F, B, D
    <3> QED
      BY <2>1, <3>1
  <2>3. PICK f \in [D -> MultiWcets] : Builds(f, D, Stop, last, next, val)
    <3> HIDE DEF D, rank, Stop, last, next, val
    <3> QED
      BY <1>7, BuilderExists
  <2>4. f = B(f)
    <3> HIDE DEF D, Stop, last, next, val
    <3> QED
      BY <2>3 DEF Builds
  <2>5. f = F(f)
    <3> HIDE DEF F, B
    <3> QED
      BY <2>2, <2>4
  <2>6. from = F(from)
    <3>1. \E g : g = F(g)
      BY <2>5
    <3> HIDE DEF D
    <3> QED
      BY <3>1 DEF from
  <2> QED
    <3>1. from = B(from)
      <4> HIDE DEF F, B
      <4> QED
        BY <2>2, <2>6
    <3> QED
      BY <3>1
<1>9. Builds(from, D, Stop, last, next, val)
  <2> HIDE DEF D, Stop, last, next, val
  <2> QED
    BY <1>8 DEF Builds
<1>10. \A p \in D : HeadAt(p, Stop, last, val) = greater(p)
  <2> HIDE DEF greater
  <2> QED
    BY DEF HeadAt
<1>11. ASSUME NEW p \in D \ Stop PROVE val[p] >= HeadAt(next[p], Stop, last, val)
  <2>1. next[p] \in D /\ HeadAt(next[p], Stop, last, val) = greater(next[p]) /\ val[p] = greater(p)
    BY <1>6, <1>10
  <2>2. p[1] \in Nat \ {0} /\ p[2] \in Nat \ {0}
    BY <1>2, <1>5
  <2>3. Value(a, p[1] + 1) <= Value(a, p[1]) /\ Value(b, p[2] + 1) <= Value(b, p[2])
    BY <1>1, <2>2 DEF IsDecreasing
  <2>4. Value(a, p[1] + 1) \in Nat /\ Value(b, p[2] + 1) \in Nat
    BY <1>1, <2>2, ValueType
  <2>5. greater(next[p]) <= greater(p)
    <3>1. CASE FromA(p)
      <4>1. va(next[p]) = Value(a, p[1] + 1) /\ vb(next[p]) = vb(p)
        BY <1>6, <3>1
      <4> QED
        BY <1>3, <2>3, <2>4, <4>1
    <3>2. CASE ~FromA(p)
      <4>1. va(next[p]) = va(p) /\ vb(next[p]) = Value(b, p[2] + 1)
        BY <1>6, <3>2
      <4> QED
        BY <1>3, <2>3, <2>4, <4>1
    <3> QED
      BY <3>1, <3>2
  <2>6. greater(p) \in Nat /\ greater(next[p]) \in Nat
    BY <1>3, <2>1
  <2> HIDE DEF greater, val, next, Stop, last
  <2> QED
    BY <2>1, <2>5, <2>6
<1>12. \A p \in D :
        /\ from[p] \in MultiWcets
        /\ IsDecreasing(from[p])
        /\ Value(from[p], 1) = HeadAt(p, Stop, last, val)
        /\ p \in Stop => \A i \in Nat \ {0} : Value(from[p], i) = last[p]
        /\ p \notin Stop => \A i \in Nat \ {0} : Value(from[p], i + 1) = Value(from[next[p]], i)
  <2> HIDE DEF D, rank, Stop, last, next, val
  <2> QED
    BY <1>7, <1>9, <1>11, BuilderInOrder
<1> DEFINE afterA(p) == <<Behind(a, p[1]), p[2]>>
           afterB(p) == <<p[1], Behind(b, p[2])>>
           T(p) == Total(from[p])
<1>13. ASSUME NEW p \in D
       PROVE  \/ /\ va(p) >= vb(p) /\ afterA(p) \in D
                 /\ \A k \in Nat : T(p)[k + 1] = va(p) + T(afterA(p))[k]
              \/ /\ vb(p) >= va(p) /\ afterB(p) \in D
                 /\ \A k \in Nat : T(p)[k + 1] = vb(p) + T(afterB(p))[k]
  <2>1. /\ from[p] \in MultiWcets
        /\ Value(from[p], 1) = greater(p)
    BY <1>10, <1>12
  <2>2. p = <<p[1], p[2]>> /\ p[1] \in 1..aEnd /\ p[2] \in 1..bEnd
    BY <1>5
  <2>3. CASE p \in Stop
    <3>1. \A i \in Nat \ {0} : Value(from[p], i + 1) = Value(from[p], i)
      <4>1. \A i \in Nat \ {0} : i + 1 \in Nat \ {0}
        OBVIOUS
      <4> HIDE DEF D, Stop, last, val, next
      <4> QED
        BY <1>12, <2>3, <4>1
    <3>2. \A k \in Nat : T(p)[k + 1] = greater(p) + T(p)[k]
      BY <2>1, <3>1, TotalOfFront
    <3>3. CASE p[1] = aEnd /\ va(p) >= vb(p)
      <4>1. afterA(p) = p /\ greater(p) = va(p)
        BY <2>2, <3>3 DEF Behind, aEnd
      <4> HIDE DEF afterA, greater
      <4> QED
        BY <3>2, <3>3, <4>1
    <3>4. CASE p[2] = bEnd /\ vb(p) >= va(p)
      <4>1. afterB(p) = p /\ greater(p) = vb(p)
        BY <1>3, <2>2, <3>4 DEF Behind, bEnd
      <4> HIDE DEF afterB, greater
      <4> QED
        BY <3>2, <3>4, <4>1
    <3> QED
      BY <1>3, <2>3, <3>3, <3>4
  <2>4. CASE p \notin Stop
    <3>1. next[p] \in D /\ from[next[p]] \in MultiWcets
      BY <1>6, <1>12, <2>4
    <3>2. \A i \in Nat \ {0} : Value(from[p], i + 1) = Value(from[next[p]], i)
      <4> HIDE DEF D, Stop, last, val, next
      <4> QED
        BY <1>12, <2>4
    <3>3. \A k \in Nat : T(p)[k + 1] = greater(p) + T(next[p])[k]
      <4> HIDE DEF next
      <4> QED
        BY <2>1, <3>1, <3>2, TotalOfFront
    <3>4. CASE FromA(p)
      <4>1. p[1] # aEnd /\ next[p] = <<p[1] + 1, p[2]>>
        BY <1>6, <2>4, <3>4
      <4>2. afterA(p) = next[p]
        <5>1. Behind(a, p[1]) = p[1] + 1
          BY <4>1 DEF Behind, aEnd
        <5> QED
          BY <4>1, <5>1
      <4>3. greater(p) = va(p) /\ va(p) >= vb(p)
        BY <3>4
      <4> HIDE DEF afterA, greater, next, D
      <4> QED
        BY <3>1, <3>3, <4>2, <4>3
    <3>5. CASE ~FromA(p)
      <4>1. p[2] # bEnd /\ next[p] = <<p[1], p[2] + 1>>
        BY <1>6, <2>4, <3>5
      <4>2. afterB(p) = next[p]
        <5>1. Behind(b, p[2]) = p[2] + 1
          BY <4>1 DEF Behind, bEnd
        <5> QED
          BY <4>1, <5>1
      <4>3. greater(p) = vb(p) /\ vb(p) >= va(p)
        BY <1>3, <2>4, <3>5
      <4> HIDE DEF afterB, greater, next, D
      <4> QED
        BY <3>1, <3>3, <4>2, <4>3
    <3> QED
      BY <3>4, <3>5
  <2> QED
    BY <2>3, <2>4
<1> DEFINE fa(p) == SumsFrom(a, p[1])
           fb(p) == SumsFrom(b, p[2])
<1>14. ASSUME NEW p \in D
       PROVE  /\ \A k \in Nat : T(p)[k] \in Nat
              /\ T(p)[0] = 0
              /\ fa(p)[0] = 0 /\ fb(p)[0] = 0
              /\ \A s \in Nat : /\ fa(p)[s] \in Nat /\ fb(p)[s] \in Nat
                                /\ fa(p)[s + 1] = va(p) + fa(afterA(p))[s]
                                /\ fb(p)[s + 1] = vb(p) + fb(afterB(p))[s]
                                /\ fa(p)[s + 1] <= va(p) + fa(p)[s]
                                /\ fb(p)[s + 1] <= vb(p) + fb(p)[s]
  <2>1. \A k \in Nat : T(p)[k] \in Nat /\ T(p)[0] = 0
    BY <1>12, TotalStep
  <2>2. p[1] \in 1..(Len(a.wl) + 1) /\ p[2] \in 1..(Len(b.wl) + 1)
    BY <1>5 DEF aEnd, bEnd
  <2>3. fa(afterA(p)) = SumsFrom(a, Behind(a, p[1])) /\ fb(afterB(p)) = SumsFrom(b, Behind(b, p[2]))
    OBVIOUS
  <2> HIDE DEF afterA, afterB, D, T, from
  <2>4. fa(p)[0] = 0 /\ \A s \in Nat : /\ fa(p)[s] \in Nat
                                      /\ fa(p)[s + 1] = va(p) + fa(afterA(p))[s]
                                      /\ fa(p)[s + 1] <= va(p) + fa(p)[s]
    <3>1. fa(p) = SumsFrom(a, p[1]) /\ va(p) = Value(a, p[1])
      OBVIOUS
    <3>2. /\ SumsFrom(a, p[1])[0] = 0
          /\ \A s \in Nat :
               /\ SumsFrom(a, p[1])[s] \in Nat
               /\ SumsFrom(a, p[1])[s + 1] = Value(a, p[1]) + SumsFrom(a, Behind(a, p[1]))[s]
               /\ SumsFrom(a, p[1])[s + 1] <= Value(a, p[1]) + SumsFrom(a, p[1])[s]
      <4> DEFINE i == p[1]
      <4>1. i \in 1..(Len(a.wl) + 1)
        BY <2>2
      <4> HIDE DEF i
      <4> QED
        BY <4>1, SumsFromStep, Zenon DEF i
    <3> HIDE DEF fa, va
    <3> QED
      BY <2>3, <3>1, <3>2
  <2>5. fb(p)[0] = 0 /\ \A s \in Nat : /\ fb(p)[s] \in Nat
                                      /\ fb(p)[s + 1] = vb(p) + fb(afterB(p))[s]
                                      /\ fb(p)[s + 1] <= vb(p) + fb(p)[s]
    <3>1. fb(p) = SumsFrom(b, p[2]) /\ vb(p) = Value(b, p[2])
      OBVIOUS
    <3>2. /\ SumsFrom(b, p[2])[0] = 0
          /\ \A s \in Nat :
               /\ SumsFrom(b, p[2])[s] \in Nat
               /\ SumsFrom(b, p[2])[s + 1] = Value(b, p[2]) + SumsFrom(b, Behind(b, p[2]))[s]
               /\ SumsFrom(b, p[2])[s + 1] <= Value(b, p[2]) + SumsFrom(b, p[2])[s]
      <4> DEFINE i == p[2]
      <4>1. i \in 1..(Len(b.wl) + 1)
        BY <2>2
      <4> HIDE DEF i
      <4> QED
        BY <4>1, SumsFromStep, Zenon DEF i
    <3> HIDE DEF fb, vb
    <3> QED
      BY <2>3, <3>1, <3>2
  <2> HIDE DEF fa, fb, va, vb
  <2> QED
    BY <2>1, <2>4, <2>5
<1> DEFINE P == {l \in Nat : \A p \in D : IsWorstSplit(T(p), fa(p), fb(p), l)}
<1>15. 0 \in P
  <2> SUFFICES ASSUME NEW p \in D PROVE IsWorstSplit(T(p), fa(p), fb(p), 0)
    OBVIOUS
  <2>1. T(p)[0] = 0 /\ fa(p)[0] = 0 /\ fb(p)[0] = 0
    BY <1>14
  <2> HIDE DEF T, fa, fb
  <2>2. fa(p)[0] + fb(p)[0 - 0] = T(p)[0] /\ T(p)[0] \in Nat
    <3>1. 0 - 0 = 0 /\ 0 + 0 = 0
      OBVIOUS
    <3> QED
      BY <2>1, <3>1
  <2>3. \A s \in 0..0 : s = 0
    OBVIOUS
  <2>4. 0 \in 0..0 /\ \A x \in Nat : x <= x
    OBVIOUS
  <2> QED
    BY <2>2, <2>3, <2>4 DEF IsWorstSplit
<1>16. ASSUME NEW l \in Nat, l \in P PROVE l + 1 \in P
  <2> SUFFICES ASSUME NEW p \in D PROVE IsWorstSplit(T(p), fa(p), fb(p), l + 1)
    OBVIOUS
  <2>1. CASE /\ va(p) >= vb(p) /\ afterA(p) \in D
             /\ \A k \in Nat : T(p)[k + 1] = va(p) + T(afterA(p))[k]
    <3> DEFINE q == afterA(p)
    <3>1. q \in D /\ fb(q) = fb(p)
      BY <2>1
    <3> HIDE DEF q
    <3>2. IsWorstSplit(T(q), fa(q), fb(p), l)
      BY <1>16, <3>1
    <3>3. fb(p)[l + 1] <= va(p) + fb(p)[l]
      <4>1. fb(p)[l + 1] <= vb(p) + fb(p)[l] /\ fb(p)[l] \in Nat /\ fb(p)[l + 1] \in Nat
        <5>1. l + 1 \in Nat
          OBVIOUS
        <5> HIDE DEF fa, fb, T, afterA, afterB, D, va, vb
        <5> QED
          BY <1>14, <5>1
      <4>2. va(p) \in Nat /\ vb(p) \in Nat /\ va(p) >= vb(p)
        BY <1>3, <2>1
      <4> HIDE DEF fb, va, vb
      <4> QED
        BY <4>1, <4>2
    <3>4. T(p)[l + 1] = va(p) + T(q)[l] /\ va(p) \in Nat
      BY <1>3, <2>1 DEF q
    <3>5. /\ \A s \in Nat : fa(p)[s] \in Nat /\ fa(q)[s] \in Nat /\ fb(p)[s] \in Nat
          /\ T(q)[l] \in Nat /\ fa(p)[0] = 0 /\ fa(q)[0] = 0
          /\ \A s \in Nat : fa(p)[s + 1] = va(p) + fa(q)[s]
      <4> HIDE DEF fa, fb, T, D, afterA, afterB, va, vb
      <4> QED
        BY <1>14, <3>1 DEF q
    <3> HIDE DEF fa, fb, T, va, D
    <3>6. TakesGreater(va(p), fa(p), fa(q), fb(p), T(p), T(q), l)
      BY <3>3, <3>4, <3>5 DEF TakesGreater
    <3> QED
      BY <3>2, <3>6, SplitStep
  <2>2. CASE /\ vb(p) >= va(p) /\ afterB(p) \in D
             /\ \A k \in Nat : T(p)[k + 1] = vb(p) + T(afterB(p))[k]
    <3> DEFINE q == afterB(p)
    <3>1. q \in D /\ fa(q) = fa(p)
      BY <2>2
    <3> HIDE DEF q
    <3>2. IsWorstSplit(T(q), fa(p), fb(q), l)
      BY <1>16, <3>1
    <3>3. fa(p)[l + 1] <= vb(p) + fa(p)[l]
      <4>1. fa(p)[l + 1] <= va(p) + fa(p)[l] /\ fa(p)[l] \in Nat /\ fa(p)[l + 1] \in Nat
        <5>1. l + 1 \in Nat
          OBVIOUS
        <5> HIDE DEF fa, fb, T, afterA, afterB, D, va, vb
        <5> QED
          BY <1>14, <5>1
      <4>2. va(p) \in Nat /\ vb(p) \in Nat /\ vb(p) >= va(p)
        BY <1>3, <2>2
      <4> HIDE DEF fa, va, vb
      <4> QED
        BY <4>1, <4>2
    <3>4. T(p)[l + 1] = vb(p) + T(q)[l] /\ vb(p) \in Nat
      BY <1>3, <2>2 DEF q
    <3>5. /\ \A s \in Nat : fb(p)[s] \in Nat /\ fb(q)[s] \in Nat /\ fa(p)[s] \in Nat
          /\ T(q)[l] \in Nat /\ fb(p)[0] = 0 /\ fb(q)[0] = 0
          /\ \A s \in Nat : fb(p)[s + 1] = vb(p) + fb(q)[s]
      <4> HIDE DEF fa, fb, T, D, afterA, afterB, va, vb
      <4> QED
        BY <1>14, <3>1 DEF q
    <3> HIDE DEF fa, fb, T, vb, D
    <3>6. \A s \in 0..l : fa(p)[s] \in Nat /\ fb(q)[s] \in Nat
      BY <3>5
    <3>7. IsWorstSplit(T(q), fb(q), fa(p), l)
      BY <3>2, <3>6, SplitCommutes
    <3>8. IsWorstSplit(T(p), fb(p), fa(p), l + 1)
      <4>1. TakesGreater(vb(p), fb(p), fb(q), fa(p), T(p), T(q), l)
        BY <3>3, <3>4, <3>5 DEF TakesGreater
      <4> QED
        BY <3>7, <4>1, SplitStep
    <3>9. l + 1 \in Nat /\ \A s \in 0..(l + 1) : fb(p)[s] \in Nat /\ fa(p)[s] \in Nat
      BY <3>5
    <3> QED
      BY <3>8, <3>9, SplitCommutes
  <2> QED
    BY <1>13, <2>1, <2>2
<1>17. Nat \subseteq P
  <2> HIDE DEF P
  <2> QED
    BY <1>15, <1>16, SetInduction
<1>18. ASSUME NEW l \in Nat PROVE IsWorstSplit(T(<<1, 1>>), Total(a), Total(b), l)
  <2>1. <<1, 1>> \in D
    BY <1>2
  <2>2. IsWorstSplit(T(<<1, 1>>), fa(<<1, 1>>), fb(<<1, 1>>), l)
    BY <1>17, <2>1
  <2>3. ASSUME NEW s \in Nat PROVE fa(<<1, 1>>)[s] = Total(a)[s] /\ fb(<<1, 1>>)[s] = Total(b)[s]
    <3>1. 0 + s = s /\ 1 - 1 = 0
      OBVIOUS
    <3>2. /\ ValSum(s, 0, a) \in Nat /\ Total(a)[0 + s] = Total(a)[0] + ValSum(s, 0, a)
          /\ ValSum(s, 0, b) \in Nat /\ Total(b)[0 + s] = Total(b)[0] + ValSum(s, 0, b)
      BY <1>1, ValSumOfTotal
    <3>3. Total(a)[0] = 0 /\ Total(b)[0] = 0
      BY <1>1, TotalStep
    <3> QED
      BY <3>1, <3>2, <3>3 DEF SumsFrom
  <2>4. \A s \in 0..l : s \in Nat /\ l - s \in Nat
    OBVIOUS
  <2> HIDE DEF T, fa, fb
  <2> QED
    BY <2>2, <2>3, <2>4 DEF IsWorstSplit
<1>19. <<1, 1>> \in D
  BY <1>2
<1>20. from[<<1, 1>>] \in DecreasingWcets
  BY <1>12, <1>19 DEF DecreasingWcets
<1> QED
  BY <1>4, <1>18, <1>20

-----------------------------------------------------------------------------
(* What the first k values of a result sum to                              *)

THEOREM SumTotal ==
  ASSUME NEW a \in DecreasingWcets, NEW b \in DecreasingWcets, NEW k \in Nat
  PROVE  Total(SumMWcet(a, b))[k] = Total(a)[k] + Total(b)[k]
<1> DEFINE r == SumMWcet(a, b)
           t == [j \in Nat |-> Total(a)[j] + Total(b)[j]]
<1>1. a \in MultiWcets /\ b \in MultiWcets /\ r \in MultiWcets
  BY SumValues DEF DecreasingWcets
<1>2. \A i \in Nat \ {0} : Value(r, i) = Value(a, i) + Value(b, i)
  BY SumValues
<1>3. t[0] = 0
  BY <1>1, TotalStep
<1>4. ASSUME NEW j \in Nat PROVE t[j + 1] = t[j] + Value(r, j + 1)
  <2>1. /\ Total(a)[j + 1] = Total(a)[j] + Value(a, j + 1) /\ Total(a)[j] \in Nat
        /\ Total(b)[j + 1] = Total(b)[j] + Value(b, j + 1) /\ Total(b)[j] \in Nat
    BY <1>1, TotalStep
  <2>2. Value(r, j + 1) = Value(a, j + 1) + Value(b, j + 1)
    BY <1>2
  <2>3. Value(a, j + 1) \in Nat /\ Value(b, j + 1) \in Nat
    BY <1>1, ValueType
  <2>4. t[j + 1] = Total(a)[j + 1] + Total(b)[j + 1] /\ t[j] = Total(a)[j] + Total(b)[j]
    OBVIOUS
  <2> HIDE DEF t, r
  <2> QED
    BY <2>1, <2>2, <2>3, <2>4
<1>5. t[k] = Total(r)[k]
  <2>1. k \in 0..k
    OBVIOUS
  <2> HIDE DEF t, r
  <2> QED
    BY <1>1, <1>3, <1>4, <2>1, TotalUnique
<1> QED
  BY <1>5

THEOREM ProdTotal ==
  ASSUME NEW m \in DecreasingWcets, NEW c \in Nat, NEW k \in Nat
  PROVE  Total(ProdMWcet(c, m))[k] = c * Total(m)[k]
<1> DEFINE r == ProdMWcet(c, m)
           t == [j \in Nat |-> c * Total(m)[j]]
<1>1. m \in MultiWcets /\ r \in MultiWcets /\ \A i \in Nat \ {0} : Value(r, i) = c * Value(m, i)
  BY ProdValues DEF DecreasingWcets
<1>2. t[0] = 0
  BY <1>1, TotalStep
<1>3. ASSUME NEW j \in Nat PROVE t[j + 1] = t[j] + Value(r, j + 1)
  <2>1. /\ Total(m)[j + 1] = Total(m)[j] + Value(m, j + 1)
        /\ Total(m)[j] \in Nat /\ Value(m, j + 1) \in Nat
    BY <1>1, TotalStep, ValueType
  <2>2. Value(r, j + 1) = c * Value(m, j + 1)
    BY <1>1
  <2>3. t[j + 1] = c * Total(m)[j + 1] /\ t[j] = c * Total(m)[j]
    OBVIOUS
  <2>4. \A x, y \in Nat : c * (x + y) = c * x + c * y
    OBVIOUS
  <2> HIDE DEF t, r
  <2> QED
    BY <2>1, <2>2, <2>3, <2>4
<1>4. t[k] = Total(r)[k]
  <2>1. k \in 0..k
    OBVIOUS
  <2> HIDE DEF t, r
  <2> QED
    BY <1>1, <1>2, <1>3, <2>1, TotalUnique
<1> QED
  BY <1>4

THEOREM KeepFirstTotal ==
  ASSUME NEW m \in DecreasingWcets, NEW n \in Nat, NEW k \in Nat
  PROVE  Total(KeepFirst(n, m))[k] = Total(m)[IF k <= n THEN k ELSE n]
<1> DEFINE r == KeepFirst(n, m)
           t == [j \in Nat |-> Total(m)[IF j <= n THEN j ELSE n]]
<1>1. /\ m \in MultiWcets /\ r \in MultiWcets
      /\ \A i \in Nat \ {0} : Value(r, i) = IF i <= n THEN Value(m, i) ELSE 0
  BY KeepFirstValues DEF DecreasingWcets
<1>2. t[0] = 0
  BY <1>1, TotalStep
<1>3. ASSUME NEW j \in Nat PROVE t[j + 1] = t[j] + Value(r, j + 1)
  <2>1. /\ Total(m)[j + 1] = Total(m)[j] + Value(m, j + 1)
        /\ Total(m)[n] \in Nat
    BY <1>1, TotalStep
  <2>2. Value(r, j + 1) = IF j + 1 <= n THEN Value(m, j + 1) ELSE 0
    BY <1>1
  <2>3. /\ t[j + 1] = Total(m)[IF j + 1 <= n THEN j + 1 ELSE n]
        /\ t[j] = Total(m)[IF j <= n THEN j ELSE n]
    OBVIOUS
  <2> HIDE DEF t, r
  <2>4. CASE j + 1 <= n
    BY <2>1, <2>2, <2>3, <2>4
  <2>5. CASE ~(j + 1 <= n)
    <3>1. t[j + 1] = Total(m)[n] /\ t[j] = Total(m)[n]
      BY <2>3, <2>5
    <3> QED
      BY <2>1, <2>2, <2>5, <3>1
  <2> QED
    BY <2>4, <2>5
<1>4. t[k] = Total(r)[k]
  <2>1. k \in 0..k
    OBVIOUS
  <2> HIDE DEF t, r
  <2> QED
    BY <1>1, <1>2, <1>3, <2>1, TotalUnique
<1> QED
  BY <1>4

THEOREM PackTotal ==
  ASSUME NEW m \in DecreasingWcets, NEW n \in Nat, NEW k \in Nat
  PROVE  Total(Pack(n, m))[k] = Total(m)[k * n]
<1> DEFINE r == Pack(n, m)
           t == [j \in Nat |-> Total(m)[j * n]]
<1>1. /\ m \in MultiWcets /\ r \in MultiWcets
      /\ \A j \in Nat : Value(r, j + 1) = ValSum(n, j * n, m)
  BY PackValues DEF DecreasingWcets
<1>2. t[0] = 0
  BY <1>1, TotalStep
<1>3. ASSUME NEW j \in Nat PROVE t[j + 1] = t[j] + Value(r, j + 1)
  <2>1. (j + 1) * n = j * n + n /\ j * n \in Nat
    BY NextMultiple
  <2>2. Total(m)[j * n + n] = Total(m)[j * n] + ValSum(n, j * n, m)
    BY <1>1, <2>1, ValSumOfTotal
  <2>3. t[j + 1] = Total(m)[(j + 1) * n] /\ t[j] = Total(m)[j * n]
    OBVIOUS
  <2>4. Value(r, j + 1) = ValSum(n, j * n, m)
    BY <1>1
  <2> HIDE DEF t, r
  <2> QED
    BY <2>1, <2>2, <2>3, <2>4
<1>4. t[k] = Total(r)[k]
  <2>1. k \in 0..k
    OBVIOUS
  <2> HIDE DEF t, r
  <2> QED
    BY <1>1, <1>2, <1>3, <2>1, TotalUnique
<1> QED
  BY <1>4

LEMMA ConstantTotal ==
  ASSUME NEW c \in Nat, NEW k \in Nat
  PROVE  Total(MWcet(<<>>, c))[k] = k * c
<1> DEFINE r == MWcet(<<>>, c)
           t == [j \in Nat |-> j * c]
<1>1. r \in MultiWcets /\ \A i \in Nat \ {0} : Value(r, i) = c
  BY ValueOfConstant
<1>2. t[0] = 0
  OBVIOUS
<1>3. ASSUME NEW j \in Nat PROVE t[j + 1] = t[j] + Value(r, j + 1)
  <2>1. (j + 1) * c = j * c + c
    BY NextMultiple
  <2>2. t[j + 1] = (j + 1) * c /\ t[j] = j * c /\ Value(r, j + 1) = c
    BY <1>1
  <2> QED
    BY <2>1, <2>2
<1>4. t[k] = Total(r)[k]
  <2>1. k \in 0..k
    OBVIOUS
  <2> HIDE DEF t, r
  <2> QED
    BY <1>1, <1>2, <1>3, <2>1, TotalUnique
<1> QED
  BY <1>4
-----------------------------------------------------------------------------
(* What the operations make of abstract WCETs                              *)

Pos == Nat \ {0}
AWcets == [loop : Int, m : DecreasingWcets]

LEMMA NoSum ==
  ASSUME NEW m \in DecreasingWcets, NEW d \in Nat
  PROVE  ValSum(0, d, m) = 0
<1>1. m \in MultiWcets
  BY DEF DecreasingWcets
<1>2. ValSum(0, d, m) \in Nat /\ Total(m)[d + 0] = Total(m)[d] + ValSum(0, d, m)
  BY <1>1, ValSumOfTotal
<1>3. Total(m)[d] \in Nat /\ d + 0 = d
  BY <1>1, TotalDef DEF IsTotal
<1> QED
  BY <1>2, <1>3

LEMMA OneMore ==
  ASSUME NEW m \in DecreasingWcets, NEW d \in Nat, NEW k \in Nat
  PROVE  /\ ValSum(k, d, m) \in Nat
         /\ ValSum(k + 1, d, m) = ValSum(k, d, m) + Value(m, d + k + 1)
<1>1. m \in MultiWcets
  BY DEF DecreasingWcets
<1>2. /\ ValSum(k, d, m) \in Nat /\ Total(m)[d + k] = Total(m)[d] + ValSum(k, d, m)
      /\ ValSum(k + 1, d, m) \in Nat
      /\ Total(m)[d + (k + 1)] = Total(m)[d] + ValSum(k + 1, d, m)
  <2>1. \A n \in Nat : /\ ValSum(n, d, m) \in Nat
                       /\ Total(m)[d + n] = Total(m)[d] + ValSum(n, d, m)
    BY <1>1, ValSumOfTotal
  <2>2. k + 1 \in Nat
    OBVIOUS
  <2> QED
    BY <2>1, <2>2
<1>3. /\ Total(m)[d] \in Nat /\ Total(m)[d + k] \in Nat
      /\ Total(m)[(d + k) + 1] = Total(m)[d + k] + Value(m, (d + k) + 1)
  BY <1>1, TotalDef DEF IsTotal
<1>4. d + (k + 1) = (d + k) + 1 /\ Value(m, (d + k) + 1) \in Nat
  BY <1>1, ValueType
<1> HIDE DEF Total
<1> QED
  BY <1>2, <1>3, <1>4

\* Values that are c at most add up to at most c each, values that are c to exactly that.
LEMMA RestOfSum ==
  ASSUME NEW m \in DecreasingWcets, NEW d \in Nat, NEW k \in Nat, NEW n \in Nat, NEW c \in Nat
  PROVE  /\ (\A i \in Pos : i > d + k => Value(m, i) <= c) =>
              ValSum(k + n, d, m) <= ValSum(k, d, m) + n * c
         /\ (\A i \in Pos : i > d + k => Value(m, i) = c) =>
              ValSum(k + n, d, m) = ValSum(k, d, m) + n * c
<1> DEFINE V(i) == ValSum(i, d, m)
           Most == \A i \in Pos : i > d + k => Value(m, i) <= c
           All == \A i \in Pos : i > d + k => Value(m, i) = c
           P == {i \in Nat : /\ Most => V(k + i) <= V(k) + i * c
                             /\ All => V(k + i) = V(k) + i * c}
<1>1. V(k) \in Nat
  BY OneMore
<1>2. 0 \in P
  BY <1>1
<1>3. ASSUME NEW i \in Nat, i \in P PROVE i + 1 \in P
  <2>1. k + i \in Nat /\ (k + i) + 1 = k + (i + 1) /\ d + (k + i) + 1 \in Pos
        /\ d + (k + i) + 1 > d + k /\ (i + 1) * c = i * c + c /\ i * c \in Nat
    BY DEF Pos
  <2>2. V(k + i) \in Nat /\ V((k + i) + 1) = V(k + i) + Value(m, d + (k + i) + 1)
    BY <2>1, OneMore
  <2>3. Value(m, d + (k + i) + 1) \in Nat
    BY <2>1, ValueType DEF DecreasingWcets, Pos
  <2>4. /\ Most => Value(m, d + (k + i) + 1) <= c
        /\ All => Value(m, d + (k + i) + 1) = c
    BY <2>1
  <2>5. /\ Most => V(k + i) <= V(k) + i * c
        /\ All => V(k + i) = V(k) + i * c
    BY <1>3
  <2> HIDE DEF V, Most, All
  <2>6. /\ Most => V(k + (i + 1)) <= V(k) + (i + 1) * c
        /\ All => V(k + (i + 1)) = V(k) + (i + 1) * c
    BY <1>1, <2>1, <2>2, <2>3, <2>4, <2>5
  <2> QED
    BY <2>6
<1>4. Nat \subseteq P
  <2> HIDE DEF P
  <2> QED
    BY <1>2, <1>3, SetInduction
<1> QED
  BY <1>4

LEMMA IsAWcet ==
  ASSUME NEW l \in Int, NEW m \in DecreasingWcets
  PROVE  AWcet(l, m) \in AWcets /\ AWcet(l, m).loop = l /\ AWcet(l, m).m = m
BY DEF AWcet, AWcets

LEMMA AWcetParts ==
  ASSUME NEW x \in AWcets
  PROVE  /\ x.loop \in Int /\ x.m \in DecreasingWcets
         /\ \A i \in Pos : Value(x.m, i) \in Nat /\ i + 1 \in Pos /\ Value(x.m, i + 1) <= Value(x.m, i)
BY ValueType DEF AWcets, DecreasingWcets, IsDecreasing, Pos

LEMMA ConstantWcet ==
  ASSUME NEW c \in Nat
  PROVE  /\ MWcet(<<>>, c) \in DecreasingWcets
         /\ \A i \in Pos : Value(MWcet(<<>>, c), i) = c
BY ValueOfConstant DEF DecreasingWcets, Pos

LEMMA BotLaw ==
  ASSUME LTop \in Int
  PROVE  /\ Bot \in AWcets /\ Bot.loop = LTop
         /\ Bot.m = MWcet(<<>>, 0)
         /\ \A i \in Pos : Value(Bot.m, i) = 0
<1>1. /\ MWcet(<<>>, 0) \in DecreasingWcets
      /\ \A i \in Pos : Value(MWcet(<<>>, 0), i) = 0
  BY ConstantWcet
<1> QED
  BY <1>1, IsAWcet DEF Bot

LEMMA GlbLaw ==
  /\ \A l, k \in Int : Glb(l, k) \in Int
  /\ \A l : Glb(l, LTop) = l /\ Glb(LTop, l) = l /\ Glb(l, l) = l
BY DEF Glb, ImmContained

LEMMA SumMLaw ==
  ASSUME NEW a \in DecreasingWcets, NEW b \in DecreasingWcets
  PROVE  /\ SumMWcet(a, b) \in DecreasingWcets
         /\ \A i \in Pos : Value(SumMWcet(a, b), i) = Value(a, i) + Value(b, i)
BY SumValues DEF Pos

LEMMA SumLaw ==
  ASSUME NEW x \in AWcets, NEW y \in AWcets
  PROVE  /\ Sum(x, y) \in AWcets /\ Sum(x, y).loop = Glb(x.loop, y.loop)
         /\ \A i \in Pos : Value(Sum(x, y).m, i) = Value(x.m, i) + Value(y.m, i)
<1>1. /\ SumMWcet(x.m, y.m) \in DecreasingWcets
      /\ \A i \in Pos : Value(SumMWcet(x.m, y.m), i) = Value(x.m, i) + Value(y.m, i)
  BY AWcetParts, SumMLaw
<1>2. Glb(x.loop, y.loop) \in Int
  BY AWcetParts, GlbLaw
<1> QED
  BY <1>1, <1>2, IsAWcet DEF Sum

\* s of the values of m are x at least.
Has(m, s, x) == s = 0 \/ Value(m, s) >= x

LEMMA UnionLaw ==
  ASSUME NEW x \in AWcets, NEW y \in AWcets
  PROVE  /\ Union(x, y) \in AWcets /\ Union(x, y).loop = Glb(x.loop, y.loop)
         /\ \A s \in Nat, c \in Nat :
              Has(Union(x, y).m, s, c) <=>
                \E p, q \in Nat : p + q = s /\ Has(x.m, p, c) /\ Has(y.m, q, c)
<1> DEFINE u == UnionMWcet(x.m, y.m)
           A == Total(x.m)
           B == Total(y.m)
           U == Total(u)
<1>1. /\ u \in DecreasingWcets
      /\ \A l \in Nat : IsWorstSplit(U, A, B, l)
  BY AWcetParts, UnionValues
<1>2. Union(x, y) \in AWcets /\ Union(x, y).loop = Glb(x.loop, y.loop)
      /\ Union(x, y).m = u
  <2>1. Glb(x.loop, y.loop) \in Int
    BY AWcetParts, GlbLaw
  <2>2. UnionMWcet(x.m, y.m) = u
    OBVIOUS
  <2> HIDE DEF u
  <2> QED
    BY <1>1, <2>1, <2>2, IsAWcet DEF Union
<1>3. /\ A \in [Nat -> Nat] /\ A[0] = 0 /\ \A k \in Nat : A[k + 1] = A[k] + Value(x.m, k + 1)
      /\ B \in [Nat -> Nat] /\ B[0] = 0 /\ \A k \in Nat : B[k + 1] = B[k] + Value(y.m, k + 1)
      /\ U \in [Nat -> Nat] /\ U[0] = 0 /\ \A k \in Nat : U[k + 1] = U[k] + Value(u, k + 1)
  <2>1. x.m \in MultiWcets /\ y.m \in MultiWcets /\ u \in MultiWcets
    BY <1>1, AWcetParts DEF DecreasingWcets
  <2>2. IsTotal(A, x.m) /\ IsTotal(B, y.m) /\ IsTotal(U, u)
    BY <2>1, TotalDef
  <2> QED
    BY <2>2 DEF IsTotal
<1>4. /\ \A i \in Pos : Value(u, i) \in Nat /\ Value(x.m, i) \in Nat /\ Value(y.m, i) \in Nat
      /\ \A i \in Pos : Value(x.m, i + 1) <= Value(x.m, i) /\ Value(y.m, i + 1) <= Value(y.m, i)
  BY <1>2, AWcetParts
<1>5. \A m \in DecreasingWcets, i \in Pos, j \in Pos : i <= j => Value(m, j) <= Value(m, i)
  <2> SUFFICES ASSUME NEW m \in DecreasingWcets, NEW i \in Pos, NEW j \in Pos, i <= j
               PROVE  Value(m, j) <= Value(m, i)
    OBVIOUS
  <2>1. m \in MultiWcets /\ IsDecreasing(m) /\ j - i \in Nat /\ i + (j - i) = j
    BY DEF DecreasingWcets, Pos
  <2>2. Value(m, i + (j - i)) <= Value(m, i)
    BY <2>1, ValuesDecrease DEF Pos
  <2> QED
    BY <2>1, <2>2 
<1> HIDE DEF A, B, U, u
<1>6. ASSUME NEW s \in Nat, NEW c \in Nat, NEW p \in Nat, NEW q \in Nat,
             p + q = s, Has(x.m, p, c), Has(y.m, q, c)
      PROVE  Has(u, s, c)
  <2> SUFFICES ASSUME s # 0 PROVE Value(u, s) >= c
    BY DEF Has
  <2>1. s - 1 \in Nat /\ (s - 1) + 1 = s /\ s \in Pos
    BY DEF Pos
  <2>2. PICK a \in 0..(s - 1) : A[a] + B[s - 1 - a] = U[s - 1]
    BY <1>1, <2>1 DEF IsWorstSplit
  <2> DEFINE b == s - 1 - a
  <2>3. a \in Nat /\ b \in Nat /\ a + b + 1 = s /\ a + 1 \in Pos /\ b + 1 \in Pos
    BY <2>1 DEF Pos
  <2>4. U[s] = U[s - 1] + Value(u, s) /\ U[s - 1] \in Nat /\ U[s] \in Nat /\ Value(u, s) \in Nat
    BY <1>3, <1>4, <2>1
  <2>5. A[a] \in Nat /\ B[b] \in Nat /\ A[a + 1] = A[a] + Value(x.m, a + 1) /\ B[b + 1] = B[b] + Value(y.m, b + 1)
    BY <1>3, <2>3
  <2>6. Value(x.m, a + 1) \in Nat /\ Value(y.m, b + 1) \in Nat
    BY <1>4, <2>3
  <2>7. CASE a < p
    <3>1. p \in Pos /\ a + 1 <= p /\ Value(x.m, p) >= c /\ Value(x.m, p) \in Nat
      BY <1>4, <1>6, <2>3, <2>7 DEF Has, Pos
    <3>2. Value(x.m, p) <= Value(x.m, a + 1)
      BY <1>5, <2>3, <3>1, AWcetParts
    <3>3. a + 1 \in 0..s /\ s - (a + 1) = b
      BY <2>3
    <3>4. A[a + 1] + B[b] <= U[s]
      BY <1>1, <3>3 DEF IsWorstSplit
    <3> QED
      BY <2>2, <2>4, <2>5, <2>6, <3>1, <3>2, <3>4
  <2>8. CASE ~(a < p)
    <3>1. q \in Pos /\ b + 1 <= q
      BY <1>6, <2>3, <2>8 DEF Pos
    <3>2. Value(y.m, q) >= c /\ Value(y.m, q) \in Nat
      BY <1>4, <1>6, <3>1 DEF Has, Pos
    <3>3. Value(y.m, q) <= Value(y.m, b + 1)
      BY <1>5, <2>3, <3>1, AWcetParts
    <3>4. a \in 0..s /\ s - a = b + 1
      BY <2>3
    <3>5. A[a] + B[b + 1] <= U[s]
      BY <1>1, <3>4 DEF IsWorstSplit
    <3> QED
      BY <2>2, <2>4, <2>5, <2>6, <3>2, <3>3, <3>5
  <2> QED
    BY <2>7, <2>8
<1>7. ASSUME NEW s \in Nat, NEW c \in Nat, Has(u, s, c)
      PROVE  \E p, q \in Nat : p + q = s /\ Has(x.m, p, c) /\ Has(y.m, q, c)
  <2>1. CASE s = 0
    <3>1. 0 + 0 = s /\ Has(x.m, 0, c) /\ Has(y.m, 0, c) /\ 0 \in Nat
      BY <2>1 DEF Has
    <3> QED
      BY <3>1
  <2>2. CASE s # 0
    <3>1. s - 1 \in Nat /\ (s - 1) + 1 = s /\ s \in Pos
      BY <2>2 DEF Pos
    <3>2. PICK p \in 0..s : A[p] + B[s - p] = U[s]
      BY <1>1 DEF IsWorstSplit
    <3> DEFINE q == s - p
    <3>3. p \in Nat /\ q \in Nat /\ p + q = s
      OBVIOUS
    <3> HIDE DEF q
    <3>4. A[p] + B[q] = U[s]
      BY <3>2 DEF q
    <3>5. U[s] = U[s - 1] + Value(u, s) /\ U[s - 1] \in Nat /\ Value(u, s) \in Nat /\ Value(u, s) >= c
      BY <1>3, <1>4, <1>7, <2>2, <3>1 DEF Has
    <3>6. A[p] \in Nat /\ B[q] \in Nat
      BY <1>3, <3>3
    <3>7. Has(x.m, p, c)
      <4> SUFFICES ASSUME p # 0 PROVE Value(x.m, p) >= c
        BY DEF Has
      <4>1. p - 1 \in Nat /\ (p - 1) + 1 = p /\ p - 1 \in 0..(s - 1) /\ (s - 1) - (p - 1) = q /\ p \in Pos
        BY <3>3 DEF Pos
      <4>2. A[p] = A[p - 1] + Value(x.m, p) /\ A[p - 1] \in Nat
        BY <1>3, <4>1
      <4>3. A[p - 1] + B[q] <= U[s - 1]
        BY <1>1, <3>1, <4>1 DEF IsWorstSplit
      <4>4. Value(x.m, p) \in Nat
        BY <1>4, <4>1
      <4> QED
        BY <3>4, <3>5, <3>6, <4>2, <4>3, <4>4
    <3>8. Has(y.m, q, c)
      <4> SUFFICES ASSUME q # 0 PROVE Value(y.m, q) >= c
        BY DEF Has
      <4>1. q - 1 \in Nat /\ (q - 1) + 1 = q /\ p \in 0..(s - 1) /\ (s - 1) - p = q - 1 /\ q \in Pos
        BY <3>3 DEF Pos
      <4>2. B[q] = B[q - 1] + Value(y.m, q) /\ B[q - 1] \in Nat
        BY <1>3, <4>1
      <4>3. A[p] + B[q - 1] <= U[s - 1]
        BY <1>1, <3>1, <4>1 DEF IsWorstSplit
      <4>4. Value(y.m, q) \in Nat
        BY <1>4, <4>1
      <4> QED
        BY <3>4, <3>5, <3>6, <4>2, <4>3, <4>4
    <3> QED
      BY <3>3, <3>7, <3>8
  <2> QED
    BY <2>1, <2>2
<1> QED
  BY <1>2, <1>6, <1>7

LEMMA ProdLaw ==
  ASSUME NEW x \in AWcets, NEW k \in Nat
  PROVE  /\ Prod(k, x) \in AWcets /\ Prod(k, x).loop = x.loop
         /\ \A i \in Pos : Value(Prod(k, x).m, i) = k * Value(x.m, i)
<1>1. /\ ProdMWcet(k, x.m) \in DecreasingWcets
      /\ \A i \in Nat \ {0} : Value(ProdMWcet(k, x.m), i) = k * Value(x.m, i)
  BY AWcetParts, ProdValues
<1>2. x.loop \in Int
  BY AWcetParts
<1> QED
  BY <1>1, <1>2, IsAWcet DEF Prod, Pos

LEMMA AnnotLaw ==
  ASSUME NEW x \in AWcets, NEW l \in Int, NEW n \in Nat
  PROVE  /\ Annot(x, l, n) \in AWcets /\ Annot(x, l, n).loop = Glb(x.loop, l)
         /\ \A i \in Pos : Value(Annot(x, l, n).m, i) = IF i <= n THEN Value(x.m, i) ELSE 0
<1>1. /\ KeepFirst(n, x.m) \in DecreasingWcets
      /\ \A i \in Nat \ {0} : Value(KeepFirst(n, x.m), i) = IF i <= n THEN Value(x.m, i) ELSE 0
  BY AWcetParts, KeepFirstValues
<1>2. Glb(x.loop, l) \in Int
  BY AWcetParts, GlbLaw
<1> QED
  BY <1>1, <1>2, IsAWcet DEF Annot, Pos

LEMMA PowLaw ==
  ASSUME LTop \in Int, NEW x \in AWcets, NEW l \in Int, NEW n \in Nat
  PROVE  LET y == Pow(x, Bot, l, n) IN
         /\ y \in AWcets
         /\ y.loop = IF x.loop = l THEN LTop ELSE x.loop
         /\ \A i \in Pos : Value(y.m, i) = IF x.loop = l THEN ValSum(n, 0, x.m)
                                       ELSE Value(Pack(n, x.m), i)
<1> DEFINE y == Pow(x, Bot, l, n)
           c == ValSum(n, 0, x.m)
           bot == Bot.m
<1>1. x.loop \in Int /\ x.m \in DecreasingWcets /\ x.m \in MultiWcets
  BY AWcetParts DEF DecreasingWcets
<1>2. bot \in DecreasingWcets /\ Bot.loop = LTop /\ \A i \in Pos : Value(bot, i) = 0
  BY BotLaw, AWcetParts
<1>3. ValSum(n, 0, x.m) = c
  OBVIOUS
<1>4. c \in Nat
  BY <1>1, ValSumOfTotal
<1>5. Pack(n, x.m) \in DecreasingWcets
  BY <1>1, PackValues
<1> HIDE DEF c, bot
<1>6. CASE x.loop = l
  <2> DEFINE k == MWcet(<<>>, c)
             s == SumMWcet(k, bot)
  <2>1. k \in DecreasingWcets /\ \A i \in Pos : Value(k, i) = c
    BY <1>4, ConstantWcet
  <2> HIDE DEF k
  <2>2. s \in DecreasingWcets /\ \A i \in Pos : Value(s, i) = Value(k, i) + Value(bot, i)
    BY <1>2, <2>1, SumMLaw
  <2>3. y = AWcet(LTop, s)
    BY <1>2, <1>3, <1>6 DEF Pow, k, bot
  <2> HIDE DEF s, y
  <2>4. y \in AWcets /\ y.loop = LTop /\ y.m = s
    BY <2>2, <2>3, IsAWcet
  <2>5. \A i \in Pos : Value(y.m, i) = c
    BY <1>2, <1>4, <2>1, <2>2, <2>4
  <2> QED
    BY <1>6, <2>4, <2>5 DEF y, c
<1>7. CASE x.loop # l
  <2> DEFINE k == Pack(n, x.m)
             s == SumMWcet(k, bot)
  <2>1. k \in DecreasingWcets /\ \A i \in Pos : Value(k, i) \in Nat
    BY <1>5, ValueType DEF DecreasingWcets, Pos
  <2> HIDE DEF k
  <2>2. s \in DecreasingWcets /\ \A i \in Pos : Value(s, i) = Value(k, i) + Value(bot, i)
    BY <1>2, <2>1, SumMLaw
  <2>3. y = AWcet(x.loop, s)
    BY <1>2, <1>3, <1>7, GlbLaw DEF Pow, k, bot
  <2> HIDE DEF s, y
  <2>4. y \in AWcets /\ y.loop = x.loop /\ y.m = s
    BY <1>1, <2>2, <2>3, IsAWcet
  <2>5. \A i \in Pos : Value(y.m, i) = Value(k, i)
    BY <1>2, <2>1, <2>2, <2>4
  <2> QED
    BY <1>7, <2>4, <2>5 DEF y, k
<1> QED
  BY <1>6, <1>7

-----------------------------------------------------------------------------
(* Sums and unions of several operands                                     *)

AreWcets(xs) == xs \in Seq(AWcets) /\ xs # <<>>

LEMMA Wcets ==
  ASSUME NEW xs, AreWcets(xs)
  PROVE  /\ Len(xs) \in Pos /\ DOMAIN xs = 1..Len(xs) /\ 1 \in 1..Len(xs)
         /\ \A i \in 1..Len(xs) : xs[i] \in AWcets
<1>1. Len(xs) \in Nat /\ DOMAIN xs = 1..Len(xs) /\ Len(xs) # 0
  BY LenProperties, EmptySeq DEF AreWcets
<1>2. \A i \in 1..Len(xs) : xs[i] \in AWcets
  BY <1>1, ElementOfSeq DEF AreWcets
<1> QED
  BY <1>1, <1>2 DEF Pos

\* u has what op makes of the first numbers of xs.
AreFolds(u, xs, op) ==
  /\ u \in [1..Len(xs) -> AWcets] /\ u[1] = xs[1]
  /\ \A i \in 1..Len(xs) : i # 1 => u[i] = op[<<u[i - 1], xs[i]>>]

LEMMA FoldExists ==
  ASSUME NEW xs, AreWcets(xs), NEW op \in [AWcets \X AWcets -> AWcets]
  PROVE  \E u : AreFolds(u, xs, op)
<1> DEFINE n == Len(xs)
           D == 1..n
           rank == [i \in D |-> i]
           base == [i \in D |-> xs[i]]
           next == [i \in D \ {1} |-> i - 1]
           step == [p \in (D \ {1}) \X AWcets |-> op[<<p[2], xs[p[1]]>>]]
<1>1. n \in Pos /\ 1 \in D /\ \A i \in D : xs[i] \in AWcets
  BY Wcets
<1>2. /\ step \in [(D \ {1}) \X AWcets -> AWcets]
      /\ \A i \in D \ {1}, x \in AWcets : step[<<i, x>>] = op[<<x, xs[i]>>]
  BY <1>1
<1>3. IsChain(D, AWcets, rank, {1}, base, next, step)
  <2>1. rank \in [D -> Nat] /\ base \in [D -> AWcets] /\ next \in [D \ {1} -> D]
    BY <1>1 DEF Pos
  <2>2. \A i \in D \ {1} : rank[next[i]] < rank[i]
    BY <1>1 DEF Pos
  <2> HIDE DEF D, rank, base, next, step
  <2> QED
    BY <1>2, <2>1, <2>2 DEF IsChain
<1>4. PICK u \in [D -> AWcets] : FollowsChain(u, D, {1}, base, next, step)
  <2> HIDE DEF D, rank, base, next, step
  <2> QED
    BY <1>3, ChainRecursion
<1>5. u[1] = xs[1]
  BY <1>1, <1>4 DEF FollowsChain
<1>6. ASSUME NEW i \in D, i # 1 PROVE u[i] = op[<<u[i - 1], xs[i]>>]
  <2>1. i \in D \ {1} /\ next[i] = i - 1 /\ i - 1 \in D
    BY <1>1, <1>6 DEF Pos
  <2> HIDE DEF D, base, next, step
  <2>2. u[i] = step[<<i, u[next[i]]>>]
    BY <1>4, <1>6 DEF FollowsChain
  <2> QED
    BY <1>2, <2>1, <2>2
<1>7. AreFolds(u, xs, op)
  BY <1>4, <1>5, <1>6 DEF AreFolds
<1> QED
  BY <1>7

SumOp == [p \in AWcets \X AWcets |-> Sum(p[1], p[2])]
UnionOp == [p \in AWcets \X AWcets |-> Union(p[1], p[2])]

LEMMA Ops ==
  /\ SumOp \in [AWcets \X AWcets -> AWcets]
  /\ \A x, y \in AWcets : SumOp[<<x, y>>] = Sum(x, y)
  /\ UnionOp \in [AWcets \X AWcets -> AWcets]
  /\ \A x, y \in AWcets : UnionOp[<<x, y>>] = Union(x, y)
<1>1. \A x, y \in AWcets : Sum(x, y) \in AWcets /\ Union(x, y) \in AWcets
  BY SumLaw, UnionLaw
<1>2. \A x, y \in AWcets : SumOp[<<x, y>>] = Sum(x, y) /\ UnionOp[<<x, y>>] = Union(x, y)
  BY DEF SumOp, UnionOp
<1>3. \A p \in AWcets \X AWcets : p[1] \in AWcets /\ p[2] \in AWcets
  OBVIOUS
<1> QED
  BY <1>1, <1>2, <1>3 DEF SumOp, UnionOp

LEMMA SumsFolds ==
  ASSUME NEW xs, AreWcets(xs)
  PROVE  AreFolds(Sums(xs), xs, SumOp)
<1> DEFINE n == Len(xs)
           upto[i \in DOMAIN xs] == IF i = 1 THEN xs[1] ELSE Sum(upto[i - 1], xs[i])
<1>1. PICK u : AreFolds(u, xs, SumOp)
  BY FoldExists, Ops
<1>2. n \in Pos /\ 1 \in 1..n /\ DOMAIN xs = 1..n /\ \A i \in 1..n : xs[i] \in AWcets
  BY Wcets
<1>3. Sums(xs) = upto
  BY DEF Sums
<1>4. \A i \in 1..n : u[i] = IF i = 1 THEN xs[1] ELSE Sum(u[i - 1], xs[i])
  <2> SUFFICES ASSUME NEW i \in 1..n, i # 1 PROVE u[i] = Sum(u[i - 1], xs[i])
    BY <1>1 DEF AreFolds
  <2>1. i - 1 \in 1..n
    BY <1>2 DEF Pos
  <2>2. u[i] = SumOp[<<u[i - 1], xs[i]>>] /\ u[i - 1] \in AWcets /\ xs[i] \in AWcets
    BY <1>1, <1>2, <2>1 DEF AreFolds
  <2> QED
    BY <2>2, Ops
<1>5. u = [i \in DOMAIN xs |-> IF i = 1 THEN xs[1] ELSE Sum(u[i - 1], xs[i])]
  BY <1>1, <1>2, <1>4 DEF AreFolds
<1>6. upto = [i \in DOMAIN xs |-> IF i = 1 THEN xs[1] ELSE Sum(upto[i - 1], xs[i])]
  BY <1>5
<1> HIDE DEF upto
<1>7. \A i \in 1..n : upto[i] = IF i = 1 THEN xs[1] ELSE Sum(upto[i - 1], xs[i])
  BY <1>2, <1>6, Zenon
<1> DEFINE P == {i \in Nat : i + 1 \in 1..n => upto[i + 1] = u[i + 1]}
<1>8. 0 \in P
  BY <1>4, <1>7
<1>9. ASSUME NEW i \in Nat, i \in P PROVE i + 1 \in P
  <2> SUFFICES ASSUME (i + 1) + 1 \in 1..n PROVE upto[(i + 1) + 1] = u[(i + 1) + 1]
    OBVIOUS
  <2>1. i + 1 \in 1..n /\ ((i + 1) + 1) - 1 = i + 1 /\ (i + 1) + 1 # 1
    BY <1>2 DEF Pos
  <2>2. upto[(i + 1) + 1] = Sum(upto[i + 1], xs[(i + 1) + 1])
    BY <1>7, <2>1
  <2>3. u[(i + 1) + 1] = Sum(u[i + 1], xs[(i + 1) + 1])
    BY <1>4, <2>1
  <2>4. upto[i + 1] = u[i + 1]
    BY <1>9, <2>1
  <2> QED
    BY <2>2, <2>3, <2>4
<1>10. Nat \subseteq P
  <2> HIDE DEF P
  <2> QED
    BY <1>8, <1>9, SetInduction
<1>11. ASSUME NEW i \in 1..n PROVE upto[i] = u[i]
  <2>1. i - 1 \in Nat /\ (i - 1) + 1 = i
    BY <1>2 DEF Pos
  <2> QED
    BY <1>10, <2>1
<1>12. upto = u
  <2>1. DOMAIN upto = 1..n
    BY <1>2, <1>6
  <2>2. upto = [i \in 1..n |-> upto[i]]
    BY <1>2, <1>6
  <2>3. u = [i \in 1..n |-> u[i]]
    BY <1>1 DEF AreFolds
  <2> QED
    BY <1>11, <2>2, <2>3
<1> QED
  BY <1>1, <1>3, <1>12

LEMMA UnionsFolds ==
  ASSUME NEW xs, AreWcets(xs)
  PROVE  AreFolds(Unions(xs), xs, UnionOp)
<1> DEFINE n == Len(xs)
           upto[i \in DOMAIN xs] == IF i = 1 THEN xs[1] ELSE Union(upto[i - 1], xs[i])
<1>1. PICK u : AreFolds(u, xs, UnionOp)
  BY FoldExists, Ops
<1>2. n \in Pos /\ 1 \in 1..n /\ DOMAIN xs = 1..n /\ \A i \in 1..n : xs[i] \in AWcets
  BY Wcets
<1>3. Unions(xs) = upto
  BY DEF Unions
<1>4. \A i \in 1..n : u[i] = IF i = 1 THEN xs[1] ELSE Union(u[i - 1], xs[i])
  <2> SUFFICES ASSUME NEW i \in 1..n, i # 1 PROVE u[i] = Union(u[i - 1], xs[i])
    BY <1>1 DEF AreFolds
  <2>1. i - 1 \in 1..n
    BY <1>2 DEF Pos
  <2>2. u[i] = UnionOp[<<u[i - 1], xs[i]>>] /\ u[i - 1] \in AWcets /\ xs[i] \in AWcets
    BY <1>1, <1>2, <2>1 DEF AreFolds
  <2> QED
    BY <2>2, Ops
<1>5. u = [i \in DOMAIN xs |-> IF i = 1 THEN xs[1] ELSE Union(u[i - 1], xs[i])]
  BY <1>1, <1>2, <1>4 DEF AreFolds
<1>6. upto = [i \in DOMAIN xs |-> IF i = 1 THEN xs[1] ELSE Union(upto[i - 1], xs[i])]
  BY <1>5
<1> HIDE DEF upto
<1>7. \A i \in 1..n : upto[i] = IF i = 1 THEN xs[1] ELSE Union(upto[i - 1], xs[i])
  BY <1>2, <1>6, Zenon
<1> DEFINE P == {i \in Nat : i + 1 \in 1..n => upto[i + 1] = u[i + 1]}
<1>8. 0 \in P
  BY <1>4, <1>7
<1>9. ASSUME NEW i \in Nat, i \in P PROVE i + 1 \in P
  <2> SUFFICES ASSUME (i + 1) + 1 \in 1..n PROVE upto[(i + 1) + 1] = u[(i + 1) + 1]
    OBVIOUS
  <2>1. i + 1 \in 1..n /\ ((i + 1) + 1) - 1 = i + 1 /\ (i + 1) + 1 # 1
    BY <1>2 DEF Pos
  <2>2. upto[(i + 1) + 1] = Union(upto[i + 1], xs[(i + 1) + 1])
    BY <1>7, <2>1
  <2>3. u[(i + 1) + 1] = Union(u[i + 1], xs[(i + 1) + 1])
    BY <1>4, <2>1
  <2>4. upto[i + 1] = u[i + 1]
    BY <1>9, <2>1
  <2> QED
    BY <2>2, <2>3, <2>4
<1>10. Nat \subseteq P
  <2> HIDE DEF P
  <2> QED
    BY <1>8, <1>9, SetInduction
<1>11. ASSUME NEW i \in 1..n PROVE upto[i] = u[i]
  <2>1. i - 1 \in Nat /\ (i - 1) + 1 = i
    BY <1>2 DEF Pos
  <2> QED
    BY <1>10, <2>1
<1>12. upto = u
  <2>1. DOMAIN upto = 1..n
    BY <1>2, <1>6
  <2>2. upto = [i \in 1..n |-> upto[i]]
    BY <1>2, <1>6
  <2>3. u = [i \in 1..n |-> u[i]]
    BY <1>1 DEF AreFolds
  <2> QED
    BY <1>11, <2>2, <2>3
<1> QED
  BY <1>1, <1>3, <1>12

LEMMA SumAllLaw ==
  ASSUME NEW xs, AreWcets(xs)
  PROVE  /\ SumAll(xs) \in AWcets
         /\ \A p \in Pos : Value(SumAll(xs).m, p) = TotalOf([j \in 1..Len(xs) |-> Value(xs[j].m, p)])
<1> DEFINE u == Sums(xs)
<1>1. AreFolds(u, xs, SumOp) /\ SumAll(xs) = u[Len(xs)]
  BY SumsFolds DEF SumAll
<1> HIDE DEF u
<1> DEFINE n == Len(xs)
<1>2. n \in Pos /\ n \in 1..n /\ 1 \in 1..n /\ \A i \in 1..n : xs[i] \in AWcets /\ u[i] \in AWcets
  BY <1>1, Wcets DEF AreFolds, Pos
<1>3. \A i \in 1..n : i # 1 => i - 1 \in 1..n /\ u[i] = Sum(u[i - 1], xs[i])
  <2> SUFFICES ASSUME NEW i \in 1..n, i # 1 PROVE i - 1 \in 1..n /\ u[i] = Sum(u[i - 1], xs[i])
    OBVIOUS
  <2>1. i - 1 \in 1..n
    BY <1>2 DEF Pos
  <2>2. u[i] = SumOp[<<u[i - 1], xs[i]>>] /\ u[i - 1] \in AWcets /\ xs[i] \in AWcets
    BY <1>1, <1>2, <2>1 DEF AreFolds
  <2> QED
    BY <2>1, <2>2, Ops
<1>4. ASSUME NEW p \in Pos
      PROVE  Value(SumAll(xs).m, p) = TotalOf([j \in 1..n |-> Value(xs[j].m, p)])
  <2> DEFINE first(i) == [j \in 1..i |-> Value(xs[j].m, p)]
             P == {i \in Nat : i + 1 \in 1..n => Value(u[i + 1].m, p) = TotalOf(first(i + 1))}
  <2>1. \A j \in 1..n : Value(xs[j].m, p) \in Nat
    BY <1>2, AWcetParts
  <2>2. ASSUME NEW i \in Nat, i + 1 \in 1..n
        PROVE  TotalOf(first(i + 1)) = TotalOf(first(i)) + Value(xs[i + 1].m, p)
    <3>1. first(i + 1) \in Vectors(i + 1) /\ first(i + 1)[i + 1] = Value(xs[i + 1].m, p)
      BY <1>2, <2>1, <2>2 DEF Vectors, Pos
    <3>2. Shortened(first(i + 1), i) = first(i)
      BY <1>2, <2>2 DEF Shortened, Pos
    <3> HIDE DEF first
    <3> QED
      BY <3>1, <3>2, VectorStep
  <2>3. 0 \in P
    <3>1. first(0) \in Vectors(0) /\ \A i \in 1..0 : first(0)[i] = 0
      BY DEF Vectors
    <3>2. TotalOf(first(0)) = 0
      <4> HIDE DEF first
      <4> QED
        BY <3>1, TotalOfZeros
    <3>3. TotalOf(first(0 + 1)) = TotalOf(first(0)) + Value(xs[0 + 1].m, p)
      <4>1. 0 \in Nat /\ 0 + 1 \in 1..n
        BY <1>2
      <4> HIDE DEF first
      <4> QED
        BY <2>2, <4>1, Zenon
    <3>4. u[1] = xs[1] /\ 0 + 1 = 1 /\ Value(xs[1].m, p) \in Nat
      BY <1>1, <1>2, <2>1 DEF AreFolds
    <3> HIDE DEF first
    <3> QED
      BY <3>2, <3>3, <3>4
  <2>4. ASSUME NEW i \in Nat, i \in P PROVE i + 1 \in P
    <3> SUFFICES ASSUME (i + 1) + 1 \in 1..n
                 PROVE  Value(u[(i + 1) + 1].m, p) = TotalOf(first((i + 1) + 1))
      OBVIOUS
    <3>1. i + 1 \in 1..n /\ ((i + 1) + 1) - 1 = i + 1 /\ (i + 1) + 1 # 1 /\ i + 1 \in Nat
      BY <1>2 DEF Pos
    <3>2. u[(i + 1) + 1] = Sum(u[i + 1], xs[(i + 1) + 1])
      BY <1>3, <3>1
    <3>3. Value(u[(i + 1) + 1].m, p) = Value(u[i + 1].m, p) + Value(xs[(i + 1) + 1].m, p)
      BY <1>2, <3>1, <3>2, SumLaw
    <3>4. Value(u[i + 1].m, p) = TotalOf(first(i + 1))
      BY <2>4, <3>1
    <3>5. TotalOf(first((i + 1) + 1)) = TotalOf(first(i + 1)) + Value(xs[(i + 1) + 1].m, p)
      BY <2>2, <3>1
    <3> HIDE DEF first
    <3> QED
      BY <3>3, <3>4, <3>5
  <2>5. Nat \subseteq P
    <3> HIDE DEF P
    <3> QED
      BY <2>3, <2>4, SetInduction
  <2>6. n - 1 \in Nat /\ (n - 1) + 1 = n
    BY <1>2 DEF Pos
  <2>7. Value(u[n].m, p) = TotalOf(first(n))
    <3> HIDE DEF first
    <3> QED
      BY <1>2, <2>5, <2>6
  <2> QED
    BY <1>1, <2>7
<1> QED
  BY <1>1, <1>2, <1>4

\* Each partial sum is the one before and the next part.
LEMMA SumsLaw ==
  ASSUME NEW xs, AreWcets(xs)
  PROVE  /\ Sums(xs)[1] = xs[1] /\ SumAll(xs) = Sums(xs)[Len(xs)]
         /\ \A i \in 1..Len(xs) : Sums(xs)[i] \in AWcets
         /\ \A i \in 1..Len(xs) : i # 1 => Sums(xs)[i] = Sum(Sums(xs)[i - 1], xs[i])
<1> DEFINE u == Sums(xs)
<1>1. AreFolds(u, xs, SumOp) /\ SumAll(xs) = u[Len(xs)]
  BY SumsFolds DEF SumAll
<1>2. Len(xs) \in Nat /\ \A i \in 1..Len(xs) : xs[i] \in AWcets
  BY Wcets DEF Pos
<1> HIDE DEF u
<1>3. ASSUME NEW i \in 1..Len(xs), i # 1 PROVE u[i] = Sum(u[i - 1], xs[i])
  <2>1. i - 1 \in 1..Len(xs)
    BY <1>2, <1>3
  <2>2. u[i] = SumOp[<<u[i - 1], xs[i]>>] /\ u[i - 1] \in AWcets /\ xs[i] \in AWcets
    BY <1>1, <1>2, <1>3, <2>1 DEF AreFolds
  <2> QED
    BY <2>2, Ops
<1> QED
  BY <1>1, <1>3 DEF AreFolds, u

LEMMA UnionsLaw ==
  ASSUME NEW xs, AreWcets(xs)
  PROVE  /\ Unions(xs)[1] = xs[1] /\ UnionAll(xs) = Unions(xs)[Len(xs)]
         /\ \A i \in 1..Len(xs) : Unions(xs)[i] \in AWcets
         /\ \A i \in 1..Len(xs) : i # 1 => Unions(xs)[i] = Union(Unions(xs)[i - 1], xs[i])
<1> DEFINE u == Unions(xs)
<1>1. AreFolds(u, xs, UnionOp) /\ UnionAll(xs) = u[Len(xs)]
  BY UnionsFolds DEF UnionAll
<1>2. Len(xs) \in Nat /\ \A i \in 1..Len(xs) : xs[i] \in AWcets
  BY Wcets DEF Pos
<1> HIDE DEF u
<1>3. ASSUME NEW i \in 1..Len(xs), i # 1 PROVE u[i] = Union(u[i - 1], xs[i])
  <2>1. i - 1 \in 1..Len(xs)
    BY <1>2, <1>3
  <2>2. u[i] = UnionOp[<<u[i - 1], xs[i]>>] /\ u[i - 1] \in AWcets /\ xs[i] \in AWcets
    BY <1>1, <1>2, <1>3, <2>1 DEF AreFolds
  <2> QED
    BY <2>2, Ops
<1> QED
  BY <1>1, <1>3 DEF AreFolds, u

\* The values the vector v takes off the first n of xs are c at least.
Takes(xs, n, v, c) == \A j \in 1..n : Has(xs[j].m, v[j], c)

LEMMA UnionAllLaw ==
  ASSUME NEW xs, AreWcets(xs)
  PROVE  /\ UnionAll(xs) \in AWcets
         /\ \A s \in Nat, c \in Nat :
              Has(UnionAll(xs).m, s, c) <=>
                \E v \in Vectors(Len(xs)) : TotalOf(v) = s /\ Takes(xs, Len(xs), v, c)
<1> DEFINE u == Unions(xs)
<1>1. AreFolds(u, xs, UnionOp) /\ UnionAll(xs) = u[Len(xs)]
  BY UnionsFolds DEF UnionAll
<1> HIDE DEF u
<1> DEFINE n == Len(xs)
<1>2. n \in Pos /\ n \in 1..n /\ 1 \in 1..n /\ \A i \in 1..n : xs[i] \in AWcets /\ u[i] \in AWcets
  BY <1>1, Wcets DEF AreFolds, Pos
<1>3. \A i \in 1..n : i # 1 => i - 1 \in 1..n /\ u[i] = Union(u[i - 1], xs[i])
  <2> SUFFICES ASSUME NEW i \in 1..n, i # 1 PROVE i - 1 \in 1..n /\ u[i] = Union(u[i - 1], xs[i])
    OBVIOUS
  <2>1. i - 1 \in 1..n
    BY <1>2 DEF Pos
  <2>2. u[i] = UnionOp[<<u[i - 1], xs[i]>>] /\ u[i - 1] \in AWcets /\ xs[i] \in AWcets
    BY <1>1, <1>2, <2>1 DEF AreFolds
  <2> QED
    BY <2>1, <2>2, Ops
<1>4. ASSUME NEW c \in Nat
      PROVE  \A s \in Nat : Has(UnionAll(xs).m, s, c) <=>
                              \E v \in Vectors(n) : TotalOf(v) = s /\ Takes(xs, n, v, c)
  <2> DEFINE Law(i) == \A s \in Nat : Has(u[i].m, s, c) <=>
                                        \E v \in Vectors(i) : TotalOf(v) = s /\ Takes(xs, i, v, c)
             P == {i \in Nat : i + 1 \in 1..n => Law(i + 1)}
  \* A vector of i + 1 numbers is one of i numbers and a number.
  <2>1. ASSUME NEW i \in Nat, i + 1 \in 1..n, NEW s \in Nat
        PROVE  (\E v \in Vectors(i + 1) : TotalOf(v) = s /\ Takes(xs, i + 1, v, c)) <=>
               (\E p, q \in Nat : /\ p + q = s /\ Has(xs[i + 1].m, q, c)
                                  /\ \E v \in Vectors(i) : TotalOf(v) = p /\ Takes(xs, i, v, c))
    <3>1. ASSUME NEW v \in Vectors(i + 1), TotalOf(v) = s, Takes(xs, i + 1, v, c)
          PROVE  \E p, q \in Nat : /\ p + q = s /\ Has(xs[i + 1].m, q, c)
                                   /\ \E t \in Vectors(i) : TotalOf(t) = p /\ Takes(xs, i, t, c)
      <4> DEFINE t == Shortened(v, i)
      <4>1. t \in Vectors(i) /\ TotalOf(v) = TotalOf(t) + v[i + 1]
        BY VectorStep
      <4>2. Takes(xs, i, t, c) /\ Has(xs[i + 1].m, v[i + 1], c) /\ v[i + 1] \in Nat
        BY <3>1 DEF Takes, Shortened, Vectors
      <4> HIDE DEF t
      <4>3. TotalOf(t) \in Nat
        BY <4>1, VectorSums
      <4> QED
        BY <3>1, <4>1, <4>2, <4>3
    <3>2. ASSUME NEW p \in Nat, NEW q \in Nat, p + q = s, Has(xs[i + 1].m, q, c),
                 NEW t \in Vectors(i), TotalOf(t) = p, Takes(xs, i, t, c)
          PROVE  \E v \in Vectors(i + 1) : TotalOf(v) = s /\ Takes(xs, i + 1, v, c)
      <4> DEFINE v == [j \in 1..(i + 1) |-> IF j = i + 1 THEN q ELSE t[j]]
      <4>1. v \in Vectors(i + 1) /\ v[i + 1] = q /\ \A j \in 1..i : v[j] = t[j]
        BY DEF Vectors
      <4>2. Shortened(v, i) = t
        BY <4>1 DEF Shortened, Vectors
      <4> HIDE DEF v
      <4>3. TotalOf(v) = s
        BY <3>2, <4>1, <4>2, VectorStep
      <4>4. Takes(xs, i + 1, v, c)
        BY <3>2, <4>1 DEF Takes
      <4> QED
        BY <4>1, <4>3, <4>4
    <3> QED
      BY <3>1, <3>2
  <2>2. 0 \in P
    <3>1. \A v \in Vectors(0) : TotalOf(v) = 0 /\ Takes(xs, 0, v, c)
      BY TotalOfZeros DEF Takes
    <3>2. [j \in 1..0 |-> 0] \in Vectors(0)
      BY DEF Vectors
    <3>3. ASSUME NEW s \in Nat
          PROVE  Has(u[0 + 1].m, s, c) <=> \E v \in Vectors(0 + 1) : TotalOf(v) = s /\ Takes(xs, 0 + 1, v, c)
      <4>1. u[0 + 1] = xs[0 + 1]
        BY <1>1 DEF AreFolds
      <4>2. (\E v \in Vectors(0 + 1) : TotalOf(v) = s /\ Takes(xs, 0 + 1, v, c)) <=>
            (\E p, q \in Nat : /\ p + q = s /\ Has(xs[0 + 1].m, q, c)
                               /\ \E v \in Vectors(0) : TotalOf(v) = p /\ Takes(xs, 0, v, c))
        <5>1. 0 \in Nat /\ 0 + 1 \in 1..n
          BY <1>2
        <5> QED
          BY <2>1, <5>1, Zenon
      <4>3. (\E p, q \in Nat : /\ p + q = s /\ Has(xs[0 + 1].m, q, c)
                               /\ \E v \in Vectors(0) : TotalOf(v) = p /\ Takes(xs, 0, v, c))
            <=> Has(xs[0 + 1].m, s, c)
        <5>1. \A p, q \in Nat : p + q = s /\ p = 0 => q = s
          OBVIOUS
        <5>2. 0 + s = s
          OBVIOUS
        <5> QED
          BY <3>1, <3>2, <5>1, <5>2
      <4> QED
        BY <4>1, <4>2, <4>3
    <3> QED
      BY <3>3
  <2>3. ASSUME NEW i \in Nat, i \in P PROVE i + 1 \in P
    <3> SUFFICES ASSUME (i + 1) + 1 \in 1..n, NEW s \in Nat
                 PROVE  Has(u[(i + 1) + 1].m, s, c) <=>
                          \E v \in Vectors((i + 1) + 1) : TotalOf(v) = s /\ Takes(xs, (i + 1) + 1, v, c)
      OBVIOUS
    <3>1. i + 1 \in 1..n /\ ((i + 1) + 1) - 1 = i + 1 /\ (i + 1) + 1 # 1 /\ i + 1 \in Nat
      BY <1>2 DEF Pos
    <3>2. u[(i + 1) + 1] = Union(u[i + 1], xs[(i + 1) + 1])
      BY <1>3, <3>1
    <3>3. Has(u[(i + 1) + 1].m, s, c) <=>
            \E p, q \in Nat : p + q = s /\ Has(u[i + 1].m, p, c) /\ Has(xs[(i + 1) + 1].m, q, c)
      <4>1. u[i + 1] \in AWcets /\ xs[(i + 1) + 1] \in AWcets
        BY <1>2, <3>1
      <4>2. Has(Union(u[i + 1], xs[(i + 1) + 1]).m, s, c) <=>
              \E p, q \in Nat : p + q = s /\ Has(u[i + 1].m, p, c) /\ Has(xs[(i + 1) + 1].m, q, c)
        BY <4>1, UnionLaw, Zenon
      <4> QED
        BY <3>2, <4>2, Zenon
    <3>4. \A p \in Nat : Has(u[i + 1].m, p, c) <=> \E v \in Vectors(i + 1) : TotalOf(v) = p /\ Takes(xs, i + 1, v, c)
      BY <2>3, <3>1
    <3>5. (\E v \in Vectors((i + 1) + 1) : TotalOf(v) = s /\ Takes(xs, (i + 1) + 1, v, c)) <=>
          (\E p, q \in Nat : /\ p + q = s /\ Has(xs[(i + 1) + 1].m, q, c)
                             /\ \E v \in Vectors(i + 1) : TotalOf(v) = p /\ Takes(xs, i + 1, v, c))
      BY <2>1, <3>1
    <3> HIDE DEF P
    <3> QED
      BY <3>3, <3>4, <3>5
  <2>4. Nat \subseteq P
    <3> HIDE DEF P
    <3> QED
      BY <2>2, <2>3, SetInduction
  <2>5. n - 1 \in Nat /\ (n - 1) + 1 = n
    BY <1>2 DEF Pos
  <2>6. Law(n)
    <3> HIDE DEF Law
    <3> QED
      BY <1>2, <2>4, <2>5
  <2> QED
    BY <1>1, <2>6
<1> QED
  BY <1>1, <1>2, <1>4

==============================================================================
