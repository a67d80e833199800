------------------------- MODULE WcetIterations_proofs -------------------------
(***************************************************************************)
(* An abstract WCET is relative to the innermost loop of its parts, for    *)
(* every nest of loops, all operands and every number of operations,        *)
(* although glb compares two loops only.                                   *)
(***************************************************************************)
EXTENDS WcetIterations, AbstractWcet_proofs, FiniteSetTheorems, TLAPS

\* The loops met are in the nest, and the one w is relative to is among them.
\* Without that, InnerLoop might close the loop of w.
IInv ==
  /\ inner \subseteq Named
  /\ w.loop \in inner \cup {LTop}
  /\ InnermostLoop

\* The lower bound of the loops of w and of a part relative to l.
LEMMA GlbOfNest ==
  ASSUME IInv, NEW l \in Named \cup {LTop}
  PROVE  LET g == Glb(w.loop, l) met == inner \cup ({l} \ {LTop})
         IN  /\ met \subseteq Named
             /\ g \in met \cup {LTop}
             /\ met = {} <=> g = LTop
             /\ \A o \in met : o = g \/ <<g, o>> \in Hier
<1>1. CASE ImmContained(l, w.loop)
  <2>1. Glb(w.loop, l) = l
    BY <1>1 DEF Glb
  <2>2. CASE w.loop = LTop
    BY <2>1, <2>2, NestAssumption DEF IInv, InnermostLoop
  <2>3. CASE w.loop # LTop
    <3>1. l # LTop /\ <<l, w.loop>> \in Hier
      BY <1>1, <2>3 DEF ImmContained
    <3>2. \A o \in inner : <<l, o>> \in Hier
      BY <2>3, <3>1, NestAssumption DEF IInv, InnermostLoop
    <3> QED
      BY <2>1, <2>3, <3>1, <3>2 DEF IInv, InnermostLoop
  <2> QED
    BY <2>2, <2>3
<1>2. CASE ~ImmContained(l, w.loop)
  <2>1. Glb(w.loop, l) = w.loop
    BY <1>2 DEF Glb
  <2>2. w.loop # LTop /\ (l = LTop \/ <<l, w.loop>> \notin Hier)
    BY <1>2 DEF ImmContained
  <2>3. l = LTop \/ l = w.loop \/ <<w.loop, l>> \in Hier
    BY <2>2, NestAssumption DEF IInv
  <2> QED
    BY <2>1, <2>2, <2>3 DEF IInv, InnermostLoop
<1> QED
  BY <1>1, <1>2

\* The loops of an operand of the algebra.
LEMMA OperandLoops ==
  ASSUME NEW x \in Operands \cup Exits
  PROVE  /\ x.loop \in Named \cup {LTop}
         /\ LoopsOf(x) = {x.loop} \ {LTop}
BY NestAssumption DEF LoopsOf

LEMMA InitInnermost == Init => IInv
<1> SUFFICES ASSUME Init PROVE IInv
  OBVIOUS
<1>1. w \in Operands \cup Exits /\ inner = LoopsOf(w)
  BY DEF Init
<1> QED
  BY <1>1, OperandLoops DEF IInv, InnermostLoop

\* A part that is added in sequence or as an alternative.
LEMMA AddPart ==
  ASSUME IInv, NEW x \in Operands, Sequence(x) \/ Alternative(x)
  PROVE  IInv'
<1>1. w'.loop = Glb(w.loop, x.loop)
  BY DEF Sequence, Alternative, Sum, Union, AWcet
<1>2. inner' = inner \cup ({x.loop} \ {LTop})
  BY OperandLoops DEF Sequence, Alternative
<1>3. x.loop \in Named \cup {LTop}
  BY OperandLoops
<1> QED
  BY <1>1, <1>2, <1>3, GlbOfNest DEF IInv, InnermostLoop

LEMMA KeepLoops ==
  ASSUME IInv, NEW c \in Factors, Product(c)
  PROVE  IInv'
<1>1. w'.loop = w.loop /\ inner' = inner
  BY DEF Product, Prod, AWcet
<1> QED
  BY <1>1 DEF IInv, InnermostLoop

LEMMA AddAnnotation ==
  ASSUME IInv, NEW l \in Named, NEW it \in Iterations, Annotate(l, it)
  PROVE  IInv'
<1>1. w'.loop = Glb(w.loop, l)
  BY DEF Annotate, Annot, AWcet
<1>2. inner' = inner \cup ({l} \ {LTop})
  BY NestAssumption DEF Annotate
<1> QED
  BY <1>1, <1>2, GlbOfNest DEF IInv, InnermostLoop

\* What is behind the loop is all that is left of the nest.
LEMMA LeaveLoop ==
  ASSUME IInv, NEW x \in Exits, NEW it \in Iterations, CloseLoop(x, it)
  PROVE  IInv'
<1>1. w'.loop = x.loop
  BY DEF CloseLoop, Pow, AWcet
<1>2. inner' = {x.loop} \ {LTop}
  BY OperandLoops DEF CloseLoop
<1>3. x.loop \in Named \cup {LTop}
  BY OperandLoops
<1> QED
  BY <1>1, <1>2, <1>3 DEF IInv, InnermostLoop

\* An inner loop is not the one w is relative to, so that pow packs.
LEMMA RunInnerLoop ==
  ASSUME IInv, NEW l \in Named, NEW x \in Exits, NEW it \in Iterations, InnerLoop(l, x, it)
  PROVE  IInv'
<1>1. w.loop # l
  BY NestAssumption DEF IInv, InnerLoop
<1>2. w'.loop = Glb(w.loop, x.loop)
  BY <1>1 DEF InnerLoop, Pow, AWcet
<1>3. inner' = inner \cup ({x.loop} \ {LTop})
  BY OperandLoops DEF InnerLoop
<1>4. x.loop \in Named \cup {LTop}
  BY OperandLoops
<1> QED
  BY <1>2, <1>3, <1>4, GlbOfNest DEF IInv, InnermostLoop

LEMMA StepInnermost == IInv /\ [Next]_vars => IInv'
<1> SUFFICES ASSUME IInv, [Next]_vars PROVE IInv'
  OBVIOUS
<1>1. CASE UNCHANGED vars
  BY <1>1 DEF vars, IInv, InnermostLoop
<1>2. ASSUME NEW x \in Operands, Sequence(x) \/ Alternative(x) PROVE IInv'
  BY <1>2, AddPart
<1>3. ASSUME NEW c \in Factors, Product(c) PROVE IInv'
  BY <1>3, KeepLoops
<1>4. ASSUME NEW l \in Named, NEW it \in Iterations, Annotate(l, it) PROVE IInv'
  BY <1>4, AddAnnotation
<1>5. ASSUME NEW x \in Exits, NEW it \in Iterations, CloseLoop(x, it) PROVE IInv'
  BY <1>5, LeaveLoop
<1>6. ASSUME NEW x \in Exits, NEW it \in Iterations, NEW l \in Named, InnerLoop(l, x, it)
      PROVE IInv'
  BY <1>6, RunInnerLoop
<1> QED
  BY <1>1, <1>2, <1>3, <1>4, <1>5, <1>6 DEF Next

\* However many loops nest and however the parts are put together, the result
\* of sum, union, prod, annot and pow is relative to the innermost loop of its
\* parts (Loops.glb).
THEOREM RelativeToInnermost == Spec => []InnermostLoop
<1>1. IInv => InnermostLoop
  BY DEF IInv
<1> QED
  BY InitInnermost, StepInnermost, <1>1, PTL DEF Spec

-----------------------------------------------------------------------------
(* The times of iterations                                                 *)

LEMMA SortedDecreases ==
  ASSUME NEW m \in MultiWcets
  PROVE  Sorted(m) <=> IsDecreasing(m)
<1>1. Len(m.wl) \in Nat /\ DOMAIN m.wl = 1..Len(m.wl)
  BY LenProperties DEF MultiWcets
<1>2. ASSUME NEW i \in Nat, i > Len(m.wl) PROVE Value(m, i) = m.last /\ Value(m, i + 1) = m.last
  <2>1. i + 1 \in Nat /\ i + 1 > Len(m.wl)
    BY <1>1, <1>2
  <2> QED
    BY <1>2, <2>1, ListLength
<1>3. \A i \in Nat \ {0} : Value(m, i) \in Nat
  BY ValueType
<1>4. m.last \in Nat
  BY DEF MultiWcets
<1>5. ASSUME Sorted(m), NEW i \in Nat \ {0} PROVE Value(m, i + 1) <= Value(m, i)
  <2>1. CASE i <= Len(m.wl)
    <3>1. i \in DOMAIN m.wl /\ i + 1 \in Nat \ {0}
      BY <1>1, <2>1
    <3>2. Value(m, i) >= Value(m, i + 1)
      BY <1>5, <3>1 DEF Sorted
    <3> QED
      BY <1>3, <3>1, <3>2
  <2>2. CASE ~(i <= Len(m.wl))
    BY <1>1, <1>2, <1>4, <2>2
  <2> QED
    BY <2>1, <2>2
<1>6. ASSUME IsDecreasing(m), NEW i \in DOMAIN m.wl PROVE Value(m, i) >= Value(m, i + 1)
  <2>1. i \in Nat \ {0} /\ i + 1 \in Nat \ {0}
    BY <1>1
  <2>2. Value(m, i + 1) <= Value(m, i)
    BY <1>6, <2>1 DEF IsDecreasing
  <2> QED
    BY <1>3, <2>1, <2>2
<1> QED
  BY <1>5, <1>6 DEF Sorted, IsDecreasing

LEMMA OperandsDecrease ==
  ASSUME NEW x \in Operands \cup Exits
  PROVE  x.m \in DecreasingWcets
<1>1. x.m \in MultiWcets /\ Sorted(x.m)
  BY OperandAssumption DEF MultiWcets
<1> QED
  BY <1>1, SortedDecreases DEF DecreasingWcets

\* The recursive definition of Time is the one of Total, up to k.
LEMMA TimeIsTotal ==
  ASSUME NEW m \in MultiWcets, NEW k \in Nat
  PROVE  Time(m, k) = Total(m)[k]
<1> DEFINE spent[i \in 0..k] == IF i = 0 THEN 0 ELSE spent[i - 1] + Value(m, i)
           t == [i \in 0..k |-> Total(m)[i]]
<1>1. t = [i \in 0..k |-> IF i = 0 THEN 0 ELSE t[i - 1] + Value(m, i)]
  <2> SUFFICES ASSUME NEW i \in 0..k
               PROVE  t[i] = IF i = 0 THEN 0 ELSE t[i - 1] + Value(m, i)
    OBVIOUS
  <2>1. Total(m)[0] = 0
    BY TotalStep
  <2>2. CASE i # 0
    <3>1. i - 1 \in Nat /\ i - 1 \in 0..k /\ (i - 1) + 1 = i
      BY <2>2
    <3>2. Total(m)[(i - 1) + 1] = Total(m)[i - 1] + Value(m, (i - 1) + 1)
      BY <3>1, TotalStep
    <3> QED
      BY <2>2, <3>1, <3>2
  <2> QED
    BY <2>1, <2>2
<1>2. spent = [i \in 0..k |-> IF i = 0 THEN 0 ELSE spent[i - 1] + Value(m, i)]
  <2>1. \E f : f = [i \in 0..k |-> IF i = 0 THEN 0 ELSE f[i - 1] + Value(m, i)]
    BY <1>1
  <2> QED
    BY <2>1
<1>3. Time(m, k) = spent[k]
  BY DEF Time
<1> HIDE DEF spent
<1>4. spent[0] = 0 /\ \A i \in Nat : i < k => spent[i + 1] = spent[i] + Value(m, i + 1)
  <2>1. spent[0] = 0
    BY <1>2
  <2>2. ASSUME NEW i \in Nat, i < k PROVE spent[i + 1] = spent[i] + Value(m, i + 1)
    <3>1. i + 1 \in 0..k /\ (i + 1) - 1 = i /\ i + 1 # 0
      BY <2>2
    <3> QED
      BY <1>2, <3>1
  <2> QED
    BY <2>1, <2>2
<1>5. k \in 0..k
  OBVIOUS
<1> QED
  BY <1>3, <1>4, <1>5, TotalUnique

\* The times known are the ones of the first iterations, and are the sums of
\* the values of w.  Pack is only reached because of IInv.
TimesInv ==
  /\ IInv
  /\ w.m \in DecreasingWcets
  /\ \E N \in Nat : time = [k \in 0..N |-> Total(w.m)[k]]

LEMMA TimesOfInv ==
  ASSUME TimesInv
  PROVE  Decreasing /\ IterationTimes
<1>1. w.m \in MultiWcets /\ IsDecreasing(w.m)
  BY DEF TimesInv, DecreasingWcets
<1>2. PICK N \in Nat : time = [k \in 0..N |-> Total(w.m)[k]]
  BY DEF TimesInv
<1>3. Decreasing
  BY <1>1, SortedDecreases DEF Decreasing
<1>4. IterationTimes
  <2> SUFFICES ASSUME NEW k \in DOMAIN time PROVE Time(w.m, k) = time[k]
    BY DEF IterationTimes
  <2>1. k \in 0..N /\ k \in Nat /\ time[k] = Total(w.m)[k]
    BY <1>2
  <2> QED
    BY <1>1, <2>1, TimeIsTotal
<1> QED
  BY <1>3, <1>4

LEMMA KnownTimes ==
  ASSUME NEW N \in Nat, DOMAIN time = 0..N
  PROVE  Known = N
<1>1. Cardinality(0..N) = N - 0 + 1
  BY FS_Interval
<1> QED
  BY <1>1 DEF Known

LEMMA InitTimes == Init => TimesInv
<1> SUFFICES ASSUME Init PROVE TimesInv
  OBVIOUS
<1>1. IInv
  BY InitInnermost
<1>2. w.m \in DecreasingWcets /\ Horizon \in Nat
  BY OperandsDecrease, OperandAssumption DEF Init
<1>3. time = [k \in 0..Horizon |-> Total(w.m)[k]]
  <2>1. \A k \in 0..Horizon : Time(w.m, k) = Total(w.m)[k]
    BY <1>2, TimeIsTotal DEF DecreasingWcets
  <2> QED
    BY <2>1 DEF Init
<1> QED
  BY <1>1, <1>2, <1>3 DEF TimesInv

\* Both parts of a sequence are spent in each iteration.
LEMMA SequenceTimes ==
  ASSUME TimesInv, NEW x \in Operands, Sequence(x)
  PROVE  TimesInv'
<1>1. IInv'
  BY AddPart DEF TimesInv
<1>2. x.m \in DecreasingWcets /\ w.m \in DecreasingWcets
  BY OperandsDecrease DEF TimesInv
<1>3. w'.m = SumMWcet(w.m, x.m)
  BY DEF Sequence, Sum, AWcet
<1>4. PICK N \in Nat : time = [k \in 0..N |-> Total(w.m)[k]]
  BY DEF TimesInv
<1>5. time' = [k \in 0..N |-> time[k] + Time(x.m, k)]
  BY <1>4 DEF Sequence
<1>6. ASSUME NEW k \in 0..N PROVE time'[k] = Total(w'.m)[k]
  <2>1. time'[k] = Total(w.m)[k] + Total(x.m)[k]
    BY <1>2, <1>4, <1>5, TimeIsTotal DEF DecreasingWcets
  <2> QED
    BY <1>2, <1>3, <2>1, SumTotal
<1>7. time' = [k \in 0..N |-> Total(w'.m)[k]]
  BY <1>5, <1>6
<1> QED
  BY <1>1, <1>2, <1>3, <1>7, SumValues DEF TimesInv

\* k iterations are shared out among the branches in the worst way.
LEMMA AlternativeTimes ==
  ASSUME TimesInv, NEW x \in Operands, Alternative(x)
  PROVE  TimesInv'
<1>1. IInv'
  BY AddPart DEF TimesInv
<1>2. x.m \in DecreasingWcets /\ w.m \in DecreasingWcets
  BY OperandsDecrease DEF TimesInv
<1>3. w'.m = UnionMWcet(w.m, x.m)
  BY DEF Alternative, Union, AWcet
<1>4. PICK N \in Nat : time = [k \in 0..N |-> Total(w.m)[k]]
  BY DEF TimesInv
<1>5. time' = [k \in 0..N |-> Max({time[i] + Time(x.m, k - i) : i \in 0..k})]
  BY <1>4 DEF Alternative
<1>6. ASSUME NEW k \in 0..N PROVE time'[k] = Total(w'.m)[k]
  <2> DEFINE S == {time[i] + Time(x.m, k - i) : i \in 0..k}
             top == Total(w'.m)[k]
  <2>1. \A i \in 0..k : time[i] + Time(x.m, k - i) = Total(w.m)[i] + Total(x.m)[k - i]
    BY <1>2, <1>4, TimeIsTotal DEF DecreasingWcets
  <2>2. IsWorstSplit(Total(w'.m), Total(w.m), Total(x.m), k)
    BY <1>2, <1>3, UnionValues
  <2>3. top \in S /\ \A y \in S : y <= top
    BY <2>1, <2>2 DEF IsWorstSplit
  <2>4. S \subseteq Nat
    <3>1. \A i \in 0..k : Total(w.m)[i] \in Nat /\ Total(x.m)[k - i] \in Nat
      BY <1>2, TotalStep DEF DecreasingWcets
    <3> QED
      BY <2>1, <3>1
  <2>5. Max(S) = top
    <3> HIDE DEF S, top
    <3>1. \A y \in S : y >= top /\ y <= top => y = top
      BY <2>3, <2>4
    <3>2. \A y \in S : top >= y
      BY <2>3, <2>4
    <3>3. Max(S) \in S /\ \A y \in S : Max(S) >= y
      BY <2>3, <3>2 DEF Max
    <3>4. Max(S) <= top
      BY <2>3, <3>3
    <3> QED
      BY <2>3, <3>1, <3>3, <3>4
  <2> QED
    BY <1>5, <2>5
<1>7. time' = [k \in 0..N |-> Total(w'.m)[k]]
  BY <1>5, <1>6
<1> QED
  BY <1>1, <1>2, <1>3, <1>7, UnionValues DEF TimesInv

LEMMA ProductTimes ==
  ASSUME TimesInv, NEW c \in Factors, Product(c)
  PROVE  TimesInv'
<1>1. IInv'
  BY KeepLoops DEF TimesInv
<1>2. w.m \in DecreasingWcets /\ c \in Nat
  BY OperandAssumption DEF TimesInv
<1>3. w'.m = ProdMWcet(c, w.m)
  BY DEF Product, Prod, AWcet
<1>4. PICK N \in Nat : time = [k \in 0..N |-> Total(w.m)[k]]
  BY DEF TimesInv
<1>5. time' = [k \in 0..N |-> c * time[k]]
  BY <1>4 DEF Product
<1>6. ASSUME NEW k \in 0..N PROVE time'[k] = Total(w'.m)[k]
  BY <1>2, <1>3, <1>4, <1>5, ProdTotal
<1>7. time' = [k \in 0..N |-> Total(w'.m)[k]]
  BY <1>5, <1>6
<1> QED
  BY <1>1, <1>2, <1>3, <1>7, ProdValues DEF TimesInv

\* An annotated part runs in the first it iterations at most.
LEMMA AnnotateTimes ==
  ASSUME TimesInv, NEW l \in Named, NEW it \in Iterations, Annotate(l, it)
  PROVE  TimesInv'
<1>1. IInv'
  BY AddAnnotation DEF TimesInv
<1>2. w.m \in DecreasingWcets /\ it \in Nat
  BY OperandAssumption DEF TimesInv
<1>3. w'.m = KeepFirst(it, w.m)
  BY DEF Annotate, Annot, AWcet
<1>4. PICK N \in Nat : time = [k \in 0..N |-> Total(w.m)[k]]
  BY DEF TimesInv
<1>5. time' = [k \in 0..N |-> time[IF k <= it THEN k ELSE it]]
  BY <1>4 DEF Annotate
<1>6. ASSUME NEW k \in 0..N PROVE time'[k] = Total(w'.m)[k]
  <2>1. (IF k <= it THEN k ELSE it) \in 0..N
    BY <1>2
  <2>2. time'[k] = Total(w.m)[IF k <= it THEN k ELSE it]
    BY <1>4, <1>5, <2>1
  <2> QED
    BY <1>2, <1>3, <2>2, KeepFirstTotal
<1>7. time' = [k \in 0..N |-> Total(w'.m)[k]]
  BY <1>5, <1>6
<1> QED
  BY <1>1, <1>2, <1>3, <1>7, KeepFirstValues DEF TimesInv

\* The loop closed spends its it iterations once per iteration of what
\* surrounds it.
LEMMA CloseLoopTimes ==
  ASSUME TimesInv, NEW x \in Exits, NEW it \in Iterations, CloseLoop(x, it)
  PROVE  TimesInv'
<1>1. IInv'
  BY LeaveLoop DEF TimesInv
<1>2. w.m \in DecreasingWcets /\ x.m \in DecreasingWcets /\ it \in Nat
  BY OperandAssumption, OperandsDecrease DEF TimesInv
<1> DEFINE c == ValSum(it, 0, w.m)
           body == MWcet(<<>>, c)
<1>3. w'.m = SumMWcet(body, x.m)
  BY DEF CloseLoop, Pow, AWcet
<1>4. PICK N \in Nat : time = [k \in 0..N |-> Total(w.m)[k]]
  BY DEF TimesInv
<1>5. it \in 0..N /\ time' = [k \in 0..N |-> k * time[it] + Time(x.m, k)]
  BY <1>2, <1>4, KnownTimes DEF CloseLoop
<1>6. c \in Nat /\ time[it] = c
  <2>1. c \in Nat /\ Total(w.m)[0 + it] = Total(w.m)[0] + c
    BY <1>2, ValSumOfTotal DEF DecreasingWcets
  <2>2. 0 + it = it /\ Total(w.m)[0] = 0
    BY <1>2, TotalStep DEF DecreasingWcets
  <2> HIDE DEF c
  <2> QED
    BY <1>4, <1>5, <2>1, <2>2
<1> HIDE DEF c
<1>7. body \in DecreasingWcets
  BY <1>6, ValueOfConstant DEF DecreasingWcets
<1>8. ASSUME NEW k \in 0..N PROVE time'[k] = Total(w'.m)[k]
  <2>1. time'[k] = k * c + Total(x.m)[k]
    BY <1>2, <1>5, <1>6, TimeIsTotal DEF DecreasingWcets
  <2>2. Total(body)[k] = k * c
    BY <1>6, ConstantTotal
  <2>3. Total(SumMWcet(body, x.m))[k] = Total(body)[k] + Total(x.m)[k]
    BY <1>2, <1>7, SumTotal
  <2> QED
    BY <1>3, <2>1, <2>2, <2>3
<1>9. time' = [k \in 0..N |-> Total(w'.m)[k]]
  BY <1>5, <1>8
<1>10. w'.m \in DecreasingWcets
  BY <1>2, <1>3, <1>7, SumValues
<1> QED
  BY <1>1, <1>9, <1>10 DEF TimesInv

\* The iterations n of the surrounding loop that take n * i known ones of the
\* inner loop are the first ones.
LEMMA KnownMultiples ==
  ASSUME NEW N \in Nat, NEW i \in Nat
  PROVE  \E M \in Nat : {n \in 0..N : n * i <= N} = 0..M
<1>1. CASE i = 0
  <2>1. \A n \in 0..N : n * i = 0
    BY <1>1
  <2>2. {n \in 0..N : n * i <= N} = 0..N
    BY <2>1
  <2> QED
    BY <2>2
<1>2. CASE i # 0
  <2> DEFINE T == {n \in Nat : n * i > N}
  <2>1. \A n \in Nat : n * i \in Nat /\ n <= n * i
    BY <1>2
  <2>2. N + 1 \in T
    <3>1. (N + 1) * i \in Nat /\ N + 1 <= (N + 1) * i
      BY <2>1
    <3> QED
      BY <3>1
  <2>3. PICK b \in T : \A n \in T : b <= n
    <3>1. T \subseteq Nat
      OBVIOUS
    <3> HIDE DEF T
    <3> QED
      BY <2>2, <3>1, LeastNatural
  <2>4. b # 0 /\ b - 1 \in Nat
    <3>1. 0 * i = 0
      OBVIOUS
    <3> QED
      BY <2>3, <3>1
  <2>5. ASSUME NEW n \in Nat, n >= b PROVE n * i > N
    <3>1. n * i >= b * i
      BY <2>3, <2>5, TimesMonotone
    <3> QED
      BY <2>1, <2>3, <3>1
  <2>6. ASSUME NEW n \in 0..(b - 1) PROVE n \in 0..N /\ n * i <= N
    <3>1. n \in Nat /\ n \notin T
      BY <2>3, <2>4
    <3>2. n * i <= N
      BY <2>1, <3>1
    <3> QED
      BY <2>1, <3>1, <3>2
  <2>7. {n \in 0..N : n * i <= N} = 0..(b - 1)
    <3>1. ASSUME NEW n \in 0..N, n * i <= N PROVE n \in 0..(b - 1)
      <4>1. ~ (n >= b)
        BY <2>1, <2>5, <3>1
      <4> QED
        BY <2>3, <4>1
    <3> QED
      BY <2>6, <3>1
  <2> QED
    BY <2>4, <2>7
<1> QED
  BY <1>1, <1>2

\* An inner loop spends it values per iteration of the loop around it.
LEMMA InnerLoopTimes ==
  ASSUME TimesInv, NEW l \in Named, NEW x \in Exits, NEW it \in Iterations, InnerLoop(l, x, it)
  PROVE  TimesInv'
<1>1. IInv'
  BY RunInnerLoop DEF TimesInv
<1>2. w.m \in DecreasingWcets /\ x.m \in DecreasingWcets /\ it \in Nat
  BY OperandAssumption, OperandsDecrease DEF TimesInv
<1>3. w'.m = SumMWcet(Pack(it, w.m), x.m)
  <2>1. w.loop # l
    BY NestAssumption DEF TimesInv, IInv, InnerLoop
  <2> QED
    BY <2>1 DEF InnerLoop, Pow, AWcet
<1>4. PICK N \in Nat : time = [k \in 0..N |-> Total(w.m)[k]]
  BY DEF TimesInv
<1>5. PICK M \in Nat : {n \in 0..N : n * it <= N} = 0..M
  BY <1>2, KnownMultiples
<1>6. time' = [k \in 0..M |-> time[k * it] + Time(x.m, k)]
  <2>1. {n \in DOMAIN time : n * it <= Known} = 0..M
    BY <1>4, <1>5, KnownTimes
  <2> QED
    BY <2>1 DEF InnerLoop
<1>7. Pack(it, w.m) \in DecreasingWcets
  BY <1>2, PackValues
<1>8. ASSUME NEW k \in 0..M PROVE time'[k] = Total(w'.m)[k]
  <2>1. k * it \in 0..N /\ k \in Nat
    <3>1. k * it <= N
      BY <1>5
    <3>2. k * it \in Nat
      BY <1>2
    <3> QED
      BY <3>1, <3>2
  <2>2. time'[k] = Total(w.m)[k * it] + Total(x.m)[k]
    BY <1>2, <1>4, <1>6, <2>1, TimeIsTotal DEF DecreasingWcets
  <2>3. Total(Pack(it, w.m))[k] = Total(w.m)[k * it]
    BY <1>2, <2>1, PackTotal
  <2>4. Total(SumMWcet(Pack(it, w.m), x.m))[k] = Total(Pack(it, w.m))[k] + Total(x.m)[k]
    BY <1>2, <1>7, <2>1, SumTotal
  <2> QED
    BY <1>3, <2>2, <2>3, <2>4
<1>9. time' = [k \in 0..M |-> Total(w'.m)[k]]
  BY <1>6, <1>8
<1>10. w'.m \in DecreasingWcets
  BY <1>2, <1>3, <1>7, SumValues
<1> QED
  BY <1>1, <1>9, <1>10 DEF TimesInv

LEMMA StepTimes == TimesInv /\ [Next]_vars => TimesInv'
<1> SUFFICES ASSUME TimesInv, [Next]_vars PROVE TimesInv'
  OBVIOUS
<1>1. CASE UNCHANGED vars
  BY <1>1 DEF vars, TimesInv, IInv, InnermostLoop
<1>2. ASSUME NEW x \in Operands, Sequence(x) PROVE TimesInv'
  BY <1>2, SequenceTimes
<1>3. ASSUME NEW x \in Operands, Alternative(x) PROVE TimesInv'
  BY <1>3, AlternativeTimes
<1>4. ASSUME NEW c \in Factors, Product(c) PROVE TimesInv'
  BY <1>4, ProductTimes
<1>5. ASSUME NEW l \in Named, NEW it \in Iterations, Annotate(l, it) PROVE TimesInv'
  BY <1>5, AnnotateTimes
<1>6. ASSUME NEW x \in Exits, NEW it \in Iterations, CloseLoop(x, it) PROVE TimesInv'
  BY <1>6, CloseLoopTimes
<1>7. ASSUME NEW x \in Exits, NEW it \in Iterations, NEW l \in Named, InnerLoop(l, x, it)
      PROVE TimesInv'
  BY <1>7, InnerLoopTimes
<1> QED
  BY <1>1, <1>2, <1>3, <1>4, <1>5, <1>6, <1>7 DEF Next

\* sum, union, prod, annot and pow keep the order their operands are in, which
\* union and insert rely on (abstract_wcet.ml).
THEOREM ListsDecrease == Spec => []Decreasing
<1>1. TimesInv => Decreasing
  BY TimesOfInv
<1> QED
  BY InitTimes, StepTimes, <1>1, PTL DEF Spec

\* The algebra is exact: whatever the lists, the numbers of iterations and the
\* order of the operations, k iterations of the loop an abstract WCET is
\* relative to spend the sum of its first k values.
THEOREM TimesAreExact == Spec => []IterationTimes
<1>1. TimesInv => IterationTimes
  BY TimesOfInv
<1> QED
  BY InitTimes, StepTimes, <1>1, PTL DEF Spec
==============================================================================
