---------------------------- MODULE AbstractWcet ----------------------------
(***************************************************************************)
(* The algebra of abstract WCETs (simplify/abstract_wcet.ml and the loop   *)
(* order of simplify/loops.ml).  A multi-WCET is a decreasing list of      *)
(* values whose last value is repeated for ever; an abstract WCET pairs it *)
(* with the loop it is relative to.                                        *)
(*                                                                         *)
(* Recursive functions of the source are recursive functions over the      *)
(* position reached in the lists.                                          *)
(***************************************************************************)
EXTENDS Integers, Sequences, SequencesExt

CONSTANTS
  LTop,   \* the pseudo loop outside of every loop
  Hier    \* the pairs <<inner, outer>> of the loop hierarchy table

MWcet(wl, last) == [wl |-> wl, last |-> last]
AWcet(loop, m) == [loop |-> loop, m |-> m]
Bot == AWcet(LTop, MWcet(<<>>, 0))

\* The value at position i: hd after i - 1 times tl.
Value(m, i) == IF i <= Len(m.wl) THEN m.wl[i] ELSE m.last

-----------------------------------------------------------------------------
(* Loops                                                                   *)

ImmContained(l1, l2) ==
  \/ l2 = LTop
  \/ l1 # LTop /\ <<l1, l2>> \in Hier

Glb_First(l1, l2) == l1
Glb(l1, l2) == IF ImmContained(l2, l1) THEN l2 ELSE l1

-----------------------------------------------------------------------------
(* Multi-WCETs                                                             *)

\* List.merge of a decreasing list with [w]: w goes behind its equals.
MergeOne(wl, w) ==
  LET p == CHOOSE k \in 0..Len(wl) :
             /\ \A i \in 1..k : wl[i] >= w
             /\ k < Len(wl) => wl[k + 1] < w
  IN  InsertAt(wl, p + 1, w)

Insert(w, m) ==
  IF w > m.last
  THEN MWcet(MergeOne(m.wl, w), m.last)
  ELSE MWcet(MergeOne(m.wl, m.last), w)

SumMWcet(a, b) ==
  LET n == IF Len(a.wl) >= Len(b.wl) THEN Len(a.wl) ELSE Len(b.wl)
      from[k \in 1..(n + 1)] ==
        IF k = n + 1
        THEN MWcet(<<>>, a.last + b.last)
        ELSE Insert(Value(a, k) + Value(b, k), from[k + 1])
  IN  from[1]

UnionMWcet(a, b) ==
  LET aEnd == Len(a.wl) + 1
      bEnd == Len(b.wl) + 1
      from[p \in (1..aEnd) \X (1..bEnd)] ==
        LET i == p[1]
            j == p[2]
        IN  IF i = aEnd /\ j = bEnd
            THEN MWcet(<<>>, IF a.last >= b.last THEN a.last ELSE b.last)
            ELSE IF i = aEnd
            THEN IF a.last >= b.wl[j] THEN MWcet(<<>>, a.last)
                                      ELSE Insert(b.wl[j], from[<<i, j + 1>>])
            ELSE IF j = bEnd
            THEN IF b.last >= a.wl[i] THEN MWcet(<<>>, b.last)
                                      ELSE Insert(a.wl[i], from[<<i + 1, j>>])
            ELSE IF a.wl[i] >= b.wl[j] THEN Insert(a.wl[i], from[<<i + 1, j>>])
                                       ELSE Insert(b.wl[j], from[<<i, j + 1>>])
  IN  from[<<1, 1>>]

ProdMWcet_KeepLast(k, m) == MWcet([i \in DOMAIN m.wl |-> m.wl[i] * k], m.last)
ProdMWcet(k, m) == MWcet([i \in DOMAIN m.wl |-> m.wl[i] * k], k * m.last)

KeepFirst(n, m) ==
  LET from[k \in 0..n] ==
        IF k = n THEN MWcet(<<>>, 0) ELSE Insert(Value(m, k + 1), from[k + 1])
  IN  from[0]

\* The sum of k values of m behind its first d values.
ValSum(k, d, m) ==
  LET upto[i \in 0..k] == IF i = 0 THEN 0 ELSE upto[i - 1] + Value(m, d + i)
  IN  upto[k]

Pack_Overlap(k, m) ==
  LET n == Len(m.wl)
      from[d \in 0..(n + 1)] ==
        IF d >= n THEN MWcet(<<>>, ValSum(k, n, m))
        ELSE Insert(ValSum(k, d, m), from[d + 1])
  IN  IF k = 0 THEN MWcet(<<>>, 0) ELSE from[0]

Pack(k, m) ==
  LET n == Len(m.wl)
      from[d \in 0..(n + k)] ==     \* d values have been dropped by ktl
        IF d >= n
        THEN MWcet(<<>>, ValSum(k, n, m))
        ELSE Insert(ValSum(k, d, m), from[d + k])
  IN  IF k = 0 THEN MWcet(<<>>, 0) ELSE from[0]

-----------------------------------------------------------------------------
(* Abstract WCETs                                                          *)

Sum(x, y) == AWcet(Glb(x.loop, y.loop), SumMWcet(x.m, y.m))
Union(x, y) == AWcet(Glb(x.loop, y.loop), UnionMWcet(x.m, y.m))
Prod(k, x) == AWcet(x.loop, ProdMWcet(k, x.m))
Annot(x, l, it) == AWcet(Glb(x.loop, l), KeepFirst(it, x.m))

Pow(body, exit, l, it) ==
  IF body.loop = l
  THEN AWcet(exit.loop, SumMWcet(MWcet(<<>>, ValSum(it, 0, body.m)), exit.m))
  ELSE AWcet(Glb(body.loop, exit.loop), SumMWcet(Pack(it, body.m), exit.m))

(* The result of a sequence or an alternative of several parts, which are   *)
(* combined from the left.  Sums(xs)[i] is that of the first i parts.        *)

Sums(xs) ==
  LET upto[i \in DOMAIN xs] == IF i = 1 THEN xs[1] ELSE Sum(upto[i - 1], xs[i])
  IN  upto
SumAll(xs) == Sums(xs)[Len(xs)]

Unions(xs) ==
  LET upto[i \in DOMAIN xs] == IF i = 1 THEN xs[1] ELSE Union(upto[i - 1], xs[i])
  IN  upto
UnionAll(xs) == Unions(xs)[Len(xs)]

=============================================================================
