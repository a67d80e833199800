------------------------ MODULE PwcetSoundness_proofs ------------------------
(***************************************************************************)
(* The answers of the runtime, for every plain formula, valuation and loop  *)
(* hierarchy, and any number of calls: the list a call leaves is nowhere    *)
(* below the one of the algebra, and equal to it after the first call.      *)
(*                                                                         *)
(* 1. The laws of the functions awcet_seq, awcet_alt and awcet_loop, of     *)
(* headers and arrays alone: one step of a loop keeps the relation between  *)
(* what it has accumulated and a partial result of the algebra.             *)
(*                                                                         *)
(* 2. Where things are.  The node whose function runs writes to its own     *)
(* header and its own array; because formulas are trees, the operands that  *)
(* have been evaluated, and the arrays their headers point to, are apart    *)
(* from it.  So they keep the values they have been given.  An annotation   *)
(* that shares the array of its operand writes what is there.               *)
(*                                                                         *)
(* 3. Before the first visit the arrays of the sequences are zero, which    *)
(* the clearing of awcet_seq needs to be exact; later it is only known that *)
(* they are not negative.                                                   *)
(***************************************************************************)
EXTENDS PwcetSoundness, PwcetRuntime_proofs

AP == INSTANCE AbstractWcet_proofs WITH LTop <- LOOP_TOP

-----------------------------------------------------------------------------
(* The algebra                                                             *)

V(m, i) == AP!Value(m, i)

\* The algebra of the soundness properties is the one that is proved about.
LEMMA SameAlgebra ==
  /\ \A m, i : Algebra!Value(m, i) = V(m, i)
  /\ \A w, l : Algebra!MWcet(w, l) = AP!MWcet(w, l)
  /\ \A l, m : Algebra!AWcet(l, m) = AP!AWcet(l, m)
  /\ \A x, l, n : Algebra!Pow(x, Algebra!Bot, l, n) = AP!Pow(x, AP!Bot, l, n)
  /\ Algebra!Bot = AP!Bot
  /\ \A k, x : Algebra!Prod(k, x) = AP!Prod(k, x)
  /\ \A x, l, n : Algebra!Annot(x, l, n) = AP!Annot(x, l, n)
  /\ \A l, k : Algebra!Glb(l, k) = AP!Glb(l, k)
  /\ \A xs : Algebra!SumAll(xs) = AP!SumAll(xs)
  /\ \A xs : Algebra!UnionAll(xs) = AP!UnionAll(xs)
<1> USE DEF Algebra!Insert, AP!Insert, Algebra!MergeOne, AP!MergeOne, Algebra!MWcet, AP!MWcet,
            Algebra!Value, AP!Value, Algebra!InsertAt, AP!InsertAt, Algebra!AWcet, AP!AWcet,
            Algebra!Glb, AP!Glb, Algebra!ImmContained, AP!ImmContained
<1>1. \A m, i : Algebra!Value(m, i) = V(m, i)
  BY DEF V
<1>2. \A a, b : Algebra!SumMWcet(a, b) = AP!SumMWcet(a, b)
  BY DEF Algebra!SumMWcet, AP!SumMWcet
<1>3. \A a, b : Algebra!UnionMWcet(a, b) = AP!UnionMWcet(a, b)
  BY DEF Algebra!UnionMWcet, AP!UnionMWcet
<1>4. \A k, m : Algebra!ProdMWcet(k, m) = AP!ProdMWcet(k, m)
  BY DEF Algebra!ProdMWcet, AP!ProdMWcet
<1>5. \A k, d, m : Algebra!ValSum(k, d, m) = AP!ValSum(k, d, m)
  BY DEF Algebra!ValSum, AP!ValSum
<1>6. \A k, m : Algebra!Pack(k, m) = AP!Pack(k, m)
  BY DEF Algebra!Pack, AP!Pack, Algebra!ValSum, AP!ValSum
<1>7. Algebra!Bot = AP!Bot
  BY DEF Algebra!Bot, AP!Bot
<1>8. /\ \A w, l : Algebra!MWcet(w, l) = AP!MWcet(w, l)
      /\ \A l, m : Algebra!AWcet(l, m) = AP!AWcet(l, m)
      /\ \A l, k : Algebra!Glb(l, k) = AP!Glb(l, k)
  OBVIOUS
<1>9. \A x, y : Algebra!Sum(x, y) = AP!Sum(x, y) /\ Algebra!Union(x, y) = AP!Union(x, y)
  BY <1>2, <1>3, Zenon DEF Algebra!Sum, AP!Sum, Algebra!Union, AP!Union
<1>10. \A x, l, n : Algebra!Pow(x, Algebra!Bot, l, n) = AP!Pow(x, AP!Bot, l, n)
  BY <1>2, <1>5, <1>6, <1>7, Zenon DEF Algebra!Pow, AP!Pow
<1>11. \A k, x : Algebra!Prod(k, x) = AP!Prod(k, x)
  BY <1>4, Zenon DEF Algebra!Prod, AP!Prod
<1>12. \A xs : Algebra!Sums(xs) = AP!Sums(xs) /\ Algebra!Unions(xs) = AP!Unions(xs)
  BY <1>9, Zenon DEF Algebra!Sums, AP!Sums, Algebra!Unions, AP!Unions
<1>13. \A xs : Algebra!SumAll(xs) = AP!SumAll(xs) /\ Algebra!UnionAll(xs) = AP!UnionAll(xs)
  BY <1>12, Zenon DEF Algebra!SumAll, AP!SumAll, Algebra!UnionAll, AP!UnionAll
<1>14. \A k, m : Algebra!KeepFirst(k, m) = AP!KeepFirst(k, m)
  BY DEF Algebra!KeepFirst, AP!KeepFirst
<1>15. \A x, l, n : Algebra!Annot(x, l, n) = AP!Annot(x, l, n)
  BY <1>8, <1>14, Zenon DEF Algebra!Annot, AP!Annot
<1> QED
  BY <1>1, <1>7, <1>8, <1>10, <1>11, <1>13, <1>15, Zenon

LEMMA SameTotals ==
  /\ \A s : AP!TotalOf(s) = TotalOf(s)
  /\ \A n : AP!Vectors(n) = Vectors(n)
  /\ AP!Pos = Nat \ {0}
  /\ LOOP_TOP \in Int
BY DEF AP!TotalOf, TotalOf, AP!Vectors, Vectors, AP!Pos, LOOP_TOP

\* The loop a sequence or an alternative keeps is the greatest lower bound.
LEMMA InnerGlb == \A l, k : Innermost(k, l) = AP!Glb(l, k)
BY DEF AP!Glb, AP!ImmContained, LoopInner, Innermost

-----------------------------------------------------------------------------
(* The abstract WCETs of the nodes of a plain formula                      *)

\* What Plain and the assumptions say of one node.
LEMMA PlainFacts ==
  ASSUME NEW frm \in Formulas, Plain(frm), NEW n \in Nodes
  PROVE  LET f == frm[n] IN
         /\ f.kind \in {"SEQ", "ALT", "LOOP", "PARAM_LOOP", "BOOLMULT", "ANN", "AWCET", "CONST"}
         /\ f.loop \in Int /\ f.kids \in Seq(Nodes)
         /\ f.kind \in {"SEQ", "ALT"} => f.kids # <<>>
         /\ f.kind \in {"LOOP", "PARAM_LOOP", "BOOLMULT", "ANN"} => Len(f.kids) = 1
         /\ f.kind \in {"CONST", "AWCET"} => f.kids = <<>>
         /\ f.kind = "AWCET" => f.param \in Params
         /\ f.kind = "CONST" => f.eta \in Seq(Int) /\ f.others \in Nat /\ Decreasing(f.eta, f.others)
<1> DEFINE f == frm[n]
<1>1. /\ f.kind # "INTMULT"
      /\ f.kind = "CONST" => f.others >= 0 /\ Decreasing(f.eta, f.others)
  BY DEF Plain
<1>2. /\ f.kind \in Kinds /\ f.kids \in Seq(Nodes) /\ f.loop \in LoopIds
      /\ f.eta \in Seq(Int) /\ f.others \in Int /\ Arity(f)
  BY FormulaFacts
<1>3. f.loop \in Int
  BY <1>2, RuntimeAssumption, SameTotals DEF LoopIds
<1> HIDE DEF f
<1>4. f.kind \in {"SEQ", "ALT", "LOOP", "PARAM_LOOP", "BOOLMULT", "ANN", "AWCET", "CONST"}
  BY <1>1, <1>2 DEF Kinds
<1>5. /\ f.kind \in {"SEQ", "ALT"} => f.kids # <<>>
      /\ f.kind \in {"LOOP", "PARAM_LOOP", "BOOLMULT", "ANN"} => Len(f.kids) = 1
      /\ f.kind \in {"CONST", "AWCET"} => f.kids = <<>>
      /\ f.kind = "AWCET" => f.param \in Params
  BY <1>2 DEF Arity
<1> QED
  BY <1>1, <1>2, <1>3, <1>4, <1>5 DEF f

\* What the callback answers for a callee of a plain formula.
LEMMA PlainCallee ==
  ASSUME NEW frm \in Formulas, Plain(frm), NEW n \in Nodes, frm[n].kind = "AWCET",
         NEW v \in Valuations
  PROVE  LET p == v.aw[frm[n].param] IN
         /\ p.header /\ p.loop \in Int /\ p.cnt \in Nat /\ p.others \in Nat
         /\ p.eta \in Lists \cup {NULL}
         /\ p.cnt # 0 => p.eta \in Lists /\ p.cnt <= Len(ListValues[p.eta])
                         /\ ListValues[p.eta] \in Seq(Int)
         /\ Given(p) \in Seq(Int) /\ Len(Given(p)) = p.cnt
         /\ \A j \in 1..p.cnt : Given(p)[j] = ListValues[p.eta][j]
         /\ Decreasing(Given(p), p.others)
<1> DEFINE p == v.aw[frm[n].param]
           R == [loop : LoopIds, cnt : Nat, eta : Lists \cup {NULL}, others : Nat,
                 header : BOOLEAN]
           B == [Params -> Int]
           A == [Params -> [loop : LoopIds, count : Int]]
           X == [Forms -> Int]
<1>1. frm[n].param \in Params
  BY PlainFacts
<1>2. v \in Valuation
  BY RuntimeAssumption
<1>3. Decreasing(Given(p), p.others)
  BY DEF Plain
<1>4. p.header /\ (p.cnt = 0 \/ (p.eta # NULL /\ p.cnt <= Len(ListValues[p.eta])))
  <2>1. Fits(frm)
    BY DEF Plain
  <2> QED
    BY <2>1 DEF Fits
<1>5. p \in R
  <2> HIDE DEF R, B, A, X
  <2>1. v \in [bound : B, ann : A, aw : [Params -> R], form : X]
    BY <1>2 DEF Valuation, R, B, A, X
  <2>2. v.aw \in [Params -> R]
    BY <2>1
  <2> QED
    BY <1>1, <2>2
<1> HIDE DEF p
<1>6. p.loop \in LoopIds /\ p.cnt \in Nat /\ p.others \in Nat /\ p.eta \in Lists \cup {NULL}
  BY <1>5
<1>7. p.loop \in Int
  <2>1. LoopIds \subseteq Int
    BY RuntimeAssumption, SameTotals DEF LoopIds
  <2> QED
    BY <1>6, <2>1
<1>8. p.cnt # 0 => p.eta \in Lists /\ p.cnt <= Len(ListValues[p.eta])
                   /\ ListValues[p.eta] \in Seq(Int)
  <2>1. ListValues \in [Lists -> Seq(Int)]
    BY RuntimeAssumption
  <2> QED
    BY <1>4, <1>6, <2>1
<1>9. /\ Given(p) \in Seq(Int) /\ Len(Given(p)) = p.cnt
      /\ \A j \in 1..p.cnt : Given(p)[j] = ListValues[p.eta][j]
  <2>1. CASE p.cnt = 0
    BY <2>1 DEF Given
  <2>2. CASE p.cnt # 0
    <3> DEFINE s == ListValues[p.eta]
               k == p.cnt
    <3>1. s \in Seq(Int) /\ k \in Nat /\ k # 0 /\ k <= Len(s) /\ Given(p) = SubSeq(s, 1, k)
      BY <1>6, <1>8, <2>2 DEF Given
    <3> HIDE DEF s, k
    <3>2. /\ SubSeq(s, 1, k) \in Seq(Int) /\ Len(SubSeq(s, 1, k)) = k
          /\ \A j \in 1..k : SubSeq(s, 1, k)[j] = s[j]
      BY <3>1
    <3> QED
      BY <3>1, <3>2 DEF s, k
  <2> QED
    BY <2>1, <2>2
<1> QED
  BY <1>3, <1>4, <1>6, <1>7, <1>8, <1>9 DEF p

LEMMA Iterates ==
  ASSUME NEW frm \in Formulas, NEW v \in Valuations, NEW n \in Nodes,
         frm[n].kind \in {"LOOP", "PARAM_LOOP"}
  PROVE  Iterations(v, frm[n]) \in Nat
<1>1. v \in Valuation
  BY RuntimeAssumption
<1>2. /\ frm[n].kind = "LOOP" => frm[n].loop \in Loops
      /\ frm[n].param \in Params \cup {IDENT_NONE} /\ frm[n].form \in Forms
  BY FormulaFacts DEF Arity
<1>3. /\ v.bound \in [Params -> Int] /\ v.form \in [Forms -> Int] /\ LoopBounds \in [Loops -> Nat]
  BY <1>1, RuntimeAssumption DEF Valuation
<1> QED
  BY <1>2, <1>3 DEF Iterations

\* What the callback or the table answers for an annotation.
LEMMA AnnTypes ==
  ASSUME NEW frm \in Formulas, Plain(frm), NEW v \in Valuations, NEW n \in Nodes,
         frm[n].kind = "ANN"
  PROVE  AnnOf(v, frm[n]).loop \in Int /\ AnnOf(v, frm[n]).count \in Nat \cup {-1}
<1>1. /\ frm[n].param \in Params \cup {IDENT_NONE} /\ frm[n].loop \in LoopIds
      /\ frm[n].count \in Int
  BY FormulaFacts
<1>2. v.ann \in [Params -> [loop : LoopIds, count : Int]]
  BY RuntimeAssumption DEF Valuation
<1>3. LoopIds \subseteq Int
  BY RuntimeAssumption, SameTotals DEF LoopIds
<1>4. AnnOf(v, frm[n]).loop \in Int /\ AnnOf(v, frm[n]).count \in Int
  <2>1. CASE frm[n].param = IDENT_NONE
    BY <1>1, <1>3, <2>1 DEF AnnOf
  <2>2. CASE frm[n].param # IDENT_NONE
    BY <1>1, <1>2, <1>3, <2>2 DEF AnnOf
  <2> QED
    BY <2>1, <2>2
<1>5. -1 <= AnnOf(v, frm[n]).count
  <2>1. Fits(frm)
    BY DEF Plain
  <2> QED
    BY <2>1 DEF Fits
<1> QED
  BY <1>4, <1>5

\* The header c_formula_rec prints for a constant.
ConstHeader(frm, n) ==
  [loop |-> frm[n].loop, cnt |-> Len(frm[n].eta),
   eta |-> IF frm[n].eta = <<>> THEN NULL ELSE n, others |-> frm[n].others]

\* A decreasing list of a constant or of a callee is one of the algebra.
LEMMA ListMeaning ==
  ASSUME NEW e \in Seq(Int), NEW o \in Nat, Decreasing(e, o)
  PROVE  LET m == AP!MWcet(e, o) IN
         /\ m \in AP!DecreasingWcets /\ e \in Seq(Nat) /\ Len(e) \in Nat
         /\ \A j \in Nat : V(m, j + 1) = IF j < Len(e) THEN e[j + 1] ELSE o
<1> DEFINE m == AP!MWcet(e, o)
<1>1. /\ Len(e) \in Nat /\ DOMAIN e = 1..Len(e)
      /\ \A i \in DOMAIN e : e[i] \in Int /\ e[i] >= o /\ \A j \in 1..i : e[j] >= e[i]
  BY LenProperties, ElementOfSeq DEF Decreasing
<1>2. e \in Seq(Nat)
  <2>1. e \in [1..Len(e) -> Nat]
    BY <1>1, LenProperties
  <2> QED
    BY <1>1, <2>1
<1>3. m \in AP!MultiWcets /\ m.wl = e /\ m.last = o
  BY <1>2 DEF AP!MultiWcets, AP!MWcet
<1> HIDE DEF m
<1>4. \A i \in Nat \ {0} : V(m, i) = IF i <= Len(e) THEN e[i] ELSE o
  BY <1>3 DEF V, AP!Value
<1>5. ASSUME NEW i \in Nat \ {0}
      PROVE  V(m, i + 1) <= V(m, i)
  <2>1. i + 1 <= Len(e) => i + 1 \in DOMAIN e /\ i \in 1..(i + 1) /\ i <= Len(e)
    BY <1>1
  <2>2. i <= Len(e) => i \in DOMAIN e
    BY <1>1
  <2> QED
    BY <1>1, <1>4, <2>1, <2>2
<1>6. m \in AP!DecreasingWcets
  BY <1>3, <1>5 DEF AP!DecreasingWcets, AP!IsDecreasing, V
<1>7. \A j \in Nat : V(m, j + 1) = IF j < Len(e) THEN e[j + 1] ELSE o
  BY <1>1, <1>4
<1> QED
  BY <1>1, <1>2, <1>6, <1>7 DEF m

LEMMA ConstMeaning ==
  ASSUME NEW frm \in Formulas, Plain(frm), NEW n \in Nodes, frm[n].kind = "CONST"
  PROVE  LET m == AP!MWcet(frm[n].eta, frm[n].others) IN
         /\ m \in AP!DecreasingWcets /\ frm[n].eta \in Seq(Nat) /\ frm[n].others \in Nat
         /\ \A j \in Nat : V(m, j + 1) = IF j < Len(frm[n].eta) THEN frm[n].eta[j + 1]
                                                           ELSE frm[n].others
<1> DEFINE e == frm[n].eta
           o == frm[n].others
<1>1. e \in Seq(Int) /\ o \in Nat /\ Decreasing(e, o)
  BY PlainFacts
<1> HIDE DEF e, o
<1> QED
  BY <1>1, ListMeaning DEF e, o

\* The abstract WCETs of the operands of n, for those of the nodes.
Parts(frm, n, den) == [i \in DOMAIN frm[n].kids |-> den[frm[n].kids[i]]]

LEMMA PartsLaw ==
  ASSUME NEW frm \in Formulas, Plain(frm), NEW n \in Nodes, NEW den,
         \A i \in DOMAIN frm[n].kids : den[frm[n].kids[i]] \in AP!AWcets
  PROVE  LET xs == Parts(frm, n, den) IN
         /\ Len(frm[n].kids) \in Nat /\ DOMAIN frm[n].kids = 1..Len(frm[n].kids)
         /\ Len(xs) = Len(frm[n].kids)
         /\ \A i \in DOMAIN frm[n].kids : xs[i] = den[frm[n].kids[i]] /\ xs[i] \in AP!AWcets
         /\ frm[n].kind \in {"SEQ", "ALT", "LOOP", "PARAM_LOOP", "BOOLMULT", "ANN"} =>
              AP!AreWcets(xs) /\ 1 \in DOMAIN frm[n].kids
<1> DEFINE k == frm[n].kids
           xs == Parts(frm, n, den)
<1>1. k \in Seq(Nodes) /\ (frm[n].kind \in {"SEQ", "ALT"} => k # <<>>)
      /\ (frm[n].kind \in {"LOOP", "PARAM_LOOP", "BOOLMULT", "ANN"} => Len(k) = 1)
  BY PlainFacts
<1>2. Len(k) \in Nat /\ DOMAIN k = 1..Len(k)
  BY <1>1, LenProperties
<1>3. xs \in [1..Len(k) -> AP!AWcets] /\ \A i \in DOMAIN k : xs[i] = den[k[i]]
  BY <1>2 DEF Parts
<1> HIDE DEF k, xs
<1>4. xs \in Seq(AP!AWcets) /\ Len(xs) = Len(k)
  BY <1>2, <1>3
<1>5. k # <<>> => Len(k) # 0
  BY <1>1, EmptySeq
<1>6. Len(k) # 0 => AP!AreWcets(xs) /\ 1 \in DOMAIN k
  <2>1. Len(k) # 0 => xs # <<>>
    BY <1>4
  <2> QED
    BY <1>2, <1>4, <2>1 DEF AP!AreWcets
<1>7. frm[n].kind \in {"SEQ", "ALT", "LOOP", "PARAM_LOOP", "BOOLMULT", "ANN"} => Len(k) # 0
  <2>1. Len(k) = 1 => Len(k) # 0
    OBVIOUS
  <2> QED
    BY <1>1, <1>5, <2>1, Zenon
<1> QED
  BY <1>2, <1>3, <1>4, <1>6, <1>7 DEF k, xs

LEMMA MeaningType ==
  ASSUME NEW frm \in Formulas, Plain(frm), NEW v \in Valuations, NEW n \in Nodes, NEW den,
         \A i \in DOMAIN frm[n].kids : den[frm[n].kids[i]] \in AP!AWcets
  PROVE  Meaning(v, frm[n], Parts(frm, n, den)) \in AP!AWcets
<1> DEFINE f == frm[n]
           xs == Parts(frm, n, den)
<1>1. /\ f.kind \in {"SEQ", "ALT", "LOOP", "PARAM_LOOP", "BOOLMULT", "ANN", "AWCET", "CONST"}
      /\ f.loop \in Int /\ (f.kind = "AWCET" => f.param \in Params)
  BY PlainFacts
<1>2. f.kind \in {"SEQ", "ALT", "LOOP", "PARAM_LOOP", "BOOLMULT", "ANN"} =>
        AP!AreWcets(xs) /\ xs[1] \in AP!AWcets
  BY PartsLaw
<1>3. CASE f.kind = "CONST"
  <2>1. AP!AWcet(f.loop, AP!MWcet(f.eta, f.others)) \in AP!AWcets
    BY <1>1, <1>3, ConstMeaning, AP!IsAWcet
  <2> QED
    BY <1>3, <2>1, SameAlgebra DEF Meaning
<1>4. CASE f.kind = "AWCET"
  <2> DEFINE p == v.aw[f.param]
  <2>1. /\ p.loop \in Int /\ p.others \in Nat /\ Given(p) \in Seq(Int)
        /\ Decreasing(Given(p), p.others)
    BY <1>4, PlainCallee
  <2>2. Meaning(v, f, xs) = AP!AWcet(p.loop, AP!MWcet(Given(p), p.others))
    BY <1>4, SameAlgebra DEF Meaning
  <2> HIDE DEF p
  <2>3. AP!AWcet(p.loop, AP!MWcet(Given(p), p.others)) \in AP!AWcets
    BY <2>1, ListMeaning, AP!IsAWcet
  <2> QED
    BY <2>2, <2>3
<1> HIDE DEF f, xs
<1>5. CASE f.kind = "SEQ"
  <2>1. AP!SumAll(xs) \in AP!AWcets
    BY <1>2, <1>5, AP!SumAllLaw
  <2> QED
    BY <1>5, <2>1, SameAlgebra DEF Meaning, f, xs
<1>6. CASE f.kind = "ALT"
  <2>1. AP!UnionAll(xs) \in AP!AWcets
    BY <1>2, <1>6, AP!UnionAllLaw
  <2> QED
    BY <1>6, <2>1, SameAlgebra DEF Meaning, f, xs
<1>7. CASE f.kind \in {"LOOP", "PARAM_LOOP"}
  <2>1. Iterations(v, f) \in Nat
    BY <1>7, Iterates DEF f
  <2>2. AP!Pow(xs[1], AP!Bot, f.loop, Iterations(v, f)) \in AP!AWcets
    BY <1>1, <1>2, <1>7, <2>1, AP!PowLaw, SameTotals
  <2> QED
    BY <1>7, <2>2, SameAlgebra DEF Meaning, f, xs
<1>8. CASE f.kind = "BOOLMULT"
  <2>1. AP!Bot \in AP!AWcets
    BY AP!BotLaw, SameTotals
  <2> QED
    BY <1>2, <1>8, <2>1, SameAlgebra DEF Meaning, f, xs
<1>9. CASE f.kind = "ANN"
  <2> DEFINE a == AnnOf(v, f)
  <2>1. a.loop \in Int /\ a.count \in Nat \cup {-1}
    BY <1>9, AnnTypes DEF f
  <2>2. Meaning(v, f, xs) = IF a.count = -1 THEN xs[1] ELSE AP!Annot(xs[1], a.loop, a.count)
    BY <1>9, SameAlgebra DEF Meaning
  <2> HIDE DEF a
  <2>3. a.count # -1 => AP!Annot(xs[1], a.loop, a.count) \in AP!AWcets
    BY <1>2, <1>9, <2>1, AP!AnnotLaw
  <2> QED
    BY <1>2, <1>9, <2>2, <2>3 DEF f, xs
<1> QED
  BY <1>1, <1>3, <1>4, <1>5, <1>6, <1>7, <1>8, <1>9 DEF f, xs

\* The abstract WCET of every node is made from those of its operands.
LEMMA DenotedLaw ==
  ASSUME NEW frm \in Formulas, Plain(frm), NEW v \in Valuations, NEW n \in Nodes
  PROVE  /\ Denotation(frm, v)[n] \in AP!AWcets
         /\ Denotation(frm, v)[n] = Meaning(v, frm[n], Parts(frm, n, Denotation(frm, v)))
<1> DEFINE D == Nodes
           S == AP!AWcets
           den[m \in D] == Meaning(v, frm[m], [i \in DOMAIN frm[m].kids |-> den[frm[m].kids[i]]])
           G == [q \in D \X [D -> S] |-> Meaning(v, frm[q[1]], Parts(frm, q[1], q[2]))]
<1>1. Denotation(frm, v) = den
  BY DEF Denotation
<1>2. PICK rank \in [D -> Nat] : \A m \in D : \A i \in DOMAIN frm[m].kids :
        frm[m].kids[i] \in D /\ rank[frm[m].kids[i]] < rank[m]
  BY HasRank
<1>3. ASSUME NEW m \in D, NEW f, \A k \in D : rank[k] < rank[m] => f[k] \in S
      PROVE  Meaning(v, frm[m], Parts(frm, m, f)) \in S
  BY <1>2, <1>3, MeaningType
<1>4. \A m \in D, f \in [D -> S] : G[<<m, f>>] = Meaning(v, frm[m], Parts(frm, m, f)) /\ G[<<m, f>>] \in S
  <2> SUFFICES ASSUME NEW m \in D, NEW f \in [D -> S]
               PROVE  G[<<m, f>>] = Meaning(v, frm[m], Parts(frm, m, f)) /\ G[<<m, f>>] \in S
    OBVIOUS
  <2>1. G[<<m, f>>] = Meaning(v, frm[m], Parts(frm, m, f))
    OBVIOUS
  <2>2. Meaning(v, frm[m], Parts(frm, m, f)) \in S
    BY <1>3
  <2> HIDE DEF G
  <2> QED
    BY <2>1, <2>2
<1>5. G \in [D \X [D -> S] -> S]
  <2> SUFFICES ASSUME NEW q \in D \X [D -> S] PROVE G[q] \in S
    OBVIOUS
  <2>1. q[1] \in D /\ q[2] \in [D -> S] /\ q = <<q[1], q[2]>>
    OBVIOUS
  <2> HIDE DEF G
  <2> QED
    BY <1>4, <2>1
<1>6. FromSmaller(D, S, rank, G)
  <2> SUFFICES ASSUME NEW m \in D, NEW f \in [D -> S], NEW g \in [D -> S],
                      \A k \in D : rank[k] < rank[m] => f[k] = g[k]
               PROVE  G[<<m, f>>] = G[<<m, g>>]
    <3> HIDE DEF G
    <3> QED
      BY DEF FromSmaller
  <2>1. \A i \in DOMAIN frm[m].kids : f[frm[m].kids[i]] = g[frm[m].kids[i]]
    BY <1>2
  <2>2. Parts(frm, m, f) = Parts(frm, m, g)
    BY <2>1 DEF Parts
  <2>3. G[<<m, f>>] = Meaning(v, frm[m], Parts(frm, m, f)) /\ G[<<m, g>>] = Meaning(v, frm[m], Parts(frm, m, g))
    BY <1>4, Zenon
  <2> QED
    BY <2>2, <2>3, Zenon
<1>7. IsRecursion(D, S, rank, G)
  <2>1. S # {}
    BY AP!BotLaw, SameTotals
  <2> HIDE DEF G, S
  <2> QED
    BY <1>2, <1>5, <1>6, <2>1 DEF IsRecursion
<1>8. PICK h \in [D -> S] : \A m \in D : h[m] = G[<<m, h>>]
  <2> HIDE DEF G, S
  <2> QED
    BY <1>7, RankRecursion DEF Defines
<1>9. \A m \in D : h[m] = Meaning(v, frm[m], Parts(frm, m, h))
  <2> HIDE DEF G
  <2> QED
    BY <1>4, <1>8
<1>10. h = [m \in D |-> Meaning(v, frm[m], [i \in DOMAIN frm[m].kids |-> h[frm[m].kids[i]]])]
  BY <1>9 DEF Parts
<1>11. den = [m \in D |-> Meaning(v, frm[m], [i \in DOMAIN frm[m].kids |-> den[frm[m].kids[i]]])]
  BY <1>10
<1> HIDE DEF den
<1>12. \A m \in D : den[m] = Meaning(v, frm[m], Parts(frm, m, den))
  BY <1>11, Zenon DEF Parts
<1> DEFINE P == {m \in D : den[m] \in S}
<1>13. ASSUME NEW m \in D, \A k \in D : rank[k] < rank[m] => k \in P
       PROVE  m \in P
  <2>1. Meaning(v, frm[m], Parts(frm, m, den)) \in S
    BY <1>3, <1>13
  <2> QED
    BY <1>12, <2>1
<1>14. D \subseteq P
  <2> HIDE DEF P, D
  <2> QED
    BY <1>2, <1>13, RankInduction
<1> QED
  BY <1>1, <1>12, <1>14

-----------------------------------------------------------------------------
(* Headers and arrays that stand for an abstract WCET                      *)

\* a.eta[j], or a.others behind the values, the arrays being M.
El(M, a, j) == IF j < a.cnt THEN M[a.eta][j + 1] ELSE a.others

\* x is a safe value for y, and equal to it in the call number N = 1.
Covers(N, x, y) == x \in Int /\ x >= y /\ (N <= 1 => x = y)

Good(M, N, a, x) ==
  /\ a.loop = x.loop
  /\ \A j \in Nat : Covers(N, El(M, a, j), V(x.m, j + 1))

\* The headers src stand for xs.
Stand(M, N, src, xs) ==
  /\ AP!AreWcets(xs)
  /\ \A i \in 1..Len(xs) : src[i] \in Header /\ src[i].cnt \in Nat /\ Good(M, N, src[i], xs[i])

LEMMA Values ==
  ASSUME NEW x \in AP!AWcets
  PROVE  /\ x.m \in AP!DecreasingWcets /\ x.loop \in Int
         /\ \A j \in Nat : V(x.m, j + 1) \in Nat
         /\ \A i, j \in Nat : i <= j => V(x.m, j + 1) <= V(x.m, i + 1)
<1>1. /\ x.m \in AP!DecreasingWcets /\ x.loop \in Int
      /\ \A i \in Nat \ {0} : V(x.m, i) \in Nat
  BY AP!AWcetParts, SameTotals DEF V
<1>2. x.m \in AP!MultiWcets /\ AP!IsDecreasing(x.m)
  BY <1>1 DEF AP!DecreasingWcets
<1>3. ASSUME NEW i \in Nat, NEW j \in Nat, i <= j
      PROVE  V(x.m, j + 1) <= V(x.m, i + 1)
  <2>1. i + 1 \in Nat \ {0} /\ j - i \in Nat /\ (i + 1) + (j - i) = j + 1
    BY <1>3
  <2>2. V(x.m, (i + 1) + (j - i)) <= V(x.m, i + 1)
    BY <1>2, <2>1, AP!ValuesDecrease DEF V
  <2> QED
    BY <2>1, <2>2
<1> QED
  BY <1>1, <1>3

\* What a header that stands for an abstract WCET holds, also behind its values.
Part(M, N, a, x) ==
  /\ a \in Header /\ x \in AP!AWcets /\ a.loop = x.loop
  /\ a.cnt \in Nat /\ a.others \in Nat
  /\ \A j \in Nat : j >= a.cnt => Covers(N, a.others, V(x.m, j + 1))
  /\ \A j \in Nat : El(M, a, j) \in Nat /\ Covers(N, El(M, a, j), V(x.m, j + 1))
  /\ \A j \in Nat : N <= 1 => El(M, a, j) >= a.others

LEMMA GoodOthers ==
  ASSUME NEW M, NEW N \in Nat, NEW a \in Header, a.cnt \in Nat, NEW x \in AP!AWcets,
         Good(M, N, a, x)
  PROVE  Part(M, N, a, x)
<1>1. a.cnt \in Nat /\ a.others \in Int
  BY DEF Header
<1>2. \A j \in Nat : j >= a.cnt => El(M, a, j) = a.others
  BY <1>1 DEF El
<1>3. \A j \in Nat : V(x.m, j + 1) \in Nat
  BY Values
<1>4. \A j \in Nat : El(M, a, j) \in Nat /\ Covers(N, El(M, a, j), V(x.m, j + 1))
  <2> SUFFICES ASSUME NEW j \in Nat
               PROVE  El(M, a, j) \in Nat /\ Covers(N, El(M, a, j), V(x.m, j + 1))
    OBVIOUS
  <2>1. Covers(N, El(M, a, j), V(x.m, j + 1)) /\ V(x.m, j + 1) \in Nat
    BY <1>3 DEF Good
  <2> QED
    BY <2>1 DEF Covers
<1>5. a.others \in Nat
  BY <1>1, <1>2, <1>4
<1>6. ASSUME NEW j \in Nat, N <= 1
      PROVE  El(M, a, j) >= a.others
  <2>1. j + a.cnt \in Nat /\ j + a.cnt >= a.cnt /\ j <= j + a.cnt
    BY <1>1
  <2>2. V(x.m, (j + a.cnt) + 1) <= V(x.m, j + 1)
    BY <2>1, Values
  <2>3. El(M, a, j + a.cnt) = a.others
    BY <1>2, <2>1
  <2>4. El(M, a, j) = V(x.m, j + 1) /\ El(M, a, j + a.cnt) = V(x.m, (j + a.cnt) + 1)
    BY <1>4, <1>6, <2>1 DEF Covers
  <2> QED
    BY <2>2, <2>3, <2>4
<1> QED
  BY <1>1, <1>2, <1>4, <1>5, <1>6 DEF Good, Part

LEMMA StandFacts ==
  ASSUME NEW M, NEW N \in Nat, NEW src, NEW xs, Stand(M, N, src, xs)
  PROVE  /\ AP!AreWcets(xs) /\ Len(xs) \in Nat /\ Len(xs) >= 1
         /\ \A i \in 1..Len(xs) : Part(M, N, src[i], xs[i])
<1>1. AP!AreWcets(xs) /\ Len(xs) \in Nat /\ Len(xs) >= 1
  BY AP!Wcets, SameTotals DEF Stand
<1>2. ASSUME NEW i \in 1..Len(xs)
      PROVE  Part(M, N, src[i], xs[i])
  <2>1. src[i] \in Header /\ src[i].cnt \in Nat /\ Good(M, N, src[i], xs[i])
    BY DEF Stand
  <2>2. xs[i] \in AP!AWcets
    BY <1>1, AP!Wcets
  <2> QED
    BY <2>1, <2>2, GoodOthers
<1> QED
  BY <1>1, <1>2

-----------------------------------------------------------------------------
(* awcet_seq                                                               *)

\* The header after k parts.
SeqHead(N, h, src, xs, k) ==
  /\ h.loop = AP!Sums(xs)[k].loop
  /\ \A i \in 1..k : src[i].cnt <= h.cnt
  /\ \A j \in Nat : j >= h.cnt => Covers(N, h.others, V(AP!Sums(xs)[k].m, j + 1))

\* The array after k parts.
SeqRow(M, N, b, cnt, xs, k) ==
  \A j \in Nat : j < cnt =>
    Covers(N, M[b][j + 1], IF k = 0 THEN 0 ELSE V(AP!Sums(xs)[k].m, j + 1))

\* h is the header after the first part, and after one more part.
SeqStart(h, s) ==
  /\ h.cnt \in Nat /\ h.cnt >= s.cnt
  /\ h.loop = s.loop /\ h.others = s.others
SeqNext(h, d, s) ==
  /\ h.cnt \in Nat /\ d.cnt \in Nat /\ h.cnt >= s.cnt /\ h.cnt >= d.cnt
  /\ h.loop = Innermost(s.loop, d.loop)
  /\ h.others = d.others + s.others

LEMMA SumOfTwo ==
  ASSUME NEW x \in AP!AWcets, NEW y \in AP!AWcets, NEW j \in Nat
  PROVE  /\ AP!Sum(x, y).loop = AP!Glb(x.loop, y.loop)
         /\ V(AP!Sum(x, y).m, j + 1) = V(x.m, j + 1) + V(y.m, j + 1)
BY AP!SumLaw, SameTotals DEF V

LEMMA SeqFirstLaw ==
  ASSUME NEW M, NEW N \in Nat, NEW src, NEW xs, Stand(M, N, src, xs),
         NEW h, SeqStart(h, src[1])
  PROVE  SeqHead(N, h, src, xs, 1)
<1>1. AP!Sums(xs)[1] = xs[1]
  BY AP!SumsLaw, StandFacts
<1>2. 1 \in 1..Len(xs)
  BY StandFacts
<1>3. /\ src[1].cnt \in Nat /\ src[1].loop = xs[1].loop
      /\ \A j \in Nat : j >= src[1].cnt => Covers(N, src[1].others, V(xs[1].m, j + 1))
  BY <1>2, StandFacts DEF Part
<1>4. \A j \in Nat : j >= h.cnt => Covers(N, h.others, V(xs[1].m, j + 1))
  BY <1>3 DEF SeqStart
<1>5. \A i \in 1..1 : src[i].cnt <= h.cnt
  BY <1>3 DEF SeqStart
<1>6. h.loop = xs[1].loop
  BY <1>3 DEF SeqStart
<1> QED
  BY <1>1, <1>4, <1>5, <1>6 DEF SeqHead

LEMMA SeqNextLaw ==
  ASSUME NEW M, NEW N \in Nat, NEW src, NEW xs, Stand(M, N, src, xs),
         NEW k \in 1..Len(xs), k + 1 \in 1..Len(xs),
         NEW d, SeqHead(N, d, src, xs, k), NEW h, SeqNext(h, d, src[k + 1])
  PROVE  SeqHead(N, h, src, xs, k + 1)
<1> DEFINE n == k + 1
           s == src[n]
           x == AP!Sums(xs)[k]
           y == xs[n]
<1>1. /\ n \in 1..Len(xs) /\ k \in 1..Len(xs) /\ n # 1 /\ n - 1 = k
  BY StandFacts
<1>2. AP!Sums(xs)[n] = AP!Sum(x, y) /\ x \in AP!AWcets
  <2>1. AP!AreWcets(xs)
    BY StandFacts
  <2>2. \A i \in 1..Len(xs) : i # 1 => AP!Sums(xs)[i] = AP!Sum(AP!Sums(xs)[i - 1], xs[i])
    BY <2>1, AP!SumsLaw
  <2>3. \A i \in 1..Len(xs) : AP!Sums(xs)[i] \in AP!AWcets
    BY <2>1, AP!SumsLaw
  <2> QED
    BY <1>1, <2>2, <2>3
<1>3. Part(M, N, s, y)
  BY <1>1, StandFacts
<1> HIDE DEF s, x, y
<1>4. /\ y \in AP!AWcets /\ s.cnt \in Nat /\ s.loop = y.loop
      /\ \A j \in Nat : j >= s.cnt => Covers(N, s.others, V(y.m, j + 1))
  BY <1>3 DEF Part
<1>5. /\ h.loop = Innermost(s.loop, d.loop) /\ h.cnt >= s.cnt /\ h.cnt >= d.cnt
      /\ h.cnt \in Nat /\ d.cnt \in Nat /\ h.others = d.others + s.others
  BY DEF SeqNext, s
<1>6. /\ d.loop = x.loop
      /\ \A i \in 1..k : src[i].cnt <= d.cnt
      /\ \A j \in Nat : j >= d.cnt => Covers(N, d.others, V(x.m, j + 1))
  BY DEF SeqHead, x
<1>7. h.loop = AP!Sum(x, y).loop
  <2>1. AP!Sum(x, y).loop = AP!Glb(x.loop, y.loop)
    BY <1>2, <1>4, SumOfTwo
  <2> QED
    BY <1>4, <1>5, <1>6, <2>1, InnerGlb
<1>8. ASSUME NEW j \in Nat, j >= h.cnt
      PROVE  Covers(N, h.others, V(AP!Sum(x, y).m, j + 1))
  <2>1. Covers(N, d.others, V(x.m, j + 1)) /\ Covers(N, s.others, V(y.m, j + 1))
    BY <1>4, <1>5, <1>6, <1>8
  <2>2. V(AP!Sum(x, y).m, j + 1) = V(x.m, j + 1) + V(y.m, j + 1)
    BY <1>2, <1>4, SumOfTwo
  <2>3. V(x.m, j + 1) \in Nat /\ V(y.m, j + 1) \in Nat
    BY <1>2, <1>4, Values
  <2> QED
    BY <1>5, <2>1, <2>2, <2>3 DEF Covers
<1>9. \A i \in 1..n : src[i].cnt <= h.cnt
  <2> SUFFICES ASSUME NEW i \in 1..n PROVE src[i].cnt <= h.cnt
    OBVIOUS
  <2>1. src[i].cnt \in Nat
    <3>1. Part(M, N, src[i], xs[i])
      BY <1>1, StandFacts
    <3> QED
      BY <3>1 DEF Part
  <2>2. CASE i = n
    BY <1>5, <2>2 DEF s
  <2>3. CASE i # n
    <3>1. src[i].cnt <= d.cnt
      BY <1>6, <2>3
    <3> QED
      BY <1>5, <2>1, <3>1
  <2> QED
    BY <2>2, <2>3
<1> QED
  BY <1>2, <1>7, <1>8, <1>9 DEF SeqHead

\* M2 adds the values of s to the array.
Added(M2, M, b, cnt, s) ==
  \A j \in Nat : j < cnt => M2[b][j + 1] = M[b][j + 1] + El(M, s, j)

LEMMA SeqRowLaw ==
  ASSUME NEW M, NEW N \in Nat, NEW src, NEW xs, Stand(M, N, src, xs),
         NEW k \in Nat, k + 1 \in 1..Len(xs), NEW b, NEW cnt, SeqRow(M, N, b, cnt, xs, k),
         NEW M2, Added(M2, M, b, cnt, src[k + 1])
  PROVE  SeqRow(M2, N, b, cnt, xs, k + 1)
<1> DEFINE n == k + 1
           s == src[n]
           x == AP!Sums(xs)[k]
           y == xs[n]
<1>1. n \in 1..Len(xs) /\ n - 1 = k /\ n # 0 /\ AP!AreWcets(xs)
  BY StandFacts
<1>2. Part(M, N, s, y) /\ y \in AP!AWcets
  <2>1. Part(M, N, s, y)
    BY <1>1, StandFacts
  <2> QED
    BY <2>1 DEF Part
<1> SUFFICES ASSUME NEW j \in Nat, j < cnt
             PROVE  Covers(N, M2[b][j + 1], V(AP!Sums(xs)[n].m, j + 1))
  BY <1>1 DEF SeqRow
<1> HIDE DEF s, y, x
<1>3. /\ M2[b][j + 1] = M[b][j + 1] + El(M, s, j)
      /\ Covers(N, El(M, s, j), V(y.m, j + 1)) /\ V(y.m, j + 1) \in Nat
  <2>1. M2[b][j + 1] = M[b][j + 1] + El(M, s, j)
    BY DEF Added, s
  <2> QED
    BY <1>2, <2>1, Values DEF Part
<1>4. CASE k = 0
  <2>1. AP!Sums(xs)[1] = y
    BY <1>1, <1>4, AP!SumsLaw DEF y
  <2>2. Covers(N, M[b][j + 1], 0)
    BY <1>4 DEF SeqRow
  <2>3. Covers(N, M2[b][j + 1], V(y.m, j + 1))
    BY <1>3, <2>2 DEF Covers
  <2> QED
    BY <1>4, <2>1, <2>3
<1>5. CASE k # 0
  <2>1. k \in 1..Len(xs) /\ n # 1
    BY <1>1, <1>5
  <2>2. \A i \in 1..Len(xs) : i # 1 => AP!Sums(xs)[i] = AP!Sum(AP!Sums(xs)[i - 1], xs[i])
    BY <1>1, AP!SumsLaw
  <2>3. \A i \in 1..Len(xs) : AP!Sums(xs)[i] \in AP!AWcets
    BY <1>1, AP!SumsLaw
  <2>4. AP!Sums(xs)[n] = AP!Sum(x, y) /\ x \in AP!AWcets
    BY <1>1, <2>1, <2>2, <2>3 DEF x, y
  <2>5. V(AP!Sum(x, y).m, j + 1) = V(x.m, j + 1) + V(y.m, j + 1) /\ V(x.m, j + 1) \in Nat
    BY <1>2, <2>4, SumOfTwo, Values
  <2>6. Covers(N, M[b][j + 1], V(x.m, j + 1))
    BY <1>5 DEF SeqRow, x
  <2> QED
    BY <1>3, <2>4, <2>5, <2>6 DEF Covers
<1> QED
  BY <1>4, <1>5

LEMMA SeqGoodLaw ==
  ASSUME NEW M, NEW N \in Nat, NEW src, NEW xs, Stand(M, N, src, xs), NEW h, h.cnt \in Nat,
         SeqHead(N, h, src, xs, Len(xs)), SeqRow(M, N, h.eta, h.cnt, xs, Len(xs))
  PROVE  Good(M, N, h, AP!SumAll(xs))
<1>1. AP!AreWcets(xs)
  BY DEF Stand
<1>2. AP!SumAll(xs) = AP!Sums(xs)[Len(xs)] /\ Len(xs) # 0
  BY <1>1, AP!SumsLaw, AP!Wcets, SameTotals
<1>3. ASSUME NEW j \in Nat
      PROVE  Covers(N, El(M, h, j), V(AP!SumAll(xs).m, j + 1))
  BY <1>2 DEF SeqHead, SeqRow, El
<1> QED
  BY <1>2, <1>3 DEF Good, SeqHead

LEMMA ClearedLaw ==
  ASSUME NEW N \in Nat, NEW x \in Int, Covers(N, x, 0), NEW j \in Nat, NEW cnt \in Nat
  PROVE  Covers(N, Cleared(x, j, cnt), 0)
<1>1. HalfWord \in Nat /\ HalfWord > 0
  BY RuntimeAssumption
<1>2. x % HalfWord \in Int /\ x % HalfWord <= x /\ (x = 0 => x % HalfWord = 0)
  <2>1. /\ x = HalfWord * (x \div HalfWord) + (x % HalfWord)
        /\ x % HalfWord \in 0..(HalfWord - 1) /\ x \div HalfWord \in Int
    BY <1>1
  <2> QED
    BY <1>1, <2>1 DEF Covers
<1> QED
  BY <1>2 DEF Covers, Cleared

-----------------------------------------------------------------------------
(* awcet_alt                                                               *)

AltHead(h, src, xs, k) ==
  /\ h.loop = AP!Unions(xs)[k].loop
  /\ \A i \in 1..k : src[i].others <= h.others
  /\ \E i \in 1..k : src[i].others = h.others

AltFirst(h, s) == h.loop = s.loop /\ h.others = s.others
AltNext(h, d, s) ==
  /\ d.others \in Int
  /\ h.loop = Innermost(s.loop, d.loop)
  /\ h.others = IF d.others < s.others THEN s.others ELSE d.others

LEMMA AltFirstLaw ==
  ASSUME NEW M, NEW N \in Nat, NEW src, NEW xs, Stand(M, N, src, xs), NEW h, AltFirst(h, src[1])
  PROVE  AltHead(h, src, xs, 1)
<1>1. AP!AreWcets(xs)
  BY DEF Stand
<1>2. AP!Unions(xs)[1] = xs[1] /\ 1 \in 1..Len(xs)
  BY <1>1, AP!UnionsLaw, AP!Wcets
<1>3. Part(M, N, src[1], xs[1])
  BY <1>2, StandFacts
<1>4. /\ h.loop = xs[1].loop /\ h.others = src[1].others /\ src[1].others \in Nat
  BY <1>3 DEF AltFirst, Part
<1>5. \A i \in 1..1 : src[i].others <= h.others /\ src[i].others = h.others
  BY <1>4
<1> QED
  BY <1>2, <1>4, <1>5 DEF AltHead

LEMMA AltNextLaw ==
  ASSUME NEW M, NEW N \in Nat, NEW src, NEW xs, Stand(M, N, src, xs),
         NEW k \in 1..Len(xs), k + 1 \in 1..Len(xs),
         NEW d, AltHead(d, src, xs, k), NEW h, AltNext(h, d, src[k + 1])
  PROVE  AltHead(h, src, xs, k + 1)
<1> DEFINE n == k + 1
           s == src[n]
           x == AP!Unions(xs)[k]
           y == xs[n]
<1>1. n \in 1..Len(xs) /\ n # 1 /\ n - 1 = k /\ n \in Nat /\ k \in Nat /\ k \in 1..Len(xs)
  BY StandFacts
<1>2. AP!Unions(xs)[n] = AP!Union(x, y) /\ x \in AP!AWcets
  <2>1. AP!AreWcets(xs)
    BY StandFacts
  <2>2. \A i \in 1..Len(xs) : i # 1 => AP!Unions(xs)[i] = AP!Union(AP!Unions(xs)[i - 1], xs[i])
    BY <2>1, AP!UnionsLaw
  <2>3. \A i \in 1..Len(xs) : AP!Unions(xs)[i] \in AP!AWcets
    BY <2>1, AP!UnionsLaw
  <2> QED
    BY <1>1, <2>2, <2>3
<1>3. Part(M, N, s, y)
  BY <1>1, StandFacts
<1>4. h.loop = AP!Union(x, y).loop
  <2>1. y \in AP!AWcets /\ s.loop = y.loop
    BY <1>3 DEF Part
  <2>2. AP!Union(x, y).loop = AP!Glb(x.loop, y.loop)
    BY <1>2, <2>1, AP!UnionLaw
  <2>3. h.loop = Innermost(s.loop, d.loop) /\ d.loop = x.loop
    BY DEF AltNext, AltHead
  <2> QED
    BY <2>1, <2>2, <2>3, InnerGlb
<1> HIDE DEF s, x, y
<1>5. /\ h.others = IF d.others < s.others THEN s.others ELSE d.others
      /\ s.others \in Nat /\ d.others \in Int
  BY <1>3 DEF AltNext, Part, s
<1>6. \A i \in 1..n : src[i].others <= h.others
  <2> SUFFICES ASSUME NEW i \in 1..n PROVE src[i].others <= h.others
    OBVIOUS
  <2>1. src[i].others \in Nat
    <3>1. Part(M, N, src[i], xs[i])
      BY <1>1, StandFacts
    <3> QED
      BY <3>1 DEF Part
  <2>2. CASE i = n
    BY <1>5, <2>2 DEF s
  <2>3. CASE i # n
    <3>1. src[i].others <= d.others
      BY <1>1, <2>3 DEF AltHead
    <3> QED
      BY <1>5, <2>1, <3>1
  <2> QED
    BY <2>2, <2>3
<1>7. \E i \in 1..n : src[i].others = h.others
  <2>1. CASE h.others = s.others
    <3>1. n \in 1..n
      BY <1>1
    <3> QED
      BY <2>1, <3>1 DEF s
  <2>2. CASE h.others # s.others
    <3>1. h.others = d.others
      BY <1>5, <2>2
    <3>2. PICK i \in 1..k : src[i].others = d.others
      BY DEF AltHead
    <3>3. i \in 1..n
      BY <1>1
    <3> QED
      BY <3>1, <3>2, <3>3
  <2> QED
    BY <2>1, <2>2
<1> QED
  BY <1>2, <1>4, <1>6, <1>7 DEF AltHead

\* The next value of the source i.
Ahead(M, src, tab, i) == El(M, src[i], tab[i])
\* What has been taken is not less than what has not.
InOrder(M, src, tab, n) ==
  \A i, o \in 1..n : tab[i] # 0 => El(M, src[i], tab[i] - 1) >= Ahead(M, src, tab, o)
Leads(M, src, tab, n, k) == \A o \in 1..n : Ahead(M, src, tab, k) >= Ahead(M, src, tab, o)

\* The array after the values the cursors tab have passed.
AltRow(M, N, b, cnt, x) == \A j \in Nat : j < cnt => Covers(N, M[b][j + 1], V(x.m, j + 1))

\* No value of the union behind the ones taken exceeds all that are ahead.
LEMMA UnionBounded ==
  ASSUME NEW M, NEW N \in Nat, NEW src, NEW xs, Stand(M, N, src, xs),
         NEW tab \in Vectors(Len(xs)), NEW j \in Nat, TotalOf(tab) <= j
  PROVE  \E i \in 1..Len(xs) : Ahead(M, src, tab, i) >= V(AP!UnionAll(xs).m, j + 1)
<1> DEFINE n == Len(xs)
           c == V(AP!UnionAll(xs).m, j + 1)
<1>1. AP!AreWcets(xs) /\ n \in Nat
  BY StandFacts
<1>2. AP!UnionAll(xs) \in AP!AWcets
  BY <1>1, AP!UnionAllLaw
<1>3. c \in Nat
  BY <1>2, Values
<1>4. AP!Has(AP!UnionAll(xs).m, j + 1, c)
  BY <1>3 DEF AP!Has, V
<1> HIDE DEF c, n
<1>5. PICK v \in Vectors(n) : TotalOf(v) = j + 1 /\ AP!Takes(xs, n, v, c)
  <2>1. j + 1 \in Nat
    OBVIOUS
  <2> QED
    BY <1>1, <1>3, <1>4, <2>1, AP!UnionAllLaw, SameTotals DEF n
<1>6. tab \in Vectors(n) /\ TotalOf(tab) \in Nat
  BY <1>1, VectorSums DEF n
<1>7. TotalOf(tab) < TotalOf(v)
  BY <1>5, <1>6
<1>8. PICK i \in 1..n : tab[i] < v[i]
  BY <1>1, <1>6, <1>7, Pigeonhole
<1>9. tab[i] \in Nat /\ v[i] \in Nat
  BY <1>6 DEF Vectors
<1>10. Part(M, N, src[i], xs[i])
  BY StandFacts DEF n
<1>11. V(xs[i].m, v[i]) >= c
  BY <1>5, <1>8, <1>9 DEF AP!Takes, AP!Has, V
<1>12. V(xs[i].m, v[i]) <= V(xs[i].m, tab[i] + 1)
  <2>1. v[i] - 1 \in Nat /\ tab[i] <= v[i] - 1 /\ (v[i] - 1) + 1 = v[i]
    BY <1>8, <1>9
  <2>2. xs[i] \in AP!AWcets
    BY <1>10 DEF Part
  <2>3. V(xs[i].m, (v[i] - 1) + 1) <= V(xs[i].m, tab[i] + 1)
    BY <1>9, <2>1, <2>2, Values
  <2> QED
    BY <2>1, <2>3
<1>13. V(xs[i].m, tab[i] + 1) \in Nat /\ V(xs[i].m, v[i]) \in Nat
  <2>1. v[i] - 1 \in Nat /\ (v[i] - 1) + 1 = v[i]
    BY <1>8, <1>9
  <2>2. xs[i] \in AP!AWcets
    BY <1>10 DEF Part
  <2>3. V(xs[i].m, (v[i] - 1) + 1) \in Nat
    BY <2>1, <2>2, Values
  <2> QED
    BY <1>9, <2>1, <2>2, <2>3, Values
<1>14. El(M, src[i], tab[i]) \in Nat /\ El(M, src[i], tab[i]) >= V(xs[i].m, tab[i] + 1)
  BY <1>9, <1>10 DEF Part, Covers
<1>15. Ahead(M, src, tab, i) >= c
  BY <1>3, <1>11, <1>12, <1>13, <1>14 DEF Ahead
<1> QED
  BY <1>15 DEF c, n

\* The values taken, and another one that none of what has been taken is less
\* than, are values of the union.
LEMMA UnionReached ==
  ASSUME NEW M, NEW N \in Nat, N <= 1, NEW src, NEW xs, Stand(M, N, src, xs),
         NEW tab \in Vectors(Len(xs)), NEW k \in 1..Len(xs), NEW c \in Nat, NEW p \in Nat,
         El(M, src[k], tab[k] + p) >= c,
         \A i \in 1..Len(xs) : tab[i] # 0 => El(M, src[i], tab[i] - 1) >= c
  PROVE  V(AP!UnionAll(xs).m, (TotalOf(tab) + p) + 1) >= c
<1> DEFINE n == Len(xs)
           v == Raised(tab, k, p + 1)
<1>1. AP!AreWcets(xs) /\ n \in Nat /\ p + 1 \in Nat
  BY StandFacts
<1>2. v \in Vectors(n) /\ TotalOf(v) = TotalOf(tab) + (p + 1)
  BY <1>1, TotalRaised
<1>11. TotalOf(tab) \in Nat
  BY <1>1, VectorSums
<1>12. tab \in [1..n -> Nat]
  BY DEF Vectors
<1>3. ASSUME NEW i \in 1..n
      PROVE  v[i] = IF i = k THEN (tab[k] + p) + 1 ELSE tab[i]
  <2>1. k \in 1..n /\ tab[k] \in Nat /\ v[i] = IF i = k THEN tab[k] + (p + 1) ELSE tab[i]
    BY <1>12 DEF Raised
  <2> QED
    BY <2>1, SMTT(30)
<1> HIDE DEF v, n
<1>4. ASSUME NEW i \in 1..n, NEW j \in Nat, El(M, src[i], j) >= c
      PROVE  V(xs[i].m, j + 1) >= c
  <2>1. Part(M, N, src[i], xs[i])
    BY StandFacts DEF n
  <2>2. El(M, src[i], j) = V(xs[i].m, j + 1)
    BY <2>1 DEF Part, Covers
  <2> QED
    BY <1>4, <2>2
<1>5. ASSUME NEW i \in 1..n
      PROVE  AP!Has(xs[i].m, v[i], c)
  <2>1. tab[i] \in Nat /\ tab[k] \in Nat /\ tab[k] + p \in Nat
    BY <1>12 DEF n
  <2>2. CASE i = k
    <3>1. V(xs[i].m, (tab[k] + p) + 1) >= c
      BY <1>4, <2>1, <2>2
    <3> QED
      BY <1>3, <2>2, <3>1 DEF AP!Has, V
  <2>3. CASE i # k /\ tab[i] # 0
    <3>1. tab[i] - 1 \in Nat /\ (tab[i] - 1) + 1 = tab[i]
      BY <2>1, <2>3, SMTT(30)
    <3>2. El(M, src[i], tab[i] - 1) >= c
      BY <2>3 DEF n
    <3>3. V(xs[i].m, (tab[i] - 1) + 1) >= c
      BY <1>4, <3>1, <3>2
    <3> QED
      BY <1>3, <2>3, <3>1, <3>3 DEF AP!Has, V
  <2>4. CASE i # k /\ tab[i] = 0
    BY <1>3, <2>4 DEF AP!Has
  <2> QED
    BY <2>2, <2>3, <2>4
<1>6. AP!Takes(xs, n, v, c)
  BY <1>5 DEF AP!Takes
<1>7. TotalOf(v) \in Nat /\ TotalOf(v) # 0 /\ TotalOf(v) = (TotalOf(tab) + p) + 1
  BY <1>1, <1>2, <1>11
<1>8. AP!Has(AP!UnionAll(xs).m, TotalOf(v), c)
  BY <1>1, <1>2, <1>6, <1>7, AP!UnionAllLaw, SameTotals DEF n
<1>9. V(AP!UnionAll(xs).m, TotalOf(v)) >= c
  BY <1>7, <1>8 DEF AP!Has, V
<1> QED
  BY <1>7, <1>9

LEMMA AheadFacts ==
  ASSUME NEW M, NEW N \in Nat, NEW src, NEW xs, Stand(M, N, src, xs),
         NEW tab \in Vectors(Len(xs)), NEW i \in 1..Len(xs)
  PROVE  /\ tab[i] \in Nat /\ Part(M, N, src[i], xs[i])
         /\ Ahead(M, src, tab, i) \in Nat
         /\ N <= 1 => Ahead(M, src, tab, i) >= src[i].others
<1>1. tab[i] \in Nat
  BY DEF Vectors
<1>2. Part(M, N, src[i], xs[i])
  BY StandFacts
<1> QED
  BY <1>1, <1>2 DEF Part, Ahead

LEMMA AltTakeLaw ==
  ASSUME NEW M, NEW N \in Nat, NEW src, NEW xs, Stand(M, N, src, xs),
         NEW tab \in Vectors(Len(xs)), NEW k \in 1..Len(xs),
         Leads(M, src, tab, Len(xs), k), N <= 1 => InOrder(M, src, tab, Len(xs))
  PROVE  /\ Covers(N, Ahead(M, src, tab, k), V(AP!UnionAll(xs).m, TotalOf(tab) + 1))
         /\ N <= 1 => InOrder(M, src, Raised(tab, k, 1), Len(xs))
         /\ Raised(tab, k, 1) \in Vectors(Len(xs))
         /\ TotalOf(Raised(tab, k, 1)) = TotalOf(tab) + 1 /\ TotalOf(tab) \in Nat
<1> DEFINE n == Len(xs)
           t == Raised(tab, k, 1)
           c == Ahead(M, src, tab, k)
           u == V(AP!UnionAll(xs).m, TotalOf(tab) + 1)
<1>1. AP!AreWcets(xs) /\ n \in Nat
  BY StandFacts
<1>2. TotalOf(tab) \in Nat
  BY <1>1, VectorSums
<1>3. t \in Vectors(n) /\ TotalOf(t) = TotalOf(tab) + 1
  BY <1>1, TotalRaised
<1>4. u \in Nat
  <2>1. AP!UnionAll(xs) \in AP!AWcets
    BY <1>1, AP!UnionAllLaw
  <2> QED
    BY <1>2, <2>1, Values
<1>5. c \in Nat
  BY AheadFacts
<1>6. c >= u
  <2>1. TotalOf(tab) <= TotalOf(tab)
    BY <1>2
  <2>2. PICK i \in 1..n : Ahead(M, src, tab, i) >= u
    BY <1>2, <2>1, UnionBounded
  <2>3. c >= Ahead(M, src, tab, i) /\ Ahead(M, src, tab, i) \in Nat
    BY AheadFacts DEF Leads
  <2> HIDE DEF c, u
  <2> QED
    BY <1>4, <1>5, <2>2, <2>3
<1>7. ASSUME N <= 1
      PROVE  u >= c
  <2>1. tab[k] \in Nat /\ tab[k] + 0 = tab[k]
    <3>1. tab[k] \in Nat
      BY AheadFacts
    <3> QED
      BY <3>1
  <2>2. El(M, src[k], tab[k] + 0) >= c
    BY <1>5, <2>1 DEF Ahead
  <2>3. \A i \in 1..Len(xs) : tab[i] # 0 => El(M, src[i], tab[i] - 1) >= c
    BY <1>7 DEF InOrder
  <2> HIDE DEF c
  <2>4. V(AP!UnionAll(xs).m, (TotalOf(tab) + 0) + 1) >= c
    BY <1>5, <1>7, <2>2, <2>3, UnionReached
  <2>5. TotalOf(tab) + 0 = TotalOf(tab)
    BY <1>2
  <2> QED
    BY <2>4, <2>5
<1>8. Covers(N, c, u)
  <2> HIDE DEF c, u
  <2> QED
    BY <1>4, <1>5, <1>6, <1>7 DEF Covers
<1>9. ASSUME N <= 1
      PROVE  InOrder(M, src, t, n)
  <2>1. \A i \in 1..n : t[i] = IF i = k THEN tab[k] + 1 ELSE tab[i]
    BY DEF Raised, Vectors
  <2> HIDE DEF t, n
  <2>2. ASSUME NEW o \in 1..n
        PROVE  Ahead(M, src, t, o) \in Nat /\ Ahead(M, src, t, o) <= Ahead(M, src, tab, o)
    <3>1. tab[o] \in Nat /\ Part(M, N, src[o], xs[o])
      BY AheadFacts DEF n
    <3>2. t[o] \in {tab[o], tab[o] + 1} /\ t[o] \in Nat /\ tab[o] <= t[o]
      BY <2>1, <3>1
    <3>3. xs[o] \in AP!AWcets
      BY <3>1 DEF Part
    <3>4. V(xs[o].m, t[o] + 1) <= V(xs[o].m, tab[o] + 1) /\ V(xs[o].m, t[o] + 1) \in Nat
      BY <3>1, <3>2, <3>3, Values
    <3>5. El(M, src[o], t[o]) = V(xs[o].m, t[o] + 1) /\ El(M, src[o], tab[o]) = V(xs[o].m, tab[o] + 1)
      BY <1>9, <3>1, <3>2 DEF Part, Covers
    <3> QED
      BY <3>4, <3>5 DEF Ahead
  <2>3. ASSUME NEW i \in 1..n, NEW o \in 1..n, t[i] # 0
        PROVE  El(M, src[i], t[i] - 1) >= Ahead(M, src, t, o)
    <3>1. Ahead(M, src, tab, o) \in Nat /\ tab[i] \in Nat
      BY AheadFacts DEF n
    <3>2. El(M, src[i], t[i] - 1) \in Nat
      <4>1. Part(M, N, src[i], xs[i])
        BY AheadFacts DEF n
      <4>2. t[i] - 1 \in Nat
        BY <2>1, <2>3, <3>1, SMTT(30)
      <4> QED
        BY <4>1, <4>2 DEF Part
    <3>3. El(M, src[i], t[i] - 1) >= Ahead(M, src, tab, o)
      <4>1. CASE i = k
        <5>1. t[i] - 1 = tab[k]
          BY <2>1, <3>1, <4>1
        <5>2. Ahead(M, src, tab, k) >= Ahead(M, src, tab, o)
          BY DEF Leads, n
        <5> QED
          BY <4>1, <5>1, <5>2 DEF Ahead
      <4>2. CASE i # k
        <5>1. t[i] = tab[i]
          BY <2>1, <4>2
        <5> QED
          BY <1>9, <2>3, <5>1 DEF InOrder, n
      <4> QED
        BY <4>1, <4>2
    <3> QED
      BY <2>2, <3>1, <3>2, <3>3
  <2> QED
    BY <2>3 DEF InOrder
<1> QED
  BY <1>2, <1>3, <1>8, <1>9

LEMMA AltEndLaw ==
  ASSUME NEW M, NEW N \in Nat, NEW src, NEW xs, Stand(M, N, src, xs),
         NEW tab \in Vectors(Len(xs)), N <= 1 => InOrder(M, src, tab, Len(xs)),
         NEW h, h.cnt = TotalOf(tab), AltHead(h, src, xs, Len(xs)),
         \A i \in 1..Len(xs) : Ahead(M, src, tab, i) <= h.others,
         AltRow(M, N, h.eta, h.cnt, AP!UnionAll(xs))
  PROVE  Good(M, N, h, AP!UnionAll(xs))
<1> DEFINE n == Len(xs)
           U == AP!UnionAll(xs)
<1>1. AP!AreWcets(xs) /\ n \in Nat
  BY StandFacts
<1>2. h.cnt \in Nat
  BY <1>1, VectorSums
<1>3. U \in AP!AWcets /\ U = AP!Unions(xs)[n]
  BY <1>1, AP!UnionAllLaw, AP!UnionsLaw
<1>4. h.loop = U.loop
  BY <1>3 DEF AltHead
<1>5. PICK k \in 1..n : src[k].others = h.others
  BY DEF AltHead
<1>6. h.others \in Nat
  <2>1. Part(M, N, src[k], xs[k])
    BY StandFacts
  <2> QED
    BY <1>5, <2>1 DEF Part
<1> HIDE DEF n
<1>7. ASSUME NEW j \in Nat, j >= h.cnt
      PROVE  Covers(N, h.others, V(U.m, j + 1))
  <2>1. V(U.m, j + 1) \in Nat
    BY <1>3, Values
  <2>2. h.others >= V(U.m, j + 1)
    <3>1. PICK i \in 1..n : Ahead(M, src, tab, i) >= V(U.m, j + 1)
      BY <1>2, <1>7, UnionBounded DEF n
    <3>2. Ahead(M, src, tab, i) <= h.others /\ Ahead(M, src, tab, i) \in Nat
      BY AheadFacts DEF n
    <3> HIDE DEF U
    <3> QED
      BY <1>6, <2>1, <3>1, <3>2
  <2>3. ASSUME N <= 1
        PROVE  V(U.m, j + 1) >= h.others
    <3> DEFINE p == j - h.cnt
    <3>1. p \in Nat /\ TotalOf(tab) + p = j
      BY <1>2, <1>7
    <3>2. tab[k] \in Nat /\ Part(M, N, src[k], xs[k])
      BY AheadFacts DEF n
    <3> HIDE DEF p
    <3>3. El(M, src[k], tab[k] + p) >= h.others
      <4>1. tab[k] + p \in Nat
        BY <3>1, <3>2
      <4> QED
        BY <1>5, <2>3, <3>2, <4>1 DEF Part
    <3>4. ASSUME NEW i \in 1..Len(xs), tab[i] # 0
          PROVE  El(M, src[i], tab[i] - 1) >= h.others
      <4>1. El(M, src[i], tab[i] - 1) >= Ahead(M, src, tab, k)
        BY <2>3, <3>4 DEF InOrder, n
      <4>2. Ahead(M, src, tab, k) >= h.others /\ Ahead(M, src, tab, k) \in Nat
        BY <1>5, <2>3, AheadFacts DEF n
      <4>3. El(M, src[i], tab[i] - 1) \in Nat
        <5>1. Part(M, N, src[i], xs[i]) /\ tab[i] \in Nat
          BY AheadFacts
        <5>2. tab[i] - 1 \in Nat
          BY <3>4, <5>1
        <5> QED
          BY <5>1, <5>2 DEF Part
      <4> QED
        BY <1>6, <4>1, <4>2, <4>3
    <3>5. V(U.m, (TotalOf(tab) + p) + 1) >= h.others
      <4>1. k \in 1..Len(xs)
        BY DEF n
      <4> QED
        BY <1>6, <2>3, <3>1, <3>3, <3>4, <4>1, UnionReached
    <3> QED
      BY <3>1, <3>5
  <2> HIDE DEF U
  <2> QED
    BY <1>6, <2>1, <2>2, <2>3 DEF Covers
<1>8. ASSUME NEW j \in Nat
      PROVE  Covers(N, El(M, h, j), V(U.m, j + 1))
  <2>1. CASE j < h.cnt
    BY <2>1 DEF AltRow, El
  <2>2. CASE ~(j < h.cnt)
    BY <1>2, <1>7, <2>2 DEF El
  <2> QED
    BY <2>1, <2>2
<1> QED
  BY <1>4, <1>8 DEF Good

-----------------------------------------------------------------------------
(* awcet_loop and awcet_paramloop                                          *)

\* acc covers the sum of k values of x behind its first d values.
Summed(N, acc, k, d, x) == Covers(N, acc, AP!ValSum(k, d, x.m))

LEMMA SummedNone ==
  ASSUME NEW N \in Nat, NEW x \in AP!AWcets, NEW d \in Nat
  PROVE  Summed(N, 0, 0, d, x)
<1>1. AP!ValSum(0, d, x.m) = 0
  BY Values, AP!NoSum
<1> QED
  BY <1>1 DEF Summed, Covers

LEMMA SummedNext ==
  ASSUME NEW M, NEW N \in Nat, NEW s, NEW x, Part(M, N, s, x), NEW k \in Nat, NEW d \in Nat,
         NEW acc, Summed(N, acc, k, d, x)
  PROVE  Summed(N, acc + El(M, s, d + k), k + 1, d, x)
<1>1. x.m \in AP!DecreasingWcets
  BY Values DEF Part
<1>2. AP!ValSum(k, d, x.m) \in Nat /\ AP!ValSum(k + 1, d, x.m) = AP!ValSum(k, d, x.m) + V(x.m, (d + k) + 1)
  BY <1>1, AP!OneMore DEF V
<1>3. d + k \in Nat
  OBVIOUS
<1>4. /\ Covers(N, El(M, s, d + k), V(x.m, (d + k) + 1)) /\ V(x.m, (d + k) + 1) \in Nat
  BY <1>3, Values DEF Part
<1> QED
  BY <1>2, <1>4 DEF Summed, Covers

\* The rest of a sum of b values, all of them behind the values of the header.
LEMMA SummedRest ==
  ASSUME NEW M, NEW N \in Nat, NEW s, NEW x, Part(M, N, s, x),
         NEW k \in Nat, NEW d \in Nat, NEW r \in Nat,
         NEW acc, Summed(N, acc, k, d, x), r = 0 \/ d + k >= s.cnt
  PROVE  Summed(N, acc + r * s.others, k + r, d, x)
<1> DEFINE c == s.others
<1>1. x.m \in AP!DecreasingWcets /\ x \in AP!AWcets /\ c \in Nat /\ s.cnt \in Nat
  BY Values DEF Part
<1>2. AP!ValSum(k, d, x.m) \in Nat /\ AP!ValSum(k + r, d, x.m) \in Nat
  <2>1. k + r \in Nat
    OBVIOUS
  <2> QED
    BY <1>1, <2>1, AP!OneMore
<1>3. acc \in Int /\ acc >= AP!ValSum(k, d, x.m) /\ (N <= 1 => acc = AP!ValSum(k, d, x.m))
  BY DEF Summed, Covers
<1>4. CASE r = 0
  <2>1. k + r = k /\ r * c = 0 /\ acc + 0 = acc
    BY <1>1, <1>3, <1>4
  <2> QED
    BY <2>1
<1>5. CASE d + k >= s.cnt
  <2>1. ASSUME NEW i \in Nat \ {0}, i > d + k
        PROVE  V(x.m, i) \in Nat /\ V(x.m, i) <= c /\ (N <= 1 => V(x.m, i) = c)
    <3>1. i - 1 \in Nat /\ i - 1 >= s.cnt /\ (i - 1) + 1 = i
      BY <1>1, <1>5, <2>1
    <3>2. Covers(N, c, V(x.m, (i - 1) + 1)) /\ V(x.m, (i - 1) + 1) \in Nat
      BY <1>1, <3>1, Values DEF Part
    <3> QED
      BY <1>1, <3>1, <3>2 DEF Covers
  <2> HIDE DEF c
  <2>6. \A i \in AP!Pos : i > d + k => AP!Value(x.m, i) <= c
    BY <2>1, SameTotals DEF V
  <2>7. N <= 1 => \A i \in AP!Pos : i > d + k => AP!Value(x.m, i) = c
    BY <2>1, SameTotals DEF V
  <2>2. AP!ValSum(k + r, d, x.m) <= AP!ValSum(k, d, x.m) + r * c
    BY <1>1, <2>6, AP!RestOfSum
  <2>3. N <= 1 => AP!ValSum(k + r, d, x.m) = AP!ValSum(k, d, x.m) + r * c
    <3> SUFFICES ASSUME N <= 1 PROVE AP!ValSum(k + r, d, x.m) = AP!ValSum(k, d, x.m) + r * c
      OBVIOUS
    <3> DEFINE m == x.m
               All == \A i \in AP!Pos : i > d + k => AP!Value(m, i) = c
    <3>1. All
      BY <2>7
    <3>2. m \in AP!DecreasingWcets /\ c \in Nat
      BY <1>1
    <3> HIDE DEF m
    <3>3. All => AP!ValSum(k + r, d, m) = AP!ValSum(k, d, m) + r * c
      BY <3>2, AP!RestOfSum
    <3> QED
      BY <3>1, <3>3 DEF m
  <2>4. r * c \in Nat
    BY <1>1
  <2>5. Covers(N, acc + r * c, AP!ValSum(k + r, d, x.m))
    <3> DEFINE q == r * c
    <3> HIDE DEF q
    <3>1. q \in Nat
      BY <2>4 DEF q
    <3>2. /\ AP!ValSum(k + r, d, x.m) <= AP!ValSum(k, d, x.m) + q
          /\ N <= 1 => AP!ValSum(k + r, d, x.m) = AP!ValSum(k, d, x.m) + q
      BY <2>2, <2>3 DEF q
    <3>3. Covers(N, acc + q, AP!ValSum(k + r, d, x.m))
      BY <1>2, <1>3, <3>1, <3>2 DEF Covers
    <3> QED
      BY <3>3 DEF q
  <2> QED
    BY <2>5 DEF Summed, c
<1> QED
  BY <1>4, <1>5

\* The loop whose values are those of another iteration of it: all in others.
LEMMA InnerLaw ==
  ASSUME NEW M, NEW N \in Nat, NEW x \in AP!AWcets, NEW b \in Nat, NEW l \in Int, x.loop = l,
         NEW h, h.loop = LOOP_TOP, h.cnt = 0, Summed(N, h.others, b, 0, x)
  PROVE  Good(M, N, h, AP!Pow(x, AP!Bot, l, b))
<1> DEFINE y == AP!Pow(x, AP!Bot, l, b)
<1>1. y.loop = LOOP_TOP /\ \A i \in AP!Pos : V(y.m, i) = AP!ValSum(b, 0, x.m)
  BY AP!PowLaw, SameTotals DEF V
<1> HIDE DEF y
<1>2. ASSUME NEW j \in Nat
      PROVE  Covers(N, El(M, h, j), V(y.m, j + 1))
  <2>1. j + 1 \in AP!Pos /\ ~(j < 0)
    BY SameTotals
  <2>2. V(y.m, j + 1) = AP!ValSum(b, 0, x.m) /\ El(M, h, j) = h.others
    BY <1>1, <2>1 DEF El
  <2> QED
    BY <2>2 DEF Summed
<1> QED
  BY <1>1, <1>2 DEF Good, y

\* The array after cnt packs of b values.
PackRow(M, N, e, cnt, b, x) ==
  \A j \in Nat : j < cnt => Summed(N, M[e][j + 1], b, j * b, x)

LEMMA PackOthers ==
  ASSUME NEW M, NEW N \in Nat, NEW s, NEW x, Part(M, N, s, x), NEW b \in Nat, NEW j \in Nat,
         NEW c \in Nat, s.cnt <= c * b, j >= c
  PROVE  Summed(N, s.others * b, b, j * b, x)
<1>1. x \in AP!AWcets /\ s.cnt \in Nat /\ s.others \in Nat
  BY DEF Part
<1>2. j * b \in Nat /\ c * b \in Nat
  OBVIOUS
<1>3. c * b <= j * b
  <2>1. j - c \in Nat
    OBVIOUS
  <2>2. (j - c) * b \in Nat
    BY <2>1
  <2>3. j * b = c * b + (j - c) * b
    OBVIOUS
  <2> QED
    BY <1>2, <2>2, <2>3
<1>4. (j * b) + 0 >= s.cnt
  BY <1>1, <1>2, <1>3
<1>5. Summed(N, 0, 0, j * b, x)
  BY <1>1, <1>2, SummedNone
<1>6. Summed(N, 0 + b * s.others, 0 + b, j * b, x)
  BY <1>2, <1>4, <1>5, SummedRest
<1>7. 0 + b = b /\ 0 + b * s.others = s.others * b
  BY <1>1
<1> QED
  BY <1>6, <1>7

LEMMA OuterLaw ==
  ASSUME NEW M, NEW N \in Nat, NEW s, NEW x, Part(M, N, s, x), NEW b \in Nat, NEW l \in Int,
         x.loop # l, NEW h, h.loop = s.loop, h.cnt \in Nat,
         h.others = s.others * b, s.cnt <= h.cnt * b,
         PackRow(M, N, h.eta, h.cnt, b, x)
  PROVE  Good(M, N, h, AP!Pow(x, AP!Bot, l, b))
<1> DEFINE y == AP!Pow(x, AP!Bot, l, b)
<1>1. x \in AP!AWcets /\ s.loop = x.loop
  BY DEF Part
<1>2. y.loop = x.loop /\ \A i \in AP!Pos : AP!Value(y.m, i) = AP!Value(AP!Pack(b, x.m), i)
  BY <1>1, AP!PowLaw, SameTotals
<1>3. \A j \in Nat : AP!Value(AP!Pack(b, x.m), j + 1) = AP!ValSum(b, j * b, x.m)
  BY <1>1, Values, AP!PackValues
<1> HIDE DEF y
<1>4. ASSUME NEW j \in Nat
      PROVE  Covers(N, El(M, h, j), V(y.m, j + 1))
  <2>1. j + 1 \in AP!Pos
    BY SameTotals
  <2>2. V(y.m, j + 1) = AP!ValSum(b, j * b, x.m)
    BY <1>2, <1>3, <2>1 DEF V
  <2>3. CASE j < h.cnt
    BY <2>2, <2>3 DEF El, PackRow, Summed
  <2>4. CASE ~(j < h.cnt)
    <3>1. j >= h.cnt
      BY <2>4
    <3>2. Summed(N, s.others * b, b, j * b, x)
      BY <3>1, PackOthers
    <3> QED
      BY <2>2, <2>4, <3>2 DEF El, Summed
  <2> QED
    BY <2>3, <2>4
<1> QED
  BY <1>1, <1>2, <1>4 DEF Good, y

\* A loop that is not iterated.
LEMMA ZeroLaw ==
  ASSUME NEW M, NEW N \in Nat, NEW x \in AP!AWcets, NEW l \in Int, x.loop \in {l, LOOP_TOP},
         NEW h, h.loop = LOOP_TOP, h.cnt = 0, h.others = 0
  PROVE  Good(M, N, h, AP!Pow(x, AP!Bot, l, 0))
<1>1. CASE x.loop = l
  <2>1. Summed(N, h.others, 0, 0, x)
    BY SummedNone
  <2> QED
    BY <1>1, <2>1, InnerLaw
<1>2. CASE x.loop # l
  <2> DEFINE y == AP!Pow(x, AP!Bot, l, 0)
  <2>1. x.loop = LOOP_TOP
    BY <1>2
  <2>2. y.loop = x.loop /\ \A i \in AP!Pos : AP!Value(y.m, i) = AP!Value(AP!Pack(0, x.m), i)
    BY <1>2, AP!PowLaw, SameTotals
  <2> HIDE DEF y
  <2>3. ASSUME NEW j \in Nat
        PROVE  Covers(N, El(M, h, j), V(y.m, j + 1))
    <3>1. j + 1 \in AP!Pos /\ j * 0 \in Nat
      BY SameTotals
    <3>2. AP!Value(AP!Pack(0, x.m), j + 1) = AP!ValSum(0, j * 0, x.m)
      BY Values, AP!PackValues
    <3>3. AP!ValSum(0, j * 0, x.m) = 0
      BY <3>1, Values, AP!NoSum
    <3>4. V(y.m, j + 1) = 0
      BY <2>2, <3>1, <3>2, <3>3 DEF V
    <3>5. El(M, h, j) = 0
      BY DEF El
    <3> QED
      BY <3>4, <3>5 DEF Covers
  <2> QED
    BY <2>1, <2>2, <2>3 DEF Good, y
<1> QED
  BY <1>1, <1>2

\* A condition that does not hold.
LEMMA BotGood ==
  ASSUME NEW M, NEW N \in Nat, NEW h, h.loop = LOOP_TOP, h.cnt = 0, h.others = 0
  PROVE  Good(M, N, h, AP!Bot)
<1>1. AP!Bot.loop = LOOP_TOP /\ \A i \in AP!Pos : V(AP!Bot.m, i) = 0
  BY AP!BotLaw, SameTotals DEF V
<1>2. ASSUME NEW j \in Nat
      PROVE  Covers(N, El(M, h, j), V(AP!Bot.m, j + 1))
  <2>1. j + 1 \in AP!Pos
    BY SameTotals
  <2>2. El(M, h, j) = 0 /\ V(AP!Bot.m, j + 1) = 0
    BY <1>1, <2>1 DEF El
  <2> QED
    BY <2>2 DEF Covers
<1> QED
  BY <1>1, <1>2 DEF Good

-----------------------------------------------------------------------------
(* The state of a call                                                     *)

Den(n) == Denotation(formula, val)[n]
Sources == [i \in DOMAIN F.kids |-> aw[F.kids[i]]]
Terms == Parts(formula, self, Denotation(formula, val))

\* A header of the node n points to the array of a node below n, or to the heap,
\* and a constant keeps the header that was printed.
Sits(frm, n, h) ==
  /\ h.eta \in Nodes => h.eta \in Below(frm, n)
  /\ frm[n].kind = "CONST" => h = ConstHeader(frm, n)

Cells(frm, M, n) ==
  /\ frm[n].kind = "CONST" => M[n] = frm[n].eta
  /\ frm[n].kind = "SEQ" => \A j \in 1..Len(M[n]) : M[n][j] >= 0

Places ==
  /\ \A l \in Lists : mem[l] = ListValues[l]
  /\ \A n \in Nodes : Sits(formula, n, aw[n]) /\ Cells(formula, mem, n)
  /\ \A d \in 1..Len(stack) : Sits(formula, stack[d].node, stack[d].hdr)

\* The array of a sequence that has not been visited yet.
Unused(frm, M, n) == frm[n].kind = "SEQ" => \A j \in 1..Len(M[n]) : M[n][j] = 0

Untouched ==
  /\ calls = 0 => status # "run" /\ \A n \in Nodes : Unused(formula, mem, n)
  /\ status = "run" /\ calls = 1 => \A d \in 1..Len(stack) :
       /\ d # 1 \/ loc.ph \in {"visit", "clear"} => Unused(formula, mem, stack[d].node)
       /\ \A c \in DOMAIN formula[stack[d].node].kids : c > stack[d].i =>
            \A n \in Below(formula, formula[stack[d].node].kids[c]) : Unused(formula, mem, n)

\* A condition guards the operand that is being evaluated.
Guarded ==
  status = "run" => \A d \in 1..Len(stack) :
    formula[stack[d].node].kind = "BOOLMULT" /\ stack[d].i = 1 => Holds(val, formula[stack[d].node])

\* The operand c of the frame d has been evaluated.
Done(d, c) ==
  /\ formula[stack[d].node].kind # "BOOLMULT"
  /\ c < stack[d].i \/ (d = 1 /\ c = stack[d].i)

Computed ==
  status = "run" =>
    /\ \A d \in 1..Len(stack) : \A c \in DOMAIN formula[stack[d].node].kids : Done(d, c) =>
         Good(mem, calls, aw[formula[stack[d].node].kids[c]], Den(formula[stack[d].node].kids[c]))
    /\ loc.ph = "done" => Good(mem, calls, dest, Den(self))

\* What the function of the node n has accumulated in its header h and its array,
\* when its locals are l and its operands stand for xs.
SeqWork(M, N, h, src, xs, n, l) ==
  /\ l.ph = "visit" /\ l.k # 0 => l.k \in 1..Len(xs) /\ SeqHead(N, h, src, xs, l.k)
  /\ l.ph \in {"clear", "sum"} => SeqHead(N, h, src, xs, Len(xs))
  /\ l.ph = "sum" => SeqRow(M, N, n, h.cnt, xs, l.k)

AltWork(M, N, h, src, xs, n, l) ==
  /\ l.ph = "visit" /\ l.k # 0 =>
       l.k \in 1..Len(xs) /\ AltHead(h, src, xs, l.k) /\ h.cnt = 0
  /\ l.ph \in {"merge", "take"} =>
       /\ AltHead(h, src, xs, Len(xs))
       /\ l.tab \in Vectors(Len(xs)) /\ h.cnt = TotalOf(l.tab)
       /\ AltRow(M, N, n, h.cnt, AP!UnionAll(xs))
       /\ N <= 1 => InOrder(M, src, l.tab, Len(xs))
  /\ l.ph = "take" => l.k \in 1..Len(xs) /\ Leads(M, src, l.tab, Len(xs), l.k)

\* The header of a loop that packs the values of its body s by b.
Packs(h, s, b) ==
  /\ h.loop = s.loop /\ h.others = s.others * b
  /\ s.cnt <= h.cnt * b /\ h.eta # NULL

LoopWork(M, N, h, src, xs, f, l, b) ==
  /\ l.ph = "first" =>
       /\ l.bound = b /\ b # 0 /\ src[1].loop = f.loop /\ l.k <= b
       /\ Summed(N, l.acc, l.k, 0, xs[1])
  /\ l.ph = "pack" =>
       /\ l.bound = b /\ b # 0 /\ src[1].loop # f.loop
       /\ Packs(h, src[1], b)
       /\ l.k <= h.cnt /\ l.j < b
       /\ Summed(N, l.acc, l.j, l.k * b, xs[1])
       /\ PackRow(M, N, h.eta, l.k, b, xs[1])

\* No other node, and no caller, has the array b.
Private(b) == b = self \/ (b \notin Nodes \cup Lists /\ \A n \in Nodes : n # self => aw[n].eta # b)

Working ==
  status = "run" =>
    /\ F.kind = "SEQ" => SeqWork(mem, calls, dest, Sources, Terms, self, loc)
    /\ F.kind = "ALT" => AltWork(mem, calls, dest, Sources, Terms, self, loc)
    /\ F.kind \in {"LOOP", "PARAM_LOOP"} =>
         /\ LoopWork(mem, calls, dest, Sources, Terms, F, loc, Bound)
         /\ loc.ph = "pack" => Private(dest.eta)

Ending == Answered => Good(mem, calls, aw[Root], Den(Root)) /\ result = El(mem, aw[Root], 0)

Sound == Places /\ Untouched /\ Guarded /\ Computed /\ Working /\ Ending

Ready == TInv /\ Nested /\ Steady /\ Safe /\ Plain(formula) /\ Sound

LEMMA ReadyFacts ==
  ASSUME Ready, status = "run"
  PROVE  /\ TInv /\ Nested /\ Steady /\ Safe /\ Plain(formula) /\ Fits(formula) /\ Sound
         /\ formula \in Formulas /\ val \in Valuations
         /\ calls \in Nat /\ calls # 0
         /\ self \in Nodes /\ self = stack[1].node /\ F = formula[self]
         /\ Len(stack) \in Nat \ {0} /\ 1 \in 1..Len(stack)
         /\ DOMAIN F.kids = 1..Len(F.kids) /\ Len(F.kids) \in Nat
         /\ \A i \in DOMAIN F.kids : F.kids[i] \in Nodes /\ F.kids[i] # self
         /\ loc \in LocType /\ aw \in [Nodes -> Header] /\ mem \in [Buffers -> Seq(Int)]
         /\ dest \in Header /\ dest.cnt \in Nat /\ Sits(formula, self, dest)
         /\ \A n \in Nodes : Den(n) \in AP!AWcets
<1>1. /\ TInv /\ Nested /\ Steady /\ Safe /\ Plain(formula) /\ Sound /\ Fits(formula)
      /\ formula \in Formulas /\ val \in Valuations
      /\ aw \in [Nodes -> Header] /\ mem \in [Buffers -> Seq(Int)]
      /\ calls \in 0..MaxCalls
  BY DEF Ready, Plain, TInv, Control, TypeOK
<1>2. /\ self \in Nodes /\ F = formula[self] /\ Len(stack) \in Nat \ {0} /\ Top = stack[1]
      /\ dest \in Header /\ DOMAIN F.kids = 1..Len(F.kids) /\ Len(F.kids) \in Nat
  BY <1>1, RunFacts
<1>3. self = stack[1].node /\ 1 \in 1..Len(stack)
  BY <1>2 DEF self
<1>4. loc \in LocType
  BY <1>1, TypeFacts DEF TInv
<1>5. calls \in Nat /\ calls # 0
  BY <1>1, RuntimeAssumption DEF Sound, Untouched
<1>6. Sits(formula, self, dest)
  BY <1>1, <1>2 DEF Sound, Places, dest
<1>7. \A n \in Nodes : Den(n) \in AP!AWcets
  BY <1>1, DenotedLaw DEF Den
<1>8. \A i \in DOMAIN F.kids : F.kids[i] \in Nodes /\ F.kids[i] # self
  BY <1>1, <1>2, FormulaFacts
<1>9. dest.cnt \in Nat
  BY <1>1, SelfFacts
<1> QED
  BY <1>1, <1>2, <1>3, <1>4, <1>5, <1>6, <1>7, <1>8, <1>9

-----------------------------------------------------------------------------
(* The steps of the function of the node on the top of the stack           *)

\* An annotation that shares the array b of its operand writes to it the values
\* that are there.
Rewritten(b) ==
  /\ F.kind = "ANN" /\ Visited /\ b = F.kids[1]
  /\ \A j \in Nat : El(mem', aw[b], j) = El(mem, aw[b], j)
  /\ Cells(formula, mem', b)

\* It writes the header h to its node, and only to the array b.
Local(h, b) ==
  /\ UNCHANGED <<formula, status, val, stack, result, calls>>
  /\ h \in Header /\ Sits(formula, self, h)
  /\ aw' = [aw EXCEPT ![self] = h]
  /\ \A c \in Buffers : c # b => mem'[c] = mem[c]
  /\ Private(b) \/ Rewritten(b)

\* What lies apart from the top of the stack.
LEMMA Apart ==
  ASSUME Ready, status = "run", NEW d \in 1..Len(stack),
         NEW c \in DOMAIN formula[stack[d].node].kids, d = 1 \/ c # stack[d].i
  PROVE  self \notin Below(formula, formula[stack[d].node].kids[c])
<1>1. TInv /\ Nested /\ self = stack[1].node /\ Len(stack) \in Nat \ {0}
  BY ReadyFacts
<1>2. 1 \in 1..d /\ (1 = d \/ c # stack[d].i)
  BY <1>1
<1> QED
  BY <1>1, <1>2, Beside

LEMMA OneOperand ==
  ASSUME Ready, status = "run", F.kind \in {"LOOP", "PARAM_LOOP", "BOOLMULT", "ANN"}
  PROVE  /\ formula[self] = F /\ Len(F.kids) = 1 /\ 1 \in DOMAIN F.kids
         /\ F.kids[1] \in Nodes /\ F.kids[1] # self /\ Source(1) = aw[F.kids[1]]
<1>1. /\ self \in Nodes /\ F = formula[self] /\ formula \in Formulas /\ Plain(formula)
      /\ DOMAIN F.kids = 1..Len(F.kids)
      /\ \A i \in DOMAIN F.kids : F.kids[i] \in Nodes /\ F.kids[i] # self
  BY ReadyFacts
<1>2. Len(F.kids) = 1
  BY <1>1, PlainFacts
<1> QED
  BY <1>1, <1>2 DEF Source

LEMMA ElementsKept ==
  ASSUME Ready, status = "run", NEW h, NEW b, Local(h, b),
         NEW m \in Nodes, self \notin Below(formula, m)
  PROVE  aw'[m] = aw[m] /\ \A j \in Nat : El(mem', aw[m], j) = El(mem, aw[m], j)
<1>1. /\ formula \in Formulas /\ self \in Nodes /\ aw \in [Nodes -> Header]
      /\ Safe /\ Sound
  BY ReadyFacts
<1>2. m \in Below(formula, m) /\ m # self
  BY <1>1, BelowClosed
<1>3. aw'[m] = aw[m] /\ aw[m] \in Header
  BY <1>1, <1>2 DEF Local
<1>4. HeaderInv(m, aw[m]) /\ Sits(formula, m, aw[m])
  BY <1>1 DEF Safe, Sound, Places
<1>5. aw[m].eta # b \/ (m = b /\ Rewritten(b))
  <2>1. CASE b = self
    <3>1. self \in Nodes /\ (aw[m].eta \in Nodes => aw[m].eta \in Below(formula, m))
      BY <1>1, <1>4 DEF Sits
    <3> QED
      BY <2>1, <3>1
  <2>2. CASE b # self /\ Private(b)
    BY <1>2, <2>2 DEF Private
  <2>3. CASE Rewritten(b)
    <3>1. b = formula[self].kids[1] /\ 1 \in DOMAIN formula[self].kids /\ b \in Nodes
      BY <2>3, OneOperand DEF Rewritten
    <3>2. b \in Below(formula, m) => b = m
      BY <1>1, <3>1, ParentBelow
    <3> QED
      BY <1>4, <2>3, <3>1, <3>2 DEF Sits
  <2> QED
    BY <2>1, <2>2, <2>3 DEF Local
<1>6. aw[m].cnt \in Nat /\ aw[m].eta \in Buffers \cup {NULL}
  BY <1>3, <1>4 DEF Header, Pointers, HeaderInv
<1>7. ASSUME NEW j \in Nat
      PROVE  El(mem', aw[m], j) = El(mem, aw[m], j)
  <2>1. CASE aw[m].eta = NULL
    <3>1. aw[m].cnt = 0
      BY <1>4, <2>1 DEF HeaderInv
    <3> QED
      BY <3>1 DEF El
  <2>2. CASE aw[m].eta # NULL /\ aw[m].eta # b
    <3>1. mem'[aw[m].eta] = mem[aw[m].eta]
      BY <1>6, <2>2 DEF Local
    <3> QED
      BY <3>1 DEF El
  <2>3. CASE m = b /\ Rewritten(b)
    BY <2>3 DEF Rewritten
  <2> QED
    BY <1>5, <2>1, <2>2, <2>3
<1> QED
  BY <1>3, <1>7

LEMMA GoodKept ==
  ASSUME Ready, status = "run", NEW h, NEW b, Local(h, b),
         NEW m \in Nodes, self \notin Below(formula, m), NEW x, Good(mem, calls, aw[m], x)
  PROVE  Good(mem', calls, aw'[m], x)
BY ElementsKept DEF Good

LEMMA DoneFacts ==
  ASSUME Ready, status = "run", NEW d \in 1..Len(stack),
         NEW c \in DOMAIN formula[stack[d].node].kids, Done(d, c)
  PROVE  /\ formula[stack[d].node].kids[c] \in Nodes
         /\ self \notin Below(formula, formula[stack[d].node].kids[c])
         /\ Good(mem, calls, aw[formula[stack[d].node].kids[c]], Den(formula[stack[d].node].kids[c]))
<1>1. TInv /\ Sound
  BY ReadyFacts
<1>2. /\ formula[stack[d].node].kids[c] \in Nodes
      /\ DOMAIN formula[stack[d].node].kids = 1..Len(formula[stack[d].node].kids)
      /\ stack[d].i \in 0..Len(formula[stack[d].node].kids)
      /\ Len(formula[stack[d].node].kids) \in Nat
  BY <1>1, FrameFacts
<1>3. d = 1 \/ c # stack[d].i
  BY <1>2 DEF Done
<1> QED
  BY <1>1, <1>2, <1>3, Apart DEF Sound, Computed

\* The operands of the node, once they have been evaluated.
LEMMA OperandsStand ==
  ASSUME Ready, status = "run", Visited,
         F.kind \in {"SEQ", "ALT", "LOOP", "PARAM_LOOP", "ANN"}
  PROVE  /\ Stand(mem, calls, Sources, Terms)
         /\ Len(Terms) = Len(F.kids) /\ Len(F.kids) >= 1 /\ 1 \in DOMAIN F.kids
         /\ \A i \in DOMAIN F.kids : Sources[i] = Source(i)
         /\ Meaning(val, F, Terms) = Den(self)
<1>1. /\ formula \in Formulas /\ val \in Valuations /\ Plain(formula) /\ self \in Nodes
      /\ self = stack[1].node /\ F = formula[self] /\ 1 \in 1..Len(stack)
      /\ DOMAIN F.kids = 1..Len(F.kids) /\ Len(F.kids) \in Nat
      /\ \A n \in Nodes : Den(n) \in AP!AWcets /\ aw[n] \in Header
      /\ \A i \in DOMAIN F.kids : F.kids[i] \in Nodes /\ F.kids[i] # self
  BY ReadyFacts
<1>2. /\ Len(Terms) = Len(F.kids) /\ AP!AreWcets(Terms) /\ 1 \in DOMAIN F.kids
      /\ \A i \in DOMAIN F.kids : Terms[i] = Den(F.kids[i])
  <2> DEFINE den == Denotation(formula, val)
  <2>1. \A i \in DOMAIN formula[self].kids : den[formula[self].kids[i]] \in AP!AWcets
    BY <1>1 DEF Den
  <2>2. formula[self].kind \in {"SEQ", "ALT", "LOOP", "PARAM_LOOP", "BOOLMULT", "ANN"}
    BY <1>1
  <2>3. (\A m : Den(m) = den[m]) /\ Terms = Parts(formula, self, den) /\ F = formula[self]
    BY <1>1 DEF Den, Terms
  <2>5. formula \in Formulas /\ Plain(formula) /\ self \in Nodes
    BY <1>1
  <2> HIDE DEF den
  <2>4. /\ Len(Parts(formula, self, den)) = Len(formula[self].kids)
        /\ AP!AreWcets(Parts(formula, self, den)) /\ 1 \in DOMAIN formula[self].kids
        /\ \A i \in DOMAIN formula[self].kids :
             Parts(formula, self, den)[i] = den[formula[self].kids[i]]
    BY <2>1, <2>2, <2>5, PartsLaw
  <2> QED
    BY <2>3, <2>4
<1>3. ASSUME NEW i \in DOMAIN F.kids
      PROVE  Source(i) \in Header /\ Source(i).cnt \in Nat /\ Good(mem, calls, Source(i), Terms[i])
  <2>1. Done(1, i)
    <3>1. Top = stack[1] /\ Top.i = Len(F.kids)
      BY RunFacts, ReadyFacts DEF Visited
    <3>2. i < stack[1].i \/ i = stack[1].i
      BY <1>1, <3>1
    <3> QED
      BY <1>1, <3>2 DEF Done
  <2>2. Good(mem, calls, aw[F.kids[i]], Den(F.kids[i]))
    BY <1>1, <2>1, DoneFacts
  <2>3. Source(i).cnt \in Nat
    BY SelfFacts, ReadyFacts
  <2> QED
    BY <1>1, <1>2, <2>2, <2>3 DEF Source
<1>4. \A i \in DOMAIN F.kids : Sources[i] = Source(i)
  BY DEF Sources, Source
<1>5. Stand(mem, calls, Sources, Terms)
  BY <1>1, <1>2, <1>3, <1>4 DEF Stand
<1>6. Meaning(val, F, Terms) = Den(self)
  BY <1>1, DenotedLaw DEF Terms, Den
<1> QED
  BY <1>1, <1>2, <1>4, <1>5, <1>6

\* They keep their headers and values.
LEMMA OperandsKept ==
  ASSUME Ready, status = "run", NEW h, NEW b, Local(h, b)
  PROVE  /\ self' = self /\ F' = F /\ dest' = h /\ Terms' = Terms /\ Visited' = Visited
         /\ Sources' = Sources
         /\ \A i \in DOMAIN F.kids : /\ aw'[F.kids[i]] = aw[F.kids[i]]
                                    /\ \A j \in Nat : El(mem', Source(i), j) = El(mem, Source(i), j)
<1>1. /\ formula \in Formulas /\ self \in Nodes /\ aw \in [Nodes -> Header]
      /\ self = stack[1].node /\ F = formula[self] /\ 1 \in 1..Len(stack)
      /\ \A i \in DOMAIN F.kids : F.kids[i] \in Nodes
  BY ReadyFacts
<1>2. self' = self /\ F' = F /\ Terms' = Terms /\ Visited' = Visited
  BY DEF Local, self, F, Top, Terms, Visited
<1>3. dest' = h
  BY <1>1, <1>2 DEF Local, dest
<1>4. \A i \in DOMAIN F.kids : /\ aw'[F.kids[i]] = aw[F.kids[i]]
                               /\ \A j \in Nat : El(mem', Source(i), j) = El(mem, Source(i), j)
  <2> SUFFICES ASSUME NEW i \in DOMAIN F.kids
               PROVE  /\ aw'[F.kids[i]] = aw[F.kids[i]]
                      /\ \A j \in Nat : El(mem', Source(i), j) = El(mem, Source(i), j)
    OBVIOUS
  <2>1. self \notin Below(formula, F.kids[i])
    BY <1>1, Apart
  <2> QED
    BY <1>1, <2>1, ElementsKept DEF Source
<1>5. Sources' = Sources
  BY <1>2, <1>4 DEF Sources
<1> QED
  BY <1>2, <1>3, <1>4, <1>5

LEMMA LocalSound ==
  ASSUME Ready, status = "run", NEW h, NEW b, Local(h, b),
         F.kind # "CONST" \/ mem' = mem,
         F.kind = "SEQ" => \A j \in 1..Len(mem'[self]) : mem'[self][j] >= 0,
         F.kind = "SEQ" /\ loc'.ph \in {"visit", "clear"} =>
           loc.ph \in {"visit", "clear"} /\ mem' = mem,
         loc'.ph = "done" => Good(mem', calls, h, Den(self)),
         Working'
  PROVE  Sound'
<1>1. /\ formula \in Formulas /\ self \in Nodes /\ aw \in [Nodes -> Header] /\ Sound
      /\ self = stack[1].node /\ F = formula[self] /\ TInv /\ Nested
  BY ReadyFacts
<1>2. /\ formula' = formula /\ status' = status /\ val' = val /\ stack' = stack
      /\ result' = result /\ calls' = calls
      /\ self' = self /\ dest' = h
  BY OperandsKept DEF Local
<1>3. ASSUME NEW n \in Nodes, n # self
      PROVE  aw'[n] = aw[n] /\ (mem'[n] = mem[n] \/ (n = b /\ Rewritten(b)))
  <2>1. n \in Buffers /\ (n = b => Rewritten(b))
    BY <1>3 DEF Local, Private, Buffers
  <2> QED
    BY <1>1, <1>3, <2>1 DEF Local
<1>4. aw'[self] = h /\ Sits(formula, self, h)
  BY <1>1 DEF Local
<1>5. Places'
  <2>1. ASSUME NEW n \in Nodes
        PROVE  Sits(formula, n, aw'[n]) /\ Cells(formula, mem', n)
    <3>1. CASE n = self
      <4>1. Cells(formula, mem, n)
        BY <1>1 DEF Sound, Places
      <4>2. Cells(formula, mem', n)
        BY <1>1, <3>1, <4>1 DEF Cells
      <4> QED
        BY <1>4, <3>1, <4>2
    <3>2. CASE n # self
      <4>1. aw'[n] = aw[n]
        BY <1>3, <3>2
      <4>2. Sits(formula, n, aw[n]) /\ Cells(formula, mem, n)
        BY <1>1 DEF Sound, Places
      <4>3. Cells(formula, mem', n)
        BY <1>3, <3>2, <4>2 DEF Cells, Rewritten
      <4> QED
        BY <4>1, <4>2, <4>3
    <3> QED
      BY <3>1, <3>2
  <2>2. \A d \in 1..Len(stack) : Sits(formula, stack[d].node, stack[d].hdr)
    BY <1>1 DEF Sound, Places
  <2>3. \A l \in Lists : mem'[l] = ListValues[l]
    <3>1. b \notin Lists
      <4>1. Nodes \cap Lists = {}
        BY RuntimeAssumption
      <4>2. Rewritten(b) => b \in Nodes
        BY OneOperand DEF Rewritten
      <4> QED
        BY <1>1, <4>1, <4>2 DEF Local, Private
    <3>2. \A l \in Lists : l \in Buffers /\ mem[l] = ListValues[l]
      BY <1>1 DEF Sound, Places, Buffers
    <3> QED
      BY <3>1, <3>2 DEF Local
  <2> QED
    BY <1>2, <2>1, <2>2, <2>3 DEF Places
<1>6. ASSUME Rewritten(b), NEW d \in 1..Len(stack)
       PROVE  stack[d].node # b
  <2>1. b = formula[self].kids[1] /\ 1 \in DOMAIN formula[self].kids
    BY <1>6, OneOperand DEF Rewritten
  <2>2. self \notin Below(formula, b)
    BY <1>1, <2>1, NotBelow
  <2>3. 1 \in 1..d
    OBVIOUS
  <2>4. self \in Below(formula, stack[d].node)
    BY <1>1, <2>3 DEF Nested
  <2> QED
    BY <2>2, <2>4
<1>7. ASSUME Rewritten(b), NEW d \in 1..Len(stack), NEW c \in DOMAIN formula[stack[d].node].kids,
              c > stack[d].i
       PROVE  b \notin Below(formula, formula[stack[d].node].kids[c])
  <2>1. b = formula[self].kids[1] /\ 1 \in DOMAIN formula[self].kids /\ Len(F.kids) = 1
        /\ Top.i = Len(F.kids)
    BY <1>7, OneOperand DEF Rewritten, Visited
  <2>2. /\ formula[stack[d].node].kids[c] \in Nodes /\ stack[d].node \in Nodes
        /\ c \in Nat /\ stack[d].i \in Nat
    BY <1>1, <1>7, FrameFacts
  <2>3. d # 1
    <3>1. Top = stack[1]
      BY RunFacts, <1>1
    <3>2. d = 1 => stack[d].i = 1 /\ c \in 1..1
      BY <1>1, <2>1, <3>1, ReadyFacts
    <3> QED
      BY <1>7, <3>2
  <2>4. self \notin Below(formula, formula[stack[d].node].kids[c])
    <3>1. c # stack[d].i
      BY <1>7, <2>2
    <3> QED
      BY <1>7, <3>1, Apart
  <2>5. b # formula[stack[d].node].kids[c]
    <3>1. stack[d].node # self
      BY <1>1, <2>3, AboveOthers, ReadyFacts
    <3> QED
      BY <1>1, <1>7, <2>1, <2>2, <3>1, FormulasAssumption DEF Tree
  <2> QED
    BY <1>1, <2>1, <2>2, <2>4, <2>5, ParentBelow
<1>8. Untouched'
  <2>1. calls = 0 => status # "run"
    BY <1>1 DEF Sound, Untouched
  <2>2. ASSUME calls = 1, NEW d \in 1..Len(stack),
               d # 1 \/ loc'.ph \in {"visit", "clear"}
        PROVE  Unused(formula, mem', stack[d].node)
    <3>1. CASE d = 1
      <4>1. F.kind = "SEQ" => Unused(formula, mem, self)
        BY <1>1, <2>2, <3>1 DEF Sound, Untouched
      <4> QED
        BY <1>1, <2>2, <3>1, <4>1 DEF Unused
    <3>2. CASE d # 1
      <4>1. Unused(formula, mem, stack[d].node)
        BY <1>1, <2>2, <3>2 DEF Sound, Untouched
      <4>2. stack[d].node \in Nodes /\ stack[d].node # self
        BY <1>1, <3>2, FrameFacts, AboveOthers, ReadyFacts
      <4>3. mem'[stack[d].node] = mem[stack[d].node]
        BY <1>3, <1>6, <4>2
      <4> QED
        BY <4>1, <4>3 DEF Unused
    <3> QED
      BY <3>1, <3>2
  <2>3. ASSUME calls = 1, NEW d \in 1..Len(stack), NEW c \in DOMAIN formula[stack[d].node].kids,
               c > stack[d].i, NEW n \in Below(formula, formula[stack[d].node].kids[c])
        PROVE  Unused(formula, mem', n)
    <3>1. Unused(formula, mem, n)
      BY <1>1, <2>3 DEF Sound, Untouched
    <3>2. /\ formula[stack[d].node].kids[c] \in Nodes
          /\ c \in Nat /\ stack[d].i \in Nat
      BY <1>1, FrameFacts
    <3>3. self \notin Below(formula, formula[stack[d].node].kids[c])
      BY <2>3, <3>2, Apart
    <3>4. n \in Nodes /\ n # self
      BY <1>1, <3>2, <3>3, BelowClosed
    <3>5. mem'[n] = mem[n]
      BY <1>3, <1>7, <2>3, <3>4
    <3> QED
      BY <3>1, <3>5 DEF Unused
  <2> QED
    BY <1>2, <2>1, <2>2, <2>3 DEF Untouched
<1>9. Guarded'
  BY <1>1, <1>2 DEF Guarded, Sound
<1>10. Computed'
  <2>1. ASSUME NEW d \in 1..Len(stack), NEW c \in DOMAIN formula[stack[d].node].kids, Done(d, c)
        PROVE  Good(mem', calls, aw'[formula[stack[d].node].kids[c]], Den(formula[stack[d].node].kids[c]))
    BY <2>1, DoneFacts, GoodKept
  <2>2. \A d, c : Done(d, c)' = Done(d, c)
    BY <1>2 DEF Done
  <2>3. \A n : Den(n)' = Den(n)
    BY <1>2 DEF Den
  <2> QED
    BY <1>2, <2>1, <2>2, <2>3 DEF Computed
<1>11. Ending'
  BY <1>2 DEF Ending, Answered
<1> QED
  BY <1>5, <1>8, <1>9, <1>10, <1>11 DEF Sound

LEMMA SelfLocal ==
  ASSUME Ready, status = "run", NEW h \in Header, Sits(formula, self, h),
         UNCHANGED <<formula, status, val, stack, result, calls>>,
         aw' = [aw EXCEPT ![self] = h],
         \A c \in Buffers : c # self => mem'[c] = mem[c]
  PROVE  Local(h, self)
BY DEF Local, Private

LEMMA StayLocal ==
  ASSUME Ready, status = "run",
         UNCHANGED <<formula, status, val, stack, aw, result, calls>>,
         NEW b, Private(b), \A c \in Buffers : c # b => mem'[c] = mem[c]
  PROVE  Local(dest, b)
<1>1. aw \in [Nodes -> Header] /\ self \in Nodes /\ dest \in Header /\ Sits(formula, self, dest)
  BY ReadyFacts
<1>2. aw' = [aw EXCEPT ![self] = dest]
  BY <1>1 DEF dest
<1> QED
  BY <1>1, <1>2 DEF Local

LEMMA FinishSound ==
  ASSUME Ready, status = "run", NEW h, NEW b, Local(h, b), loc' = Finished,
         F.kind # "CONST" \/ mem' = mem,
         F.kind = "SEQ" => \A j \in 1..Len(mem'[self]) : mem'[self][j] >= 0,
         Good(mem', calls, h, Den(self))
  PROVE  Sound'
<1>1. loc'.ph = "done"
  BY FinishedType
<1>2. Working'
  BY <1>1 DEF Working, SeqWork, AltWork, LoopWork
<1> QED
  BY <1>1, <1>2, LocalSound

LEMMA ConstNodeSound ==
  ASSUME Ready, status = "run", ConstNode
  PROVE  Sound'
<1>1. F.kind = "CONST" /\ loc' = Finished /\ mem' = mem
      /\ UNCHANGED <<formula, status, val, stack, aw, result, calls>>
  BY DEF ConstNode, In, Go
<1>2. /\ self \in Nodes /\ F = formula[self] /\ Sits(formula, self, dest) /\ Sound
      /\ formula \in Formulas /\ val \in Valuations /\ Plain(formula)
  BY ReadyFacts
<1>3. dest = ConstHeader(formula, self) /\ mem[self] = formula[self].eta
  BY <1>1, <1>2 DEF Sits, Sound, Places, Cells
<1> DEFINE e == formula[self].eta
           m == AP!MWcet(formula[self].eta, formula[self].others)
<1>4. Den(self) = AP!AWcet(formula[self].loop, m)
  <2>1. Den(self) = Meaning(val, formula[self], Terms)
    BY <1>2, DenotedLaw DEF Den, Terms
  <2> QED
    BY <1>1, <1>2, <2>1, SameAlgebra DEF Meaning
<1>5. \A j \in Nat : V(m, j + 1) = IF j < Len(e) THEN e[j + 1] ELSE formula[self].others
  BY <1>1, <1>2, ConstMeaning
<1>6. e \in Seq(Nat) /\ formula[self].others \in Nat
  BY <1>1, <1>2, ConstMeaning
<1> HIDE DEF m
<1>7. Den(self).loop = formula[self].loop /\ Den(self).m = m
  BY <1>4 DEF AP!AWcet
<1>8. dest.loop = formula[self].loop /\ dest.cnt = Len(e) /\ dest.others = formula[self].others
      /\ dest.eta = IF e = <<>> THEN NULL ELSE self
  BY <1>3 DEF ConstHeader
<1> HIDE DEF e
<1>9. ASSUME NEW j \in Nat
      PROVE  Covers(calls, El(mem, dest, j), V(m, j + 1))
  <2>1. CASE j < Len(e)
    <3>1. e # <<>> /\ j + 1 \in 1..Len(e)
      BY <1>6, <2>1, EmptySeq
    <3>2. El(mem, dest, j) = e[j + 1] /\ e[j + 1] \in Nat /\ V(m, j + 1) = e[j + 1]
      BY <1>3, <1>5, <1>6, <1>8, <2>1, <3>1, ElementOfSeq DEF El, e
    <3> QED
      BY <3>2 DEF Covers
  <2>2. CASE ~(j < Len(e))
    <3>1. El(mem, dest, j) = formula[self].others /\ V(m, j + 1) = formula[self].others
      BY <1>5, <1>8, <2>2 DEF El
    <3> QED
      BY <1>6, <3>1 DEF Covers
  <2> QED
    BY <2>1, <2>2
<1>10. Good(mem', calls, dest, Den(self))
  BY <1>1, <1>7, <1>8, <1>9 DEF Good
<1>11. Local(dest, self)
  BY <1>1, StayLocal DEF Private
<1> QED
  BY <1>1, <1>10, <1>11, FinishSound

LEMMA AwcetNodeSound ==
  ASSUME Ready, status = "run", AwcetNode
  PROVE  Sound'
<1> DEFINE p == val.aw[F.param]
           h == [loop |-> p.loop, cnt |-> p.cnt, eta |-> p.eta, others |-> p.others]
           m == AP!MWcet(Given(p), p.others)
<1>1. /\ self \in Nodes /\ F = formula[self] /\ formula \in Formulas /\ val \in Valuations
      /\ Plain(formula)
  BY ReadyFacts
<1>2. F.kind = "AWCET"
  BY DEF AwcetNode, In
<1>3. /\ p.header /\ p.loop \in Int /\ p.cnt \in Nat /\ p.others \in Nat
      /\ p.eta \in Lists \cup {NULL} /\ (p.cnt # 0 => p.eta \in Lists)
      /\ Given(p) \in Seq(Int) /\ Len(Given(p)) = p.cnt
      /\ \A j \in 1..p.cnt : Given(p)[j] = ListValues[p.eta][j]
      /\ Decreasing(Given(p), p.others)
  BY <1>1, <1>2, PlainCallee
<1>4. loc' = Finished /\ mem' = mem /\ aw' = [aw EXCEPT ![self] = h]
      /\ UNCHANGED <<formula, status, val, stack, result, calls>>
  BY <1>3 DEF AwcetNode, Put
<1>5. \A l \in Lists : mem[l] = ListValues[l]
  BY ReadyFacts DEF Sound, Places
<1>6. Den(self) = AP!AWcet(p.loop, m)
  <2>1. Den(self) = Meaning(val, formula[self], Terms)
    BY <1>1, DenotedLaw DEF Den, Terms
  <2> QED
    BY <1>1, <1>2, <2>1, SameAlgebra DEF Meaning
<1> HIDE DEF p
<1>7. h \in Header /\ Sits(formula, self, h)
  <2>1. p.eta \in Pointers /\ p.eta \notin Nodes
    BY <1>3, RuntimeAssumption DEF Pointers, Buffers
  <2> QED
    BY <1>1, <1>2, <1>3, <2>1 DEF Header, Sits
<1>8. /\ \A j \in Nat : V(m, j + 1) = IF j < p.cnt THEN Given(p)[j + 1] ELSE p.others
      /\ Given(p) \in Seq(Nat)
  <2> DEFINE e == Given(p)
             o == p.others
  <2>1. e \in Seq(Int) /\ o \in Nat /\ Decreasing(e, o) /\ Len(e) = p.cnt
    BY <1>3
  <2> HIDE DEF e, o
  <2>2. /\ e \in Seq(Nat)
        /\ \A j \in Nat : V(AP!MWcet(e, o), j + 1) = IF j < Len(e) THEN e[j + 1] ELSE o
    BY <2>1, ListMeaning
  <2> QED
    BY <2>1, <2>2 DEF e, o
<1>9. Given(p) \in Seq(Nat)
  BY <1>8
<1> HIDE DEF m
<1>10. Den(self).loop = p.loop /\ Den(self).m = m
  BY <1>6 DEF AP!AWcet
<1>11. ASSUME NEW j \in Nat
       PROVE  Covers(calls, El(mem, h, j), V(m, j + 1))
  <2>1. CASE j < p.cnt
    <3>1. j + 1 \in 1..p.cnt /\ p.eta \in Lists
      BY <1>3, <2>1
    <3>2. Given(p)[j + 1] \in Nat
      BY <1>3, <1>9, <3>1, ElementOfSeq
    <3>3. El(mem, h, j) = Given(p)[j + 1] /\ V(m, j + 1) = Given(p)[j + 1]
      BY <1>3, <1>5, <1>8, <2>1, <3>1 DEF El
    <3> QED
      BY <3>2, <3>3 DEF Covers
  <2>2. CASE ~(j < p.cnt)
    <3>1. El(mem, h, j) = p.others /\ V(m, j + 1) = p.others
      BY <1>8, <2>2 DEF El
    <3> QED
      BY <1>3, <3>1 DEF Covers
  <2> QED
    BY <2>1, <2>2
<1>12. Good(mem', calls, h, Den(self))
  BY <1>4, <1>10, <1>11 DEF Good
<1> HIDE DEF h
<1>13. Local(h, self)
  BY <1>4, <1>7, SelfLocal
<1> QED
  BY <1>2, <1>4, <1>12, <1>13, FinishSound

LEMMA StandKept ==
  ASSUME Ready, status = "run", Visited, F.kind \in {"SEQ", "ALT", "LOOP", "PARAM_LOOP", "ANN"},
         NEW h, NEW b, Local(h, b)
  PROVE  Stand(mem', calls, Sources, Terms)
<1>1. /\ Stand(mem, calls, Sources, Terms) /\ Len(Terms) = Len(F.kids)
      /\ \A i \in DOMAIN F.kids : Sources[i] = Source(i)
      /\ DOMAIN F.kids = 1..Len(F.kids)
  BY OperandsStand, ReadyFacts
<1>2. \A i \in 1..Len(Terms) : \A j \in Nat : El(mem', Sources[i], j) = El(mem, Sources[i], j)
  BY <1>1, OperandsKept
<1> QED
  BY <1>1, <1>2 DEF Stand, Good

LEMMA SeqWorking ==
  ASSUME Ready, status = "run", F.kind = "SEQ", NEW h, NEW b, Local(h, b),
         SeqWork(mem', calls, h, Sources, Terms, self, loc')
  PROVE  Working'
<1>1. /\ F' = F /\ self' = self /\ dest' = h /\ Sources' = Sources /\ Terms' = Terms
      /\ calls' = calls
  BY OperandsKept DEF Local
<1> QED
  BY <1>1 DEF Working

-----------------------------------------------------------------------------
(* awcet_seq                                                               *)

LEMMA SeqState ==
  ASSUME Ready, status = "run", F.kind = "SEQ", Visited
  PROVE  /\ dest.eta = self /\ dest.cnt \in Nat /\ dest.others \in Int /\ dest.loop \in Int
         /\ dest.cnt <= Len(mem[self]) /\ Len(mem[self]) \in Nat /\ mem[self] \in Seq(Int)
         /\ self \in Buffers
         /\ \A j \in 1..Len(mem[self]) : mem[self][j] \in Int /\ mem[self][j] >= 0
         /\ SeqWork(mem, calls, dest, Sources, Terms, self, loc)
         /\ Stand(mem, calls, Sources, Terms) /\ Len(Terms) = Len(F.kids)
         /\ \A i \in DOMAIN F.kids : Sources[i] = Source(i) /\ Source(i) \in Header
         /\ DOMAIN F.kids = 1..Len(F.kids) /\ Len(F.kids) \in Nat
         /\ Den(self) = AP!SumAll(Terms)
<1>1. /\ TInv /\ Safe /\ Fits(formula) /\ Sound /\ self \in Nodes /\ dest \in Header
      /\ mem \in [Buffers -> Seq(Int)] /\ F = formula[self]
      /\ DOMAIN F.kids = 1..Len(F.kids) /\ Len(F.kids) \in Nat
  BY ReadyFacts
<1>2. dest.eta = self /\ HeaderInv(self, dest)
  BY <1>1, SelfFacts DEF Owners
<1>3. dest.cnt \in Nat /\ dest.others \in Int /\ dest.loop \in Int
  BY <1>1, ReadyFacts DEF Header
<1>4. self \in Buffers /\ mem[self] \in Seq(Int) /\ Len(mem[self]) \in Nat
  BY <1>1, LenProperties DEF Buffers
<1>5. dest.cnt <= Len(mem[self])
  BY <1>2, <1>3, <1>4 DEF HeaderInv
<1>6. \A j \in 1..Len(mem[self]) : mem[self][j] \in Int /\ mem[self][j] >= 0
  BY <1>1, <1>4, ElementOfSeq DEF Sound, Places, Cells
<1>7. SeqWork(mem, calls, dest, Sources, Terms, self, loc)
  BY <1>1 DEF Sound, Working
<1>8. /\ Stand(mem, calls, Sources, Terms) /\ Len(Terms) = Len(F.kids)
      /\ \A i \in DOMAIN F.kids : Sources[i] = Source(i)
      /\ Meaning(val, F, Terms) = Den(self)
  BY OperandsStand
<1>9. \A i \in DOMAIN F.kids : Source(i) \in Header
  BY <1>1, RunFacts
<1>10. Den(self) = AP!SumAll(Terms)
  BY <1>8, SameAlgebra DEF Meaning
<1> QED
  BY <1>1, <1>2, <1>3, <1>4, <1>5, <1>6, <1>7, <1>8, <1>9, <1>10

LEMMA SeqScanSound ==
  ASSUME Ready, status = "run", SeqScan
  PROVE  Sound'
<1> DEFINE n == loc.k + 1
           s == Source(n)
           h == [loop |-> IF loc.k = 0 THEN s.loop ELSE Innermost(s.loop, dest.loop),
                 cnt |-> IF dest.cnt < s.cnt THEN s.cnt ELSE dest.cnt,
                 eta |-> dest.eta,
                 others |-> (IF loc.k = 0 THEN 0 ELSE dest.others) + s.others]
           p == IF n = Len(F.kids) THEN "clear" ELSE loc.ph
           l == [loc EXCEPT !.k = n, !.ph = p]
<1>1. /\ F.kind = "SEQ" /\ loc.ph = "visit" /\ Visited /\ loc.k < Len(F.kids)
  BY DEF SeqScan, In
<1>2. /\ aw' = [aw EXCEPT ![self] = h] /\ loc' = l /\ mem' = mem
      /\ UNCHANGED <<formula, status, val, stack, result, calls>>
  BY DEF SeqScan, Put
<1>3. /\ loc \in LocType /\ dest \in Header /\ Sits(formula, self, dest)
      /\ self \in Nodes /\ F = formula[self] /\ calls \in Nat
  BY ReadyFacts
<1>4. loc.k \in Nat /\ n \in DOMAIN F.kids /\ n \in 1..Len(Terms) /\ Len(Terms) \in Nat
      /\ (loc.k # 0 => loc.k \in 1..Len(Terms))
  <2>1. loc.k \in Nat
    BY <1>3 DEF LocType
  <2> QED
    BY <1>1, <2>1, SeqState
<1>5. /\ loc'.ph = p /\ loc'.k = n /\ p \in {"visit", "clear"}
  <2>1. n \in Nat /\ p \in Phases /\ p \in {"visit", "clear"}
    BY <1>1, <1>4 DEF Phases
  <2> HIDE DEF n, p
  <2>2. loc' = l
    BY <1>2
  <2>3. loc \in LocType
    BY <1>3
  <2>4. l \in LocType /\ l.ph = p /\ l.k = n
    <3> HIDE DEF n, p
    <3> DEFINE c == [loc EXCEPT !.k = n]
    <3>1. c \in LocType /\ c.k = n
      BY <2>1, <2>3, LocExceptCounter
    <3>2. l = [c EXCEPT !.ph = p]
      OBVIOUS
    <3> HIDE DEF c, l
    <3> QED
      BY <2>1, <3>1, <3>2, LocExceptPhase
  <2> HIDE DEF n, p, l
  <2> QED
    BY <2>1, <2>2, <2>4
<1>6. s \in Header /\ s = Sources[n] /\ s.cnt \in Nat
  BY <1>1, <1>4, SeqState, SelfFacts, ReadyFacts
<1> HIDE DEF n, s, p, l
<1>7. s.cnt \in Nat /\ s.others \in Int /\ s.loop \in Int
  BY <1>6 DEF Header
<1>8. /\ dest.cnt \in Nat /\ dest.others \in Int /\ dest.loop \in Int /\ dest.eta \in Pointers
  BY <1>3, ReadyFacts DEF Header
<1>9. h \in Header /\ h.eta = dest.eta
  <2>1. Innermost(s.loop, dest.loop) \in Int
    BY <1>7, <1>8 DEF Innermost
  <2> QED
    BY <1>7, <1>8, <2>1 DEF Header
<1>10. loc.k = 0 => SeqStart(h, s)
  BY <1>7, <1>8 DEF SeqStart
<1>11. loc.k # 0 => SeqNext(h, dest, s)
  BY <1>7, <1>8 DEF SeqNext
<1> HIDE DEF h
<1>12. Sits(formula, self, h)
  BY <1>1, <1>3, <1>9 DEF Sits
<1>13. Local(h, self)
  BY <1>2, <1>9, <1>12, SelfLocal
<1>14. SeqHead(calls, h, Sources, Terms, n)
  <2>1. Stand(mem, calls, Sources, Terms)
    BY <1>1, SeqState
  <2>2. CASE loc.k = 0
    <3>1. n = 1 /\ SeqStart(h, Sources[1])
      BY <1>6, <1>10, <2>2 DEF n
    <3> QED
      BY <1>3, <2>1, <3>1, SeqFirstLaw
  <2>3. CASE loc.k # 0
    <3>1. SeqHead(calls, dest, Sources, Terms, loc.k)
      BY <1>1, <2>3, SeqState DEF SeqWork
    <3>2. loc.k + 1 \in 1..Len(Terms) /\ SeqNext(h, dest, Sources[loc.k + 1])
      BY <1>4, <1>6, <1>11, <2>3 DEF n
    <3> QED
      BY <1>3, <1>4, <2>1, <2>3, <3>1, <3>2, SeqNextLaw DEF n
  <2> QED
    BY <2>2, <2>3
<1>15. p = "clear" => n = Len(Terms)
  BY <1>1, SeqState DEF p
<1>16. SeqWork(mem', calls, h, Sources, Terms, self, loc')
  BY <1>4, <1>5, <1>14, <1>15 DEF SeqWork
<1>17. Working'
  BY <1>1, <1>13, <1>16, SeqWorking
<1>18. \A j \in 1..Len(mem'[self]) : mem'[self][j] >= 0
  BY <1>1, <1>2, SeqState
<1> QED
  BY <1>1, <1>2, <1>5, <1>13, <1>17, <1>18, LocalSound

LEMMA SeqClearSound ==
  ASSUME Ready, status = "run", SeqClear
  PROVE  Sound'
<1> DEFINE old == mem[self]
           new == [j \in DOMAIN mem[self] |-> Cleared(mem[self][j], j - 1, dest.cnt)]
<1>1. F.kind = "SEQ" /\ loc.ph = "clear" /\ Visited
  <2>1. F.kind = "SEQ" /\ loc.ph = "clear"
    BY DEF SeqClear, In
  <2> QED
    BY <2>1, ReadyFacts DEF Steady
<1>2. /\ loc' = [Start EXCEPT !.ph = "sum"]
      /\ UNCHANGED <<formula, status, val, stack, aw, result, calls>>
      /\ mem' = IF dest.cnt = 0 THEN mem ELSE
           [mem EXCEPT ![dest.eta] = [j \in DOMAIN mem[dest.eta] |-> Cleared(mem[dest.eta][j], j - 1, dest.cnt)]]
  BY DEF SeqClear, Go
<1>3. loc'.ph = "sum" /\ loc'.k = 0
  BY <1>2 DEF Start
<1>4. /\ self \in Buffers /\ dest.eta = self /\ dest.cnt \in Nat /\ old \in Seq(Int)
      /\ Len(old) \in Nat /\ dest.cnt <= Len(old)
      /\ \A j \in 1..Len(old) : old[j] \in Int /\ old[j] >= 0
      /\ SeqWork(mem, calls, dest, Sources, Terms, self, loc)
  BY <1>1, SeqState
<1>5. /\ mem \in [Buffers -> Seq(Int)] /\ Sound /\ calls \in Nat /\ calls # 0
      /\ 1 \in 1..Len(stack) /\ self = stack[1].node /\ F = formula[self]
  BY ReadyFacts
<1>6. \A j \in 1..Len(old) : Covers(calls, old[j], 0)
  <2>1. calls <= 1 => calls = 1
    BY <1>5
  <2>2. calls = 1 => Unused(formula, mem, self)
    BY <1>1, <1>5 DEF Sound, Untouched
  <2> QED
    BY <1>1, <1>4, <1>5, <2>1, <2>2 DEF Unused, Covers
<1> HIDE DEF old
<1>7. ASSUME NEW j \in 1..Len(old)
      PROVE  Covers(calls, Cleared(old[j], j - 1, dest.cnt), 0)
  <2>1. j - 1 \in Nat /\ old[j] \in Int
    BY <1>4
  <2> QED
    BY <1>4, <1>5, <1>6, <2>1, ClearedLaw
<1>8. DOMAIN old = 1..Len(old)
  BY <1>4, LenProperties
<1>9. dest.cnt # 0 => mem' = [mem EXCEPT ![self] = new]
  BY <1>2, <1>4
<1>10. dest.cnt = 0 => mem' = mem
  BY <1>2
<1>11. dest.cnt # 0 => mem'[self] = new
  BY <1>4, <1>5, <1>9
<1>12. \A j \in 1..Len(old) : new[j] = Cleared(old[j], j - 1, dest.cnt)
  BY <1>8 DEF old
<1>13. DOMAIN new = 1..Len(old)
  BY <1>8 DEF old
<1> HIDE DEF new
<1>14. Len(new) = Len(old)
  <2>1. new \in [1..Len(old) -> Int]
    <3>1. \A j \in 1..Len(old) : new[j] \in Int
      BY <1>7, <1>12 DEF Covers
    <3>2. new = [j \in 1..Len(old) |-> new[j]]
      BY <1>13 DEF new
    <3> QED
      BY <3>1, <3>2
  <2> QED
    BY <1>4, <2>1
<1>15. \A j \in 1..Len(mem'[self]) : Covers(calls, mem'[self][j], 0)
  <2>1. CASE dest.cnt = 0
    BY <1>6, <1>10, <2>1 DEF old
  <2>2. CASE dest.cnt # 0
    BY <1>7, <1>11, <1>12, <1>14, <2>2
  <2> QED
    BY <2>1, <2>2
<1>16. Len(mem'[self]) = Len(old)
  BY <1>10, <1>11, <1>14 DEF old
<1>17. SeqRow(mem', calls, self, dest.cnt, Terms, 0)
  <2> SUFFICES ASSUME NEW j \in Nat, j < dest.cnt PROVE Covers(calls, mem'[self][j + 1], 0)
    BY DEF SeqRow
  <2>1. j + 1 \in 1..Len(mem'[self])
    BY <1>4, <1>16
  <2> QED
    BY <1>15, <2>1
<1>18. SeqWork(mem', calls, dest, Sources, Terms, self, loc')
  BY <1>1, <1>3, <1>4, <1>17 DEF SeqWork
<1>19. \A c \in Buffers : c # self => mem'[c] = mem[c]
  BY <1>5, <1>9, <1>10
<1>20. Local(dest, self)
  BY <1>2, <1>19, StayLocal DEF Private
<1>21. Working'
  BY <1>1, <1>18, <1>20, SeqWorking
<1>22. \A j \in 1..Len(mem'[self]) : mem'[self][j] >= 0
  BY <1>15 DEF Covers
<1> QED
  BY <1>1, <1>3, <1>20, <1>21, <1>22, LocalSound

LEMMA SeqSumSound ==
  ASSUME Ready, status = "run", SeqSum
  PROVE  Sound'
<1> DEFINE old == mem[self]
           n == loc.k + 1
           s == Source(n)
           new == [j \in DOMAIN mem[self] |->
                     IF j <= dest.cnt THEN mem[self][j] + Elem(s, j - 1) ELSE mem[self][j]]
           l == IF n = Len(F.kids) THEN Finished ELSE [loc EXCEPT !.k = n]
<1>1. F.kind = "SEQ" /\ loc.ph = "sum" /\ Visited
  <2>1. F.kind = "SEQ" /\ loc.ph = "sum"
    BY DEF SeqSum, In
  <2> QED
    BY <2>1, ReadyFacts DEF Steady
<1>2. /\ loc' = l
      /\ UNCHANGED <<formula, status, val, stack, aw, result, calls>>
      /\ mem' = IF dest.cnt = 0 THEN mem ELSE
           [mem EXCEPT ![dest.eta] = [j \in DOMAIN mem[dest.eta] |->
              IF j <= dest.cnt THEN mem[dest.eta][j] + Elem(s, j - 1) ELSE mem[dest.eta][j]]]
  BY DEF SeqSum, Go
<1>3. /\ self \in Buffers /\ dest.eta = self /\ dest.cnt \in Nat /\ old \in Seq(Int)
      /\ Len(old) \in Nat /\ dest.cnt <= Len(old)
      /\ \A j \in 1..Len(old) : old[j] \in Int /\ old[j] >= 0
      /\ SeqWork(mem, calls, dest, Sources, Terms, self, loc)
      /\ Stand(mem, calls, Sources, Terms) /\ Len(Terms) = Len(F.kids)
      /\ Den(self) = AP!SumAll(Terms)
  BY <1>1, SeqState
<1>4. /\ mem \in [Buffers -> Seq(Int)] /\ calls \in Nat /\ loc \in LocType
      /\ DOMAIN F.kids = 1..Len(F.kids) /\ Len(F.kids) \in Nat
  BY ReadyFacts
<1>5. loc.k \in Nat /\ n \in Nat /\ n \in 1..Len(Terms) /\ n \in DOMAIN F.kids
  <2>1. loc.k \in Nat
    BY <1>4 DEF LocType
  <2>2. loc.k < Len(F.kids)
    BY <1>1, ReadyFacts DEF TInv, Control
  <2> QED
    BY <1>3, <1>4, <2>1, <2>2
<1>6. s = Sources[n]
  BY <1>1, <1>5, SeqState
<1>7. \A j \in Nat : Elem(s, j) = El(mem, s, j) /\ El(mem, s, j) \in Nat
  <2>1. Part(mem, calls, s, Terms[n])
    BY <1>3, <1>4, <1>5, <1>6, StandFacts
  <2> HIDE DEF s
  <2> QED
    BY <2>1 DEF Part, Elem, Cell, El
<1>8. DOMAIN old = 1..Len(old)
  BY <1>3, LenProperties
<1> HIDE DEF s
<1>9. dest.cnt # 0 => mem' = [mem EXCEPT ![self] = new]
  BY <1>2, <1>3
<1>10. dest.cnt = 0 => mem' = mem
  BY <1>2
<1>11. dest.cnt # 0 => mem'[self] = new
  BY <1>3, <1>4, <1>9
<1>12. \A j \in 1..Len(old) : new[j] = IF j <= dest.cnt THEN old[j] + El(mem, s, j - 1) ELSE old[j]
  <2> SUFFICES ASSUME NEW j \in 1..Len(old)
               PROVE  new[j] = IF j <= dest.cnt THEN old[j] + El(mem, s, j - 1) ELSE old[j]
    OBVIOUS
  <2>1. j - 1 \in Nat
    OBVIOUS
  <2>2. Elem(s, j - 1) = El(mem, s, j - 1)
    BY <1>7, <2>1
  <2> QED
    BY <1>8, <2>2
<1>13. DOMAIN new = 1..Len(old) /\ new = [j \in 1..Len(old) |-> new[j]]
  BY <1>8
<1> HIDE DEF new, old
<1>14. \A j \in 1..Len(old) : new[j] \in Int /\ new[j] >= 0
  <2> SUFFICES ASSUME NEW j \in 1..Len(old) PROVE new[j] \in Int /\ new[j] >= 0
    OBVIOUS
  <2>1. j - 1 \in Nat
    OBVIOUS
  <2>2. El(mem, s, j - 1) \in Nat /\ old[j] \in Int /\ old[j] >= 0
    BY <1>3, <1>7, <2>1
  <2> QED
    BY <1>12, <2>2
<1>15. Len(new) = Len(old)
  <2>1. new \in [1..Len(old) -> Int]
    BY <1>13, <1>14
  <2> QED
    BY <1>3, <2>1
<1>16. \A j \in 1..Len(mem'[self]) : mem'[self][j] >= 0
  <2>1. CASE dest.cnt = 0
    BY <1>3, <1>10, <2>1 DEF old
  <2>2. CASE dest.cnt # 0
    BY <1>11, <1>14, <1>15, <2>2
  <2> QED
    BY <2>1, <2>2
<1>17. Added(mem', mem, self, dest.cnt, s)
  <2> SUFFICES ASSUME NEW j \in Nat, j < dest.cnt
               PROVE  mem'[self][j + 1] = mem[self][j + 1] + El(mem, s, j)
    BY DEF Added
  <2>1. j + 1 \in 1..Len(old) /\ j + 1 <= dest.cnt /\ (j + 1) - 1 = j /\ dest.cnt # 0
    BY <1>3
  <2> QED
    BY <1>11, <1>12, <2>1 DEF old
<1>18. SeqHead(calls, dest, Sources, Terms, Len(Terms)) /\ SeqRow(mem, calls, self, dest.cnt, Terms, loc.k)
  BY <1>1, <1>3 DEF SeqWork
<1>19. SeqRow(mem', calls, self, dest.cnt, Terms, n)
  <2>1. Added(mem', mem, self, dest.cnt, Sources[loc.k + 1]) /\ loc.k + 1 \in 1..Len(Terms)
    BY <1>5, <1>6, <1>17
  <2> QED
    BY <1>3, <1>4, <1>5, <1>18, <2>1, SeqRowLaw
<1>20. \A c \in Buffers : c # self => mem'[c] = mem[c]
  BY <1>4, <1>9, <1>10
<1>21. Local(dest, self)
  BY <1>2, <1>20, StayLocal DEF Private
<1>22. CASE n = Len(F.kids)
  <2>1. loc' = Finished
    BY <1>2, <1>22
  <2>2. Stand(mem', calls, Sources, Terms)
    BY <1>1, <1>21, StandKept
  <2>3. Good(mem', calls, dest, Den(self))
    BY <1>3, <1>4, <1>18, <1>19, <1>22, <2>2, SeqGoodLaw
  <2> QED
    BY <1>1, <1>16, <1>21, <2>1, <2>3, FinishSound
<1>23. CASE n # Len(F.kids)
  <2>1. loc'.ph = "sum" /\ loc'.k = n
    BY <1>1, <1>2, <1>4, <1>5, <1>23, LocExceptCounter
  <2>2. SeqWork(mem', calls, dest, Sources, Terms, self, loc')
    BY <1>18, <1>19, <2>1 DEF SeqWork
  <2>3. Working'
    BY <1>1, <1>21, <2>2, SeqWorking
  <2> QED
    BY <1>1, <1>16, <1>21, <2>1, <2>3, LocalSound
<1> QED
  BY <1>22, <1>23

-----------------------------------------------------------------------------
(* awcet_alt                                                               *)

LEMMA AltWorking ==
  ASSUME Ready, status = "run", F.kind = "ALT", NEW h, NEW b, Local(h, b),
         AltWork(mem', calls, h, Sources, Terms, self, loc')
  PROVE  Working'
<1>1. /\ F' = F /\ self' = self /\ dest' = h /\ Sources' = Sources /\ Terms' = Terms
      /\ calls' = calls
  BY OperandsKept DEF Local
<1> QED
  BY <1>1 DEF Working

LEMMA AltState ==
  ASSUME Ready, status = "run", F.kind = "ALT", Visited
  PROVE  /\ dest.eta = self /\ dest.cnt \in Nat /\ dest.others \in Int /\ dest.loop \in Int
         /\ self \in Buffers /\ self \in Pointers /\ mem[self] \in Seq(Int)
         /\ AltWork(mem, calls, dest, Sources, Terms, self, loc)
         /\ Stand(mem, calls, Sources, Terms) /\ Len(Terms) = Len(F.kids)
         /\ \A i \in DOMAIN F.kids : Sources[i] = Source(i) /\ Source(i) \in Header
         /\ DOMAIN F.kids = 1..Len(F.kids) /\ Len(F.kids) \in Nat
         /\ Den(self) = AP!UnionAll(Terms)
         /\ Len(F.kids) <= AltMax
<1>1. /\ TInv /\ Safe /\ Fits(formula) /\ Sound /\ self \in Nodes /\ dest \in Header
      /\ mem \in [Buffers -> Seq(Int)] /\ F = formula[self]
      /\ DOMAIN F.kids = 1..Len(F.kids) /\ Len(F.kids) \in Nat
  BY ReadyFacts
<1>2. dest.eta = self /\ self \in Pointers
  BY <1>1, SelfFacts DEF Owners
<1>3. dest.cnt \in Nat /\ dest.others \in Int /\ dest.loop \in Int
  BY <1>1, ReadyFacts DEF Header
<1>4. self \in Buffers /\ mem[self] \in Seq(Int)
  BY <1>1 DEF Buffers
<1>5. AltWork(mem, calls, dest, Sources, Terms, self, loc)
  BY <1>1 DEF Sound, Working
<1>6. /\ Stand(mem, calls, Sources, Terms) /\ Len(Terms) = Len(F.kids)
      /\ \A i \in DOMAIN F.kids : Sources[i] = Source(i)
      /\ Meaning(val, F, Terms) = Den(self)
  BY OperandsStand
<1>7. \A i \in DOMAIN F.kids : Source(i) \in Header
  BY <1>1, RunFacts
<1>8. Den(self) = AP!UnionAll(Terms)
  BY <1>6, SameAlgebra DEF Meaning
<1>9. Len(F.kids) <= AltMax
  BY <1>1, FitsFacts
<1> QED
  BY <1>1, <1>2, <1>3, <1>4, <1>5, <1>6, <1>7, <1>8, <1>9

LEMMA AltScanSound ==
  ASSUME Ready, status = "run", AltScan
  PROVE  Sound'
<1> DEFINE n == loc.k + 1
           s == Source(n)
           o == IF loc.k = 0 THEN -1 ELSE dest.others
           h == [loop |-> IF loc.k = 0 THEN s.loop ELSE Innermost(s.loop, dest.loop),
                 cnt |-> 0, eta |-> dest.eta,
                 others |-> IF o < s.others THEN s.others ELSE o]
           zeros == [i \in DOMAIN F.kids |-> 0]
           l == IF n = Len(F.kids) /\ Len(F.kids) <= AltMax
                THEN [Start EXCEPT !.ph = "merge", !.tab = zeros]
                ELSE [loc EXCEPT !.k = n]
<1>1. F.kind = "ALT" /\ loc.ph = "visit" /\ Visited /\ loc.k < Len(F.kids)
  BY DEF AltScan, In
<1>2. /\ aw' = [aw EXCEPT ![self] = h] /\ loc' = l /\ mem' = mem
      /\ UNCHANGED <<formula, status, val, stack, result, calls>>
  BY DEF AltScan, Put
<1>3. /\ loc \in LocType /\ dest \in Header /\ Sits(formula, self, dest)
      /\ self \in Nodes /\ F = formula[self] /\ calls \in Nat
  BY ReadyFacts
<1>4. loc.k \in Nat /\ n \in Nat /\ n \in DOMAIN F.kids /\ n \in 1..Len(Terms)
      /\ (loc.k # 0 => loc.k \in 1..Len(Terms)) /\ Len(Terms) = Len(F.kids)
  <2>1. loc.k \in Nat
    BY <1>3 DEF LocType
  <2> QED
    BY <1>1, <2>1, AltState
<1>6. s \in Header /\ s = Sources[n]
  BY <1>1, <1>4, AltState
<1>7. Stand(mem, calls, Sources, Terms) /\ Len(F.kids) <= AltMax /\ DOMAIN F.kids = 1..Len(F.kids)
      /\ Len(F.kids) \in Nat
  BY <1>1, AltState
<1>8. s.loop \in Int /\ s.others \in Nat
  <2>1. Part(mem, calls, s, Terms[n])
    BY <1>3, <1>4, <1>6, <1>7, StandFacts
  <2> HIDE DEF s
  <2> QED
    BY <1>6, <2>1 DEF Part, Header
<1>9. n # Len(F.kids) => loc' = [loc EXCEPT !.k = n]
  BY <1>2
<1>10. n = Len(F.kids) => loc' = [Start EXCEPT !.ph = "merge", !.tab = zeros]
  BY <1>2, <1>7
<1>21. n # Len(F.kids) => loc'.ph = "visit" /\ loc'.k = n
  <2> SUFFICES ASSUME n # Len(F.kids)
               PROVE  loc'.ph = "visit" /\ loc'.k = n
    OBVIOUS
  <2>1. loc \in LocType /\ n \in Nat /\ loc.ph = "visit"
    BY <1>1, <1>3, <1>4
  <2>2. loc' = [loc EXCEPT !.k = n]
    BY <1>9
  <2> HIDE DEF n, l
  <2> QED
    BY <2>1, <2>2, LocExceptCounter
<1> HIDE DEF s, l
<1>11. /\ dest.cnt \in Nat /\ dest.others \in Int /\ dest.loop \in Int /\ dest.eta \in Pointers
  BY <1>3, ReadyFacts DEF Header
<1>12. h \in Header /\ h.eta = dest.eta /\ h.cnt = 0
  <2>1. Innermost(s.loop, dest.loop) \in Int
    BY <1>8, <1>11 DEF Innermost
  <2> QED
    BY <1>8, <1>11, <2>1 DEF Header
<1>13. loc.k = 0 => AltFirst(h, s)
  BY <1>8 DEF AltFirst
<1>14. loc.k # 0 => AltNext(h, dest, s)
  BY <1>8, <1>11 DEF AltNext
<1> HIDE DEF h
<1>15. Sits(formula, self, h)
  BY <1>1, <1>3, <1>12 DEF Sits
<1>16. Local(h, self)
  BY <1>2, <1>12, <1>15, SelfLocal
<1>17. AltHead(h, Sources, Terms, n)
  <2>1. CASE loc.k = 0
    <3>1. n = 1 /\ AltFirst(h, Sources[1])
      BY <1>6, <1>13, <2>1
    <3> HIDE DEF n
    <3> QED
      BY <1>3, <1>7, <3>1, AltFirstLaw
  <2>2. CASE loc.k # 0
    <3>1. AltHead(dest, Sources, Terms, loc.k)
      BY <1>1, <2>2, AltState DEF AltWork
    <3>2. loc.k + 1 \in 1..Len(Terms) /\ AltNext(h, dest, Sources[loc.k + 1]) /\ loc.k \in 1..Len(Terms)
      BY <1>4, <1>6, <1>14, <2>2
    <3> QED
      BY <1>3, <1>7, <3>1, <3>2, AltNextLaw
  <2> QED
    BY <2>1, <2>2
<1>18. AltWork(mem', calls, h, Sources, Terms, self, loc')
  <2>1. CASE n # Len(F.kids)
    <3>1. loc'.ph = "visit" /\ loc'.k = n
      BY <2>1, <1>21
    <3> QED
      BY <1>4, <1>12, <1>17, <3>1 DEF AltWork
  <2>2. CASE n = Len(F.kids)
    <3>1. loc'.ph = "merge" /\ loc'.tab = zeros
      BY <1>10, <2>2 DEF Start
    <3>2. zeros \in Vectors(Len(Terms)) /\ \A i \in 1..Len(Terms) : zeros[i] = 0
      BY <1>4, <1>7 DEF Vectors
    <3> HIDE DEF zeros
    <3>3. TotalOf(zeros) = 0
      BY <1>4, <1>7, <3>2, TotalOfZeros
    <3>4. AltRow(mem', calls, self, h.cnt, AP!UnionAll(Terms))
      BY <1>12 DEF AltRow
    <3>5. InOrder(mem', Sources, zeros, Len(Terms))
      BY <3>2 DEF InOrder
    <3>6. AltHead(h, Sources, Terms, Len(Terms))
      BY <1>4, <1>17, <2>2
    <3> QED
      BY <1>12, <3>1, <3>2, <3>3, <3>4, <3>5, <3>6 DEF AltWork
  <2> QED
    BY <2>1, <2>2
<1>19. Working'
  BY <1>1, <1>16, <1>18, AltWorking
<1>20. loc'.ph # "done"
  <2>1. CASE n # Len(F.kids)
    BY <1>21, <2>1
  <2>2. CASE n = Len(F.kids)
    BY <1>10, <2>2 DEF Start
  <2> QED
    BY <2>1, <2>2
<1> QED
  BY <1>1, <1>16, <1>19, <1>20, LocalSound

\* The merge: what the cursors point at, and the header.
LEMMA MergeState ==
  ASSUME Ready, status = "run", F.kind = "ALT", loc.ph \in {"merge", "take"}
  PROVE  /\ Visited /\ calls \in Nat
         /\ AltHead(dest, Sources, Terms, Len(Terms))
         /\ loc.tab \in Vectors(Len(Terms)) /\ dest.cnt = TotalOf(loc.tab)
         /\ AltRow(mem, calls, self, dest.cnt, AP!UnionAll(Terms))
         /\ calls <= 1 => InOrder(mem, Sources, loc.tab, Len(Terms))
         /\ loc.ph = "take" => loc.k \in 1..Len(Terms) /\ Leads(mem, Sources, loc.tab, Len(Terms), loc.k)
         /\ Stand(mem, calls, Sources, Terms)
         /\ DOMAIN loc.tab = 1..Len(Terms) /\ DOMAIN F.kids = 1..Len(Terms)
         /\ \A i \in 1..Len(Terms) :
              /\ loc.tab[i] # Source(i).cnt =>
                   Cell(Source(i), loc.tab[i]) = Ahead(mem, Sources, loc.tab, i)
              /\ Ahead(mem, Sources, loc.tab, i) \in Nat
              /\ loc.tab[i] = Source(i).cnt =>
                   Ahead(mem, Sources, loc.tab, i) <= dest.others
<1>1. Visited
  BY ReadyFacts DEF Steady
<1>2. /\ AltWork(mem, calls, dest, Sources, Terms, self, loc)
      /\ Stand(mem, calls, Sources, Terms) /\ Len(Terms) = Len(F.kids)
      /\ DOMAIN F.kids = 1..Len(F.kids) /\ Len(F.kids) \in Nat /\ dest.others \in Int
      /\ \A i \in DOMAIN F.kids : Sources[i] = Source(i)
  BY <1>1, AltState
<1>3. /\ AltHead(dest, Sources, Terms, Len(Terms))
      /\ loc.tab \in Vectors(Len(Terms)) /\ dest.cnt = TotalOf(loc.tab)
      /\ AltRow(mem, calls, self, dest.cnt, AP!UnionAll(Terms))
      /\ calls <= 1 => InOrder(mem, Sources, loc.tab, Len(Terms))
      /\ loc.ph = "take" => loc.k \in 1..Len(Terms) /\ Leads(mem, Sources, loc.tab, Len(Terms), loc.k)
  BY <1>2 DEF AltWork
<1>4. DOMAIN loc.tab = 1..Len(Terms)
  BY <1>3 DEF Vectors
<1>5. calls \in Nat
  BY ReadyFacts
<1>6. ASSUME NEW i \in 1..Len(Terms)
      PROVE  /\ loc.tab[i] # Source(i).cnt =>
                  Cell(Source(i), loc.tab[i]) = Ahead(mem, Sources, loc.tab, i)
             /\ Ahead(mem, Sources, loc.tab, i) \in Nat
             /\ loc.tab[i] = Source(i).cnt =>
                  Ahead(mem, Sources, loc.tab, i) <= dest.others
  <2>1. Sources[i] = Source(i)
    BY <1>2
  <2>2. ASSUME loc.tab[i] # Source(i).cnt
        PROVE  Cell(Source(i), loc.tab[i]) = Ahead(mem, Sources, loc.tab, i)
    <3>1. loc.tab[i] < Source(i).cnt
      <4>1. Cursors
        BY ReadyFacts DEF Safe, In
      <4>2. loc.tab[i] \in Nat /\ Source(i).cnt \in Nat
        BY <1>2, <1>3, <1>4, SelfFacts, ReadyFacts DEF Vectors
      <4> QED
        BY <1>4, <2>2, <4>1, <4>2 DEF Cursors
    <3> QED
      BY <2>1, <3>1 DEF Ahead, Cell, El
  <2>3. /\ loc.tab[i] \in Nat /\ Ahead(mem, Sources, loc.tab, i) \in Nat
        /\ Part(mem, calls, Sources[i], Terms[i])
    BY <1>2, <1>3, <1>5, AheadFacts
  <2>4. ASSUME loc.tab[i] = Source(i).cnt
        PROVE  Ahead(mem, Sources, loc.tab, i) <= dest.others
    <3>1. Ahead(mem, Sources, loc.tab, i) = Sources[i].others
      BY <2>1, <2>3, <2>4 DEF Ahead, El
    <3>2. Sources[i].others <= dest.others
      BY <1>3 DEF AltHead
    <3> QED
      BY <3>1, <3>2
  <2> QED
    BY <2>2, <2>3, <2>4
<1> QED
  BY <1>1, <1>2, <1>3, <1>4, <1>5, <1>6

LEMMA AltSelectSound ==
  ASSUME Ready, status = "run", AltSelect
  PROVE  Sound'
<1>1. F.kind = "ALT" /\ loc.ph = "merge"
  BY DEF AltSelect, In
<1>2. PICK k \in Candidates : Greatest(k) /\ Go([loc EXCEPT !.ph = "take", !.k = k])
  BY DEF AltSelect
<1>3. /\ mem' = mem /\ loc' = [loc EXCEPT !.ph = "take", !.k = k]
      /\ UNCHANGED <<formula, status, val, stack, aw, result, calls>>
  BY <1>2 DEF AltSelect, Go
<1>4. /\ DOMAIN loc.tab = 1..Len(Terms) /\ loc \in LocType /\ dest.others \in Int
      /\ k \in 1..Len(Terms) /\ Cell(Source(k), loc.tab[k]) > dest.others
      /\ loc.tab[k] # Source(k).cnt
  <2>1. loc \in LocType /\ dest \in Header
    BY ReadyFacts
  <2>2. DOMAIN loc.tab = 1..Len(Terms)
    BY <1>1, MergeState
  <2> QED
    BY <1>2, <2>1, <2>2 DEF Candidates, Header
<1>5. loc'.ph = "take" /\ loc'.k = k /\ loc'.tab = loc.tab
  BY <1>3, <1>4 DEF LocType
<1>6. Leads(mem, Sources, loc.tab, Len(Terms), k)
  <2> SUFFICES ASSUME NEW o \in 1..Len(Terms)
               PROVE  Ahead(mem, Sources, loc.tab, k) >= Ahead(mem, Sources, loc.tab, o)
    BY DEF Leads
  <2> DEFINE x == Ahead(mem, Sources, loc.tab, k)
             y == Ahead(mem, Sources, loc.tab, o)
  <2>1. /\ x = Cell(Source(k), loc.tab[k])
        /\ loc.tab[o] # Source(o).cnt => y = Cell(Source(o), loc.tab[o])
        /\ x \in Nat /\ y \in Nat
        /\ loc.tab[o] = Source(o).cnt => y <= dest.others
    BY <1>1, <1>4, MergeState
  <2>2. x > dest.others
    BY <1>4, <2>1
  <2>3. CASE o \in Candidates
    <3>1. (x > y \/ x = y) /\ x \in Nat /\ y \in Nat
      <4>1. y = Cell(Source(o), loc.tab[o])
        BY <2>1, <2>3 DEF Candidates
      <4> QED
        BY <1>2, <2>1, <2>3, <4>1 DEF Greatest
    <3> SUFFICES x >= y
      OBVIOUS
    <3> HIDE DEF x, y
    <3> QED
      BY <3>1
  <2>4. CASE o \notin Candidates
    <3>1. loc.tab[o] = Source(o).cnt \/ ~(y > dest.others)
      BY <1>4, <2>1, <2>4 DEF Candidates
    <3>2. x \in Nat /\ y \in Nat /\ dest.others \in Int /\ x > dest.others
          /\ (loc.tab[o] = Source(o).cnt => y <= dest.others)
      BY <1>4, <2>1, <2>2
    <3> SUFFICES x >= y
      OBVIOUS
    <3> HIDE DEF x, y
    <3> QED
      BY <3>1, <3>2
  <2> QED
    BY <2>3, <2>4
<1>7. AltWork(mem', calls, dest, Sources, Terms, self, loc')
  BY <1>1, <1>3, <1>4, <1>5, <1>6, MergeState DEF AltWork
<1>8. Local(dest, self)
  BY <1>3, StayLocal DEF Private
<1>9. Working'
  BY <1>1, <1>7, <1>8, AltWorking
<1> QED
  BY <1>1, <1>3, <1>5, <1>8, <1>9, LocalSound

LEMMA AltEndSound ==
  ASSUME Ready, status = "run", AltEnd
  PROVE  Sound'
<1>1. F.kind = "ALT" /\ loc.ph = "merge" /\ Candidates = {}
  BY DEF AltEnd, In
<1>2. /\ mem' = mem /\ loc' = Finished
      /\ UNCHANGED <<formula, status, val, stack, aw, result, calls>>
  BY DEF AltEnd, Go
<1>3. Visited /\ calls \in Nat /\ dest.others \in Int
  BY <1>1, MergeState, AltState
<1>4. ASSUME NEW i \in 1..Len(Terms)
      PROVE  Ahead(mem, Sources, loc.tab, i) <= dest.others
  <2>1. /\ DOMAIN loc.tab = 1..Len(Terms)
        /\ loc.tab[i] # Source(i).cnt =>
             Cell(Source(i), loc.tab[i]) = Ahead(mem, Sources, loc.tab, i)
        /\ Ahead(mem, Sources, loc.tab, i) \in Nat
        /\ loc.tab[i] = Source(i).cnt => Ahead(mem, Sources, loc.tab, i) <= dest.others
    BY <1>1, MergeState
  <2>2. i \notin Candidates
    BY <1>1
  <2>3. loc.tab[i] = Source(i).cnt \/ ~(Ahead(mem, Sources, loc.tab, i) > dest.others)
    BY <2>1, <2>2 DEF Candidates
  <2> QED
    BY <1>3, <2>1, <2>3
<1>5. Good(mem, calls, dest, AP!UnionAll(Terms))
  <2>1. AltRow(mem, calls, dest.eta, dest.cnt, AP!UnionAll(Terms))
    BY <1>1, <1>3, MergeState, AltState
  <2> QED
    BY <1>1, <1>3, <1>4, <2>1, MergeState, AltEndLaw
<1>6. Good(mem', calls, dest, Den(self))
  BY <1>1, <1>2, <1>3, <1>5, AltState
<1>7. Local(dest, self)
  BY <1>2, StayLocal DEF Private
<1> QED
  BY <1>1, <1>2, <1>6, <1>7, FinishSound

LEMMA AltTakeSound ==
  ASSUME Ready, status = "run", AltTake
  PROVE  Sound'
<1> DEFINE x == Cell(Source(loc.k), loc.tab[loc.k])
           h == [dest EXCEPT !.cnt = dest.cnt + 1]
           t == Raised(loc.tab, loc.k, 1)
           U == AP!UnionAll(Terms)
<1>1. F.kind = "ALT" /\ loc.ph = "take"
  BY DEF AltTake, In
<1>2. /\ mem' = [mem EXCEPT ![dest.eta][dest.cnt + 1] = x]
      /\ aw' = [aw EXCEPT ![self] = h]
      /\ loc' = [loc EXCEPT !.ph = "merge", !.tab[loc.k] = @ + 1]
      /\ UNCHANGED <<formula, status, val, stack, result, calls>>
  BY DEF AltTake, Put, Store
<1>3. /\ TInv /\ Safe /\ Fits(formula) /\ loc \in LocType /\ dest \in Header
      /\ Sits(formula, self, dest) /\ self \in Nodes /\ F = formula[self]
      /\ mem \in [Buffers -> Seq(Int)] /\ calls \in Nat
  BY ReadyFacts
<1>4. /\ Visited /\ loc.k \in 1..Len(Terms) /\ loc.tab \in Vectors(Len(Terms))
      /\ dest.cnt = TotalOf(loc.tab)
      /\ AltHead(dest, Sources, Terms, Len(Terms))
      /\ AltRow(mem, calls, self, dest.cnt, U)
      /\ calls <= 1 => InOrder(mem, Sources, loc.tab, Len(Terms))
      /\ Leads(mem, Sources, loc.tab, Len(Terms), loc.k)
      /\ Stand(mem, calls, Sources, Terms)
      /\ x = Ahead(mem, Sources, loc.tab, loc.k) /\ x \in Nat
  <2>1. loc.tab[loc.k] # Source(loc.k).cnt
    <3>1. Cursors
      BY <1>1, <1>3 DEF Safe, In
    <3>2. loc.k \in 1..Len(Terms) /\ DOMAIN F.kids = 1..Len(Terms) /\ loc.tab \in Vectors(Len(Terms))
      BY <1>1, MergeState
    <3>3. loc.tab[loc.k] \in Nat /\ Source(loc.k).cnt \in Nat
      BY <1>3, <3>2, SelfFacts DEF Vectors
    <3> QED
      BY <1>1, <3>1, <3>3 DEF Cursors
  <2> QED
    BY <1>1, <2>1, MergeState
<1>5. /\ dest.eta = self /\ self \in Buffers /\ mem[self] \in Seq(Int)
      /\ dest.cnt \in Nat /\ Len(Terms) = Len(F.kids) /\ Len(F.kids) \in Nat
  BY <1>1, <1>4, AltState
<1>6. /\ Covers(calls, x, V(U.m, dest.cnt + 1))
      /\ calls <= 1 => InOrder(mem, Sources, t, Len(Terms))
      /\ t \in Vectors(Len(Terms)) /\ TotalOf(t) = dest.cnt + 1
  BY <1>3, <1>4, AltTakeLaw
<1>7. dest.cnt + 1 <= Len(mem[self])
  <2>1. In("ALT", "take")
    BY <1>1 DEF In
  <2>2. dest.cnt + 1 <= F.cap
    BY <1>3, <2>1, TakenCount
  <2>3. Len(mem[self]) = F.cap
    BY <1>1, <1>3, SelfFacts DEF Owners
  <2> QED
    BY <2>2, <2>3
<1>8. dest.cnt + 1 \in DOMAIN mem[self]
  <2>1. DOMAIN mem[self] = 1..Len(mem[self]) /\ Len(mem[self]) \in Nat
    BY <1>5, LenProperties
  <2> QED
    BY <1>5, <1>7, <2>1
<1>9. loc'.ph = "merge" /\ loc'.tab = t
  BY <1>2, <1>3 DEF LocType, Raised
<1> HIDE DEF x, t, U
<1>10. h \in Header /\ h.cnt = dest.cnt + 1 /\ h.eta = dest.eta /\ h.loop = dest.loop
       /\ h.others = dest.others
  <2>1. dest.cnt + 1 \in Int
    BY <1>5
  <2> QED
    BY <1>3, <2>1 DEF Header
<1> HIDE DEF h
<1>11. Sits(formula, self, h)
  BY <1>1, <1>3, <1>10 DEF Sits
<1>12. \A c \in Buffers : c # self => mem'[c] = mem[c]
  BY <1>2, <1>3, <1>5
<1>13. Local(h, self)
  BY <1>2, <1>10, <1>11, <1>12, SelfLocal
<1>14. mem'[self] = [mem[self] EXCEPT ![dest.cnt + 1] = x]
  BY <1>2, <1>3, <1>5
<1>15. AltRow(mem', calls, self, h.cnt, U)
  <2> SUFFICES ASSUME NEW j \in Nat, j < h.cnt PROVE Covers(calls, mem'[self][j + 1], V(U.m, j + 1))
    BY DEF AltRow
  <2>1. CASE j = dest.cnt
    <3>1. mem'[self][j + 1] = x
      BY <1>8, <1>14, <2>1
    <3> QED
      BY <1>6, <2>1, <3>1
  <2>2. CASE j # dest.cnt
    <3>1. j < dest.cnt /\ j + 1 # dest.cnt + 1
      BY <1>5, <1>10, <2>2
    <3>2. mem'[self][j + 1] = mem[self][j + 1]
      <4>1. DOMAIN mem[self] = 1..Len(mem[self]) /\ Len(mem[self]) \in Nat
        BY <1>5, LenProperties
      <4>2. j + 1 \in DOMAIN mem[self]
        BY <1>5, <1>7, <3>1, <4>1
      <4> QED
        BY <1>14, <3>1, <4>2
    <3> QED
      BY <1>4, <3>1, <3>2 DEF AltRow
  <2> QED
    BY <2>1, <2>2
<1>16. ASSUME calls <= 1
       PROVE  InOrder(mem', Sources, t, Len(Terms))
  <2> SUFFICES ASSUME NEW i \in 1..Len(Terms), NEW o \in 1..Len(Terms), t[i] # 0
               PROVE  El(mem', Sources[i], t[i] - 1) >= Ahead(mem', Sources, t, o)
    BY DEF InOrder
  <2>1. t[i] \in Nat /\ t[o] \in Nat /\ t[i] - 1 \in Nat
    BY <1>6 DEF Vectors
  <2>2. \A c \in 1..Len(Terms) : \A j \in Nat : El(mem', Sources[c], j) = El(mem, Sources[c], j)
    <3>1. \A c \in DOMAIN F.kids : Sources[c] = Source(c)
      BY <1>1, <1>4, AltState
    <3>2. DOMAIN F.kids = 1..Len(Terms)
      BY <1>1, MergeState
    <3> QED
      BY <1>13, <3>1, <3>2, OperandsKept
  <2>3. El(mem, Sources[i], t[i] - 1) >= Ahead(mem, Sources, t, o)
    BY <1>6, <1>16 DEF InOrder
  <2> QED
    BY <2>1, <2>2, <2>3 DEF Ahead
<1>17. AltHead(h, Sources, Terms, Len(Terms))
  BY <1>4, <1>10 DEF AltHead
<1>18. AltWork(mem', calls, h, Sources, Terms, self, loc')
  BY <1>6, <1>9, <1>10, <1>15, <1>16, <1>17 DEF AltWork, U
<1>19. Working'
  BY <1>1, <1>13, <1>18, AltWorking
<1> QED
  BY <1>1, <1>9, <1>13, <1>19, LocalSound

-----------------------------------------------------------------------------
(* awcet_loop and awcet_paramloop                                          *)

LoopKinds == {"LOOP", "PARAM_LOOP"}

LEMMA LoopWorking ==
  ASSUME Ready, status = "run", F.kind \in LoopKinds, NEW h, NEW b, Local(h, b),
         LoopWork(mem', calls, h, Sources, Terms, F, loc', Bound),
         loc'.ph = "pack" => Private(h.eta)
  PROVE  Working'
<1>1. /\ F' = F /\ self' = self /\ dest' = h /\ Sources' = Sources /\ Terms' = Terms
      /\ calls' = calls /\ val' = val
  BY OperandsKept DEF Local
<1>2. Bound' = Bound
  BY <1>1 DEF Bound
<1>3. self \in Nodes /\ aw \in [Nodes -> Header]
  BY ReadyFacts
<1>4. loc'.ph = "pack" => Private(dest.eta)'
  <2>1. \A n \in Nodes : n # self => aw'[n] = aw[n]
    BY <1>3 DEF Local
  <2> QED
    BY <1>1, <2>1 DEF Private
<1> QED
  BY <1>1, <1>2, <1>4 DEF Working, LoopKinds

LEMMA LoopState ==
  ASSUME Ready, status = "run", F.kind \in LoopKinds, Visited
  PROVE  /\ dest.cnt \in Nat /\ dest.others \in Int /\ dest.loop \in Int /\ dest.eta \in Pointers
         /\ LoopWork(mem, calls, dest, Sources, Terms, F, loc, Bound)
         /\ loc.ph = "pack" => Private(dest.eta)
         /\ Source(1) \in Header /\ Source(1) = Sources[1]
         /\ Part(mem, calls, Source(1), Terms[1]) /\ Terms[1] \in AP!AWcets
         /\ Source(1).loop = Terms[1].loop /\ Source(1).loop \in Int
         /\ Source(1).cnt \in Nat /\ Source(1).others \in Nat
         /\ \A j \in Nat : Elem(Source(1), j) = El(mem, Source(1), j) /\ El(mem, Source(1), j) \in Nat
         /\ F.loop \in Int /\ Bound \in Nat /\ calls \in Nat
         /\ Den(self) = AP!Pow(Terms[1], AP!Bot, F.loop, Bound)
<1>1. /\ TInv /\ Sound /\ self \in Nodes /\ dest \in Header /\ calls \in Nat
      /\ F = formula[self] /\ formula \in Formulas /\ val \in Valuations /\ Plain(formula)
  BY ReadyFacts
<1>2. /\ dest.cnt \in Nat /\ dest.others \in Int /\ dest.loop \in Int /\ dest.eta \in Pointers
  BY <1>1, ReadyFacts DEF Header
<1>3. /\ LoopWork(mem, calls, dest, Sources, Terms, F, loc, Bound)
      /\ loc.ph = "pack" => Private(dest.eta)
  BY <1>1 DEF Sound, Working, LoopKinds
<1>4. /\ Stand(mem, calls, Sources, Terms) /\ Len(Terms) = Len(F.kids) /\ 1 \in DOMAIN F.kids
      /\ \A i \in DOMAIN F.kids : Sources[i] = Source(i)
      /\ Meaning(val, F, Terms) = Den(self)
  BY OperandsStand DEF LoopKinds
<1>5. Source(1) = Sources[1] /\ Source(1) \in Header /\ 1 \in 1..Len(Terms)
  BY <1>1, <1>4, RunFacts
<1>6. Part(mem, calls, Source(1), Terms[1])
  BY <1>1, <1>4, <1>5, StandFacts
<1> DEFINE s == Source(1)
<1>7. /\ s \in Header /\ s.loop = Terms[1].loop /\ s.cnt \in Nat /\ s.others \in Nat
      /\ Terms[1] \in AP!AWcets
      /\ \A j \in Nat : El(mem, s, j) \in Nat
  <2> HIDE DEF s
  <2>1. Part(mem, calls, s, Terms[1])
    BY <1>6 DEF s
  <2> QED
    BY <2>1 DEF Part
<1>8. s.loop \in Int
  BY <1>7 DEF Header
<1>9. \A j \in Nat : Elem(s, j) = El(mem, s, j)
  BY DEF Elem, Cell, El
<1>10. F.loop \in Int /\ Bound \in Nat
  <2>1. F.loop \in Int
    BY <1>1, PlainFacts
  <2>2. Bound \in Int /\ (F.kind = "PARAM_LOOP" => Bound \in Nat)
    BY <1>1, BoundType DEF LoopKinds
  <2>3. F.kind = "LOOP" => Bound > 0
    BY <1>1, ReadyFacts, LoopBoundPositive
  <2> QED
    BY <2>1, <2>2, <2>3 DEF LoopKinds
<1>11. Den(self) = AP!Pow(Terms[1], AP!Bot, F.loop, Bound)
  <2>1. Iterations(val, F) = Bound
    BY <1>10 DEF Iterations, Bound, LoopKinds
  <2> QED
    BY <1>4, <2>1, SameAlgebra DEF Meaning, LoopKinds
<1> QED
  BY <1>1, <1>2, <1>3, <1>5, <1>6, <1>7, <1>8, <1>9, <1>10, <1>11

LEMMA LoopAt ==
  ASSUME Ready, NEW ph, AtLoop(ph)
  PROVE  /\ F.kind \in LoopKinds /\ loc.ph = ph /\ F.kind # "SEQ" /\ F.kind # "CONST"
         /\ ph # "visit" => Visited
<1>1. status = "run" /\ F.kind \in LoopKinds /\ loc.ph = ph
  BY DEF AtLoop, In, LoopKinds
<1> QED
  BY <1>1, ReadyFacts DEF Steady, LoopKinds

LEMMA ZeroSits ==
  ASSUME Ready, status = "run", F.kind # "CONST"
  PROVE  LET h == [loop |-> LOOP_TOP, cnt |-> 0, eta |-> NULL, others |-> 0] IN
         h \in Header /\ Sits(formula, self, h)
<1>1. NULL \in Pointers /\ NULL \notin Nodes /\ F = formula[self]
  BY RuntimeAssumption, ReadyFacts DEF Pointers
<1> QED
  BY <1>1, SameTotals DEF Header, Sits

LEMMA LoopZeroSound ==
  ASSUME Ready, status = "run", LoopZero
  PROVE  Sound'
<1> DEFINE h == [loop |-> LOOP_TOP, cnt |-> 0, eta |-> NULL, others |-> 0]
<1>1. /\ AtLoop("visit") /\ Visited /\ Bound = 0 /\ mem' = mem
      /\ aw' = [aw EXCEPT ![self] = h] /\ loc' = Finished
      /\ UNCHANGED <<formula, status, val, stack, result, calls>>
  BY DEF LoopZero, Put
<1>2. F.kind \in LoopKinds /\ F.kind # "SEQ" /\ F.kind # "CONST"
  BY <1>1, LoopAt
<1>3. h \in Header /\ Sits(formula, self, h)
  BY <1>2, ZeroSits
<1>4. /\ TInv /\ Fits(formula) /\ Plain(formula) /\ self \in Nodes /\ F = formula[self]
      /\ val \in Valuations /\ formula \in Formulas
  BY ReadyFacts
<1>5. F.kind = "PARAM_LOOP"
  <2>1. F.kind = "LOOP" => Bound > 0
    BY <1>4, LoopBoundPositive
  <2> QED
    BY <1>1, <1>2, <2>1 DEF LoopKinds
<1>6. Terms[1] = Denotation(formula, val)[F.kids[1]]
  <2>1. 1 \in DOMAIN F.kids
    BY <1>1, <1>2, OperandsStand DEF LoopKinds
  <2> QED
    BY <1>4, <2>1 DEF Terms, Parts
<1>7. Terms[1].loop \in {F.loop, LOOP_TOP}
  <2>1. Iterations(val, F) = 0
    BY <1>1, <1>5 DEF Iterations, Bound
  <2>2. \A v \in Valuations : Iterations(v, formula[self]) = 0 =>
          Denotation(formula, v)[formula[self].kids[1]].loop \in {formula[self].loop, LOOP_TOP}
    BY <1>4, <1>5 DEF Plain
  <2> QED
    BY <1>4, <1>6, <2>1, <2>2
<1>8. h.loop = LOOP_TOP /\ h.cnt = 0 /\ h.others = 0
  OBVIOUS
<1> HIDE DEF h
<1>9. Good(mem', calls, h, AP!Pow(Terms[1], AP!Bot, F.loop, 0))
  BY <1>1, <1>2, <1>7, <1>8, LoopState, ZeroLaw
<1>10. Good(mem', calls, h, Den(self))
  BY <1>1, <1>2, <1>9, LoopState
<1>11. Local(h, self)
  BY <1>1, <1>3, SelfLocal
<1> QED
  BY <1>1, <1>2, <1>10, <1>11, FinishSound

LEMMA LoopHeaderSound ==
  ASSUME Ready, status = "run", LoopHeader
  PROVE  Sound'
<1>1. /\ AtLoop("visit") /\ Visited /\ Bound # 0 /\ Source(1).loop = F.loop /\ mem' = mem
      /\ loc' = [Start EXCEPT !.ph = "first", !.bound = Bound]
      /\ UNCHANGED <<formula, status, val, stack, aw, result, calls>>
  BY DEF LoopHeader, Go
<1>2. loc'.ph = "first" /\ loc'.bound = Bound /\ loc'.k = 0 /\ loc'.acc = 0
  BY <1>1 DEF Start
<1>3. F.kind \in LoopKinds /\ F.kind # "SEQ"
  BY <1>1, LoopAt
<1>4. /\ Source(1) = Sources[1] /\ Terms[1] \in AP!AWcets /\ calls \in Nat /\ Bound \in Nat
  BY <1>1, <1>3, LoopState
<1>5. Summed(calls, 0, 0, 0, Terms[1])
  BY <1>4, SummedNone
<1>6. LoopWork(mem', calls, dest, Sources, Terms, F, loc', Bound)
  <2>1. 0 <= Bound
    BY <1>4
  <2> QED
    BY <1>1, <1>2, <1>4, <1>5, <2>1 DEF LoopWork
<1>7. Local(dest, self)
  BY <1>1, StayLocal DEF Private
<1>8. Working'
  BY <1>2, <1>3, <1>6, <1>7, LoopWorking
<1> QED
  BY <1>1, <1>2, <1>3, <1>7, <1>8, LocalSound

LEMMA LoopSumFirstSound ==
  ASSUME Ready, status = "run", LoopSumFirst
  PROVE  Sound'
<1> DEFINE acc == loc.acc + Elem(Source(1), loc.k)
<1>1. /\ AtLoop("first") /\ loc.k < loc.bound /\ loc.k < Source(1).cnt /\ mem' = mem
      /\ loc' = [loc EXCEPT !.k = loc.k + 1, !.acc = acc]
      /\ UNCHANGED <<formula, status, val, stack, aw, result, calls>>
  BY DEF LoopSumFirst, Go
<1>2. F.kind \in LoopKinds /\ F.kind # "SEQ" /\ loc.ph = "first" /\ Visited
  BY <1>1, LoopAt
<1>3. loc \in LocType
  BY ReadyFacts
<1>4. loc.k \in Nat /\ loc.bound \in Int
  BY <1>3 DEF LocType
<1>5. loc'.ph = "first" /\ loc'.bound = loc.bound /\ loc'.k = loc.k + 1 /\ loc'.acc = acc
  BY <1>1, <1>2, <1>3 DEF LocType
<1>6. /\ Source(1) = Sources[1] /\ Part(mem, calls, Source(1), Terms[1]) /\ calls \in Nat
      /\ Elem(Source(1), loc.k) = El(mem, Source(1), loc.k)
      /\ LoopWork(mem, calls, dest, Sources, Terms, F, loc, Bound)
  BY <1>2, <1>4, LoopState
<1>7. /\ loc.bound = Bound /\ Bound # 0 /\ Sources[1].loop = F.loop
      /\ Summed(calls, loc.acc, loc.k, 0, Terms[1])
  BY <1>2, <1>6 DEF LoopWork
<1>8. Summed(calls, acc, loc.k + 1, 0, Terms[1])
  <2>1. 0 + loc.k = loc.k
    BY <1>4
  <2>2. Summed(calls, loc.acc + El(mem, Source(1), 0 + loc.k), loc.k + 1, 0, Terms[1])
    BY <1>4, <1>6, <1>7, SummedNext
  <2> QED
    BY <1>6, <2>1, <2>2
<1> HIDE DEF acc
<1>9. loc.k + 1 <= Bound
  BY <1>1, <1>4, <1>7
<1>10. LoopWork(mem', calls, dest, Sources, Terms, F, loc', Bound)
  BY <1>5, <1>7, <1>8, <1>9 DEF LoopWork
<1>11. Local(dest, self)
  BY <1>1, StayLocal DEF Private
<1>12. Working'
  BY <1>2, <1>5, <1>10, <1>11, LoopWorking
<1> QED
  BY <1>1, <1>2, <1>5, <1>11, <1>12, LocalSound

LEMMA LoopSumOthersSound ==
  ASSUME Ready, status = "run", LoopSumOthers
  PROVE  Sound'
<1> DEFINE r == IF loc.k < loc.bound THEN loc.bound - loc.k ELSE 0
           h == [loop |-> LOOP_TOP, cnt |-> 0, eta |-> dest.eta,
                 others |-> loc.acc + r * Source(1).others]
<1>1. /\ AtLoop("first") /\ ~(loc.k < loc.bound /\ loc.k < Source(1).cnt) /\ mem' = mem
      /\ loc' = Finished /\ aw' = [aw EXCEPT ![self] = h]
      /\ UNCHANGED <<formula, status, val, stack, result, calls>>
  BY DEF LoopSumOthers, Put
<1>2. F.kind \in LoopKinds /\ F.kind # "SEQ" /\ F.kind # "CONST" /\ loc.ph = "first" /\ Visited
  BY <1>1, LoopAt
<1>3. loc \in LocType /\ Sits(formula, self, dest) /\ F = formula[self]
  BY ReadyFacts
<1>4. loc.k \in Nat /\ loc.bound \in Int /\ loc.acc \in Int
  BY <1>3 DEF LocType
<1>5. /\ Source(1) = Sources[1] /\ Part(mem, calls, Source(1), Terms[1]) /\ calls \in Nat
      /\ Source(1).cnt \in Nat /\ Source(1).others \in Nat /\ dest.eta \in Pointers
      /\ LoopWork(mem, calls, dest, Sources, Terms, F, loc, Bound)
      /\ Source(1).loop = Terms[1].loop /\ Terms[1] \in AP!AWcets /\ F.loop \in Int /\ Bound \in Nat
      /\ Den(self) = AP!Pow(Terms[1], AP!Bot, F.loop, Bound)
  BY <1>2, LoopState
<1>6. /\ loc.bound = Bound /\ Sources[1].loop = F.loop /\ loc.k <= Bound
      /\ Summed(calls, loc.acc, loc.k, 0, Terms[1])
  BY <1>2, <1>5 DEF LoopWork
<1>7. r \in Nat /\ loc.k + r = Bound /\ (r = 0 \/ 0 + loc.k >= Source(1).cnt)
  BY <1>1, <1>4, <1>5, <1>6
<1> HIDE DEF r
<1>8. Summed(calls, loc.acc + r * Source(1).others, loc.k + r, 0, Terms[1])
  BY <1>4, <1>5, <1>6, <1>7, SummedRest
<1>9. h \in Header /\ h.eta = dest.eta /\ h.loop = LOOP_TOP /\ h.cnt = 0
      /\ h.others = loc.acc + r * Source(1).others
  <2>1. loc.acc + r * Source(1).others \in Int
    BY <1>4, <1>5, <1>7
  <2> QED
    BY <1>5, <2>1, SameTotals DEF Header
<1> HIDE DEF h
<1>10. Sits(formula, self, h)
  BY <1>2, <1>3, <1>9 DEF Sits
<1>11. Local(h, self)
  BY <1>1, <1>9, <1>10, SelfLocal
<1>12. Good(mem', calls, h, Den(self))
  <2>1. Summed(calls, h.others, Bound, 0, Terms[1]) /\ Terms[1].loop = F.loop
    BY <1>5, <1>6, <1>7, <1>8, <1>9
  <2> QED
    BY <1>5, <1>9, <2>1, InnerLaw
<1> QED
  BY <1>1, <1>2, <1>11, <1>12, FinishSound

\* The packs hold all the values.
LEMMA PackedEnough ==
  ASSUME NEW c \in Nat, Bound \in Nat, Bound # 0
  PROVE  Packed(c) \in Nat /\ c <= Packed(c) * Bound
<1> DEFINE b == Bound
           q == c \div b
           r == c % b
<1>1. b \in Nat /\ b > 0
  OBVIOUS
<1> HIDE DEF b
<1>2. q \in Nat /\ r \in 0..(b - 1) /\ c = b * q + r
  BY <1>1, Z3
<1>3. Packed(c) = q + IF r = 0 THEN 0 ELSE 1
  BY PackedNat DEF b
<1> HIDE DEF q, r
<1>4. CASE r = 0
  <2>1. q * b = b * q
    BY <1>1, <1>2, Z3
  <2>2. b * q \in Nat
    BY <1>1, <1>2
  <2>3. Packed(c) = q /\ c = b * q
    BY <1>2, <1>3, <1>4, <2>2
  <2> QED
    BY <1>2, <2>1, <2>2, <2>3 DEF b
<1>5. CASE r # 0
  <2>1. (q + 1) * b = b * q + b
    BY <1>1, <1>2, Z3
  <2>2. b * q \in Nat
    BY <1>1, <1>2
  <2>3. c <= b * q + b
    BY <1>1, <1>2, <2>2
  <2>4. Packed(c) = q + 1
    BY <1>3, <1>5
  <2> QED
    BY <1>2, <2>1, <2>3, <2>4 DEF b
<1> QED
  BY <1>4, <1>5

LEMMA LoopOuterSound ==
  ASSUME Ready, status = "run", LoopOuter
  PROVE  Sound'
<1> DEFINE s == Source(1)
           c == Packed(s.cnt)
           h(e) == [loop |-> s.loop, cnt |-> c, eta |-> e, others |-> s.others * Bound]
           l == [Start EXCEPT !.ph = "pack", !.bound = Bound]
           used == {g.eta : g \in {aw[n] : n \in Nodes} \cup {stack[d].hdr : d \in DOMAIN stack}}
<1>1. /\ AtLoop("visit") /\ Visited /\ Bound # 0 /\ s.loop # F.loop
      /\ \/ F.kind = "LOOP" /\ Put(h(dest.eta), l) /\ UNCHANGED mem
         \/ F.kind = "PARAM_LOOP" /\ \E b \in Heap \ used :
              Put(h(b), l) /\ mem' = [mem EXCEPT ![b] = [j \in 1..c |-> 0]]
  BY DEF LoopOuter
<1>2. F.kind \in LoopKinds /\ F.kind # "SEQ" /\ F.kind # "CONST"
  BY <1>1, LoopAt
<1>3. /\ TInv /\ Safe /\ Fits(formula) /\ self \in Nodes /\ F = formula[self]
      /\ aw \in [Nodes -> Header] /\ mem \in [Buffers -> Seq(Int)]
  BY ReadyFacts
<1>4. /\ s = Sources[1] /\ s.loop \in Int /\ s.cnt \in Nat /\ s.others \in Nat
      /\ Terms[1] \in AP!AWcets /\ calls \in Nat /\ Bound \in Nat
  BY <1>1, <1>2, LoopState
<1>5. c \in Nat /\ s.cnt <= c * Bound
  BY <1>1, <1>4, PackedEnough
<1>6. /\ l.ph = "pack" /\ l.bound = Bound /\ l.k = 0 /\ l.j = 0 /\ l.acc = 0
  BY DEF Start
<1>7. s.others * Bound \in Int
  BY <1>4
<1> HIDE DEF s, c, l, used
<1>8. ASSUME NEW e \in Pointers, e # NULL, Put(h(e), l), Local(h(e), e), Private(e)
      PROVE  Sound'
  <2> DEFINE g == h(e)
  <2>1. g.loop = s.loop /\ g.cnt = c /\ g.eta = e /\ g.others = s.others * Bound
    OBVIOUS
  <2>2. loc' = l /\ Local(g, e)
    BY <1>8 DEF Put
  <2> HIDE DEF g
  <2>3. Summed(calls, 0, 0, 0 * Bound, Terms[1])
    <3>1. 0 * Bound = 0
      BY <1>4
    <3> QED
      BY <1>4, <3>1, SummedNone
  <2>4. Packs(g, s, Bound)
    BY <1>5, <1>8, <2>1 DEF Packs
  <2>5. PackRow(mem', calls, g.eta, 0, Bound, Terms[1])
    BY DEF PackRow
  <2>6. LoopWork(mem', calls, g, Sources, Terms, F, loc', Bound)
    <3>1. 0 <= g.cnt /\ 0 < Bound
      BY <1>1, <1>4, <1>5, <2>1
    <3> QED
      BY <1>1, <1>4, <1>6, <2>2, <2>3, <2>4, <2>5, <3>1 DEF LoopWork
  <2>7. Working'
    BY <1>2, <1>8, <2>1, <2>2, <2>6, LoopWorking
  <2> QED
    BY <1>2, <1>6, <2>2, <2>7, LocalSound
<1>9. CASE F.kind = "LOOP" /\ Put(h(dest.eta), l) /\ UNCHANGED mem
  <2>1. dest.eta = self /\ self \in Pointers /\ self # NULL
    BY <1>3, <1>9, SelfFacts DEF Owners
  <2>2. h(self) \in Header
    BY <1>4, <1>5, <1>7, <2>1 DEF Header
  <2>3. Sits(formula, self, h(self))
    BY <1>2, <1>3, BelowClosed, ReadyFacts DEF Sits
  <2>4. Put(h(self), l)
    BY <1>9, <2>1
  <2> HIDE DEF h
  <2>5. Local(h(self), self)
    BY <1>9, <2>2, <2>3, <2>4, SelfLocal DEF Put
  <2> QED
    BY <1>8, <2>1, <2>4, <2>5 DEF Private
<1>10. ASSUME F.kind = "PARAM_LOOP", NEW b \in Heap \ used, Put(h(b), l),
              mem' = [mem EXCEPT ![b] = [j \in 1..c |-> 0]]
       PROVE  Sound'
  <2>1. b \in Pointers /\ b # NULL /\ b \notin Nodes /\ b \notin Lists
    BY RuntimeAssumption DEF Pointers, Buffers
  <2>2. h(b) \in Header
    BY <1>4, <1>5, <1>7, <2>1 DEF Header
  <2>3. Sits(formula, self, h(b))
    BY <1>2, <1>3, <2>1 DEF Sits
  <2>4. Private(b)
    BY <2>1 DEF Private, used
  <2>5. \A x \in Buffers : x # b => mem'[x] = mem[x]
    BY <1>3, <1>10
  <2> HIDE DEF h
  <2>6. Local(h(b), b)
    BY <1>10, <2>2, <2>3, <2>4, <2>5 DEF Local, Put
  <2> QED
    BY <1>8, <1>10, <2>1, <2>4, <2>6
<1> HIDE DEF h
<1> QED
  BY <1>1, <1>9, <1>10

LEMMA LoopPackState ==
  ASSUME Ready, status = "run", AtLoop("pack")
  PROVE  /\ F.kind \in LoopKinds /\ F.kind # "SEQ" /\ F.kind # "CONST" /\ Visited
         /\ loc \in LocType /\ loc.ph = "pack" /\ loc.k \in Nat /\ loc.j \in Nat
         /\ dest.cnt \in Nat /\ loc.k <= dest.cnt /\ loc.bound = Bound /\ Bound \in Nat
         /\ Bound # 0 /\ loc.j < Bound /\ Sources[1].loop # F.loop
         /\ Source(1) = Sources[1] /\ Part(mem, calls, Source(1), Terms[1])
         /\ Packs(dest, Source(1), Bound)
         /\ Summed(calls, loc.acc, loc.j, loc.k * Bound, Terms[1])
         /\ PackRow(mem, calls, dest.eta, loc.k, Bound, Terms[1])
         /\ Private(dest.eta) /\ calls \in Nat
         /\ \A j \in Nat : Elem(Source(1), j) = El(mem, Source(1), j)
<1>1. F.kind \in LoopKinds /\ F.kind # "SEQ" /\ F.kind # "CONST" /\ Visited /\ loc.ph = "pack"
  BY LoopAt DEF AtLoop, In
<1>2. loc \in LocType /\ loc.k \in Nat /\ loc.j \in Nat
  BY ReadyFacts DEF LocType
<1>3. /\ dest.cnt \in Nat /\ Private(dest.eta) /\ Bound \in Nat /\ calls \in Nat
      /\ Source(1) = Sources[1] /\ Part(mem, calls, Source(1), Terms[1])
      /\ LoopWork(mem, calls, dest, Sources, Terms, F, loc, Bound)
      /\ \A j \in Nat : Elem(Source(1), j) = El(mem, Source(1), j)
  BY <1>1, LoopState
<1>4. /\ loc.bound = Bound /\ Bound # 0 /\ Sources[1].loop # F.loop
      /\ Packs(dest, Sources[1], Bound)
      /\ loc.k <= dest.cnt /\ loc.j < Bound
      /\ Summed(calls, loc.acc, loc.j, loc.k * Bound, Terms[1])
      /\ PackRow(mem, calls, dest.eta, loc.k, Bound, Terms[1])
  BY <1>1, <1>3 DEF LoopWork
<1> QED
  BY <1>1, <1>2, <1>3, <1>4

LEMMA LoopPackedSound ==
  ASSUME Ready, status = "run", LoopPacked
  PROVE  Sound'
<1>1. /\ AtLoop("pack") /\ loc.k >= dest.cnt /\ mem' = mem /\ loc' = Finished
      /\ UNCHANGED <<formula, status, val, stack, aw, result, calls>>
  BY DEF LoopPacked, Go
<1>2. /\ F.kind \in LoopKinds /\ F.kind # "SEQ" /\ F.kind # "CONST" /\ Visited
      /\ Sources[1].loop # F.loop /\ Source(1) = Sources[1]
      /\ Part(mem, calls, Source(1), Terms[1]) /\ Packs(dest, Source(1), Bound)
      /\ PackRow(mem, calls, dest.eta, dest.cnt, Bound, Terms[1])
      /\ calls \in Nat /\ dest.cnt \in Nat /\ Bound \in Nat
  <2>1. loc.k = dest.cnt
    BY <1>1, LoopPackState
  <2> QED
    BY <1>1, <2>1, LoopPackState
<1>3. /\ Terms[1].loop # F.loop /\ F.loop \in Int
      /\ Den(self) = AP!Pow(Terms[1], AP!Bot, F.loop, Bound)
  BY <1>2, LoopState
<1>4. Good(mem, calls, dest, Den(self))
  BY <1>2, <1>3, OuterLaw DEF Packs
<1>5. Local(dest, self)
  BY <1>1, StayLocal DEF Private
<1> QED
  BY <1>1, <1>2, <1>4, <1>5, FinishSound

LEMMA BoolFalseSound ==
  ASSUME Ready, status = "run", BoolFalse
  PROVE  Sound'
<1> DEFINE h == [loop |-> LOOP_TOP, cnt |-> 0, eta |-> NULL, others |-> 0]
<1>1. /\ F.kind = "BOOLMULT" /\ ~CheckCondition /\ mem' = mem
      /\ aw' = [aw EXCEPT ![self] = h] /\ loc' = Finished
      /\ UNCHANGED <<formula, status, val, stack, result, calls>>
  BY DEF BoolFalse, Put, In
<1>2. h \in Header /\ Sits(formula, self, h)
  BY <1>1, ZeroSits
<1>3. h.loop = LOOP_TOP /\ h.cnt = 0 /\ h.others = 0
  OBVIOUS
<1> HIDE DEF h
<1>4. calls \in Nat /\ formula \in Formulas /\ val \in Valuations /\ Plain(formula)
      /\ self \in Nodes /\ F = formula[self]
  BY ReadyFacts
<1>5. Den(self) = AP!Bot
  <2>1. ~Holds(val, F)
    BY <1>1 DEF Holds, CheckCondition
  <2>2. Den(self) = Meaning(val, F, Terms)
    BY <1>4, DenotedLaw DEF Den, Terms
  <2> QED
    BY <1>1, <2>1, <2>2, SameAlgebra DEF Meaning
<1>6. Good(mem', calls, h, Den(self))
  BY <1>3, <1>4, <1>5, BotGood
<1>7. Local(h, self)
  BY <1>1, <1>2, SelfLocal
<1> QED
  BY <1>1, <1>6, <1>7, FinishSound

LEMMA LoopPackSound ==
  ASSUME Ready, status = "run", LoopPack
  PROVE  Sound'
<1> DEFINE e == dest.eta
           s == Source(1)
           k == loc.k
           j == loc.j
           x == Terms[1]
           b == Bound
           sum == IF loc.bound > 0 THEN loc.acc + Elem(s, j + k * loc.bound) ELSE 0
<1>1. /\ AtLoop("pack") /\ k < dest.cnt
      /\ UNCHANGED <<formula, status, val, stack, aw, result, calls>>
      /\ IF j + 1 < loc.bound
         THEN loc' = [loc EXCEPT !.j = j + 1, !.acc = sum] /\ mem' = mem
         ELSE loc' = [loc EXCEPT !.k = k + 1, !.j = 0, !.acc = 0] /\ Store(e, k, sum)
  BY DEF LoopPack, Go
<1>2. /\ F.kind \in LoopKinds /\ F.kind # "SEQ" /\ F.kind # "CONST" /\ Visited
      /\ loc \in LocType /\ loc.ph = "pack" /\ k \in Nat /\ j \in Nat
      /\ dest.cnt \in Nat /\ loc.bound = b /\ b \in Nat
      /\ b # 0 /\ j < b /\ Sources[1].loop # F.loop
      /\ s = Sources[1] /\ Part(mem, calls, s, x)
      /\ Packs(dest, s, b)
      /\ Summed(calls, loc.acc, j, k * b, x)
      /\ PackRow(mem, calls, e, k, b, x)
      /\ Private(e) /\ calls \in Nat
      /\ \A i \in Nat : Elem(s, i) = El(mem, s, i)
  BY <1>1, LoopPackState
<1>3. x \in AP!AWcets
  BY <1>2, LoopState
<1>4. /\ TInv /\ Safe /\ Fits(formula) /\ dest \in Header /\ mem \in [Buffers -> Seq(Int)]
  BY ReadyFacts
<1>5. e \in Buffers /\ k + 1 \in DOMAIN mem[e] /\ DOMAIN mem[e] = 1..Len(mem[e])
  <2>1. HeaderInv(self, dest)
    BY <1>4, SelfFacts
  <2>2. e # NULL
    BY <1>2 DEF Packs
  <2>3. e \in Buffers
    BY <1>4, <2>2 DEF Header, Pointers
  <2>4. mem[e] \in Seq(Int)
    BY <1>4, <2>3
  <2>5. Len(mem[e]) \in Nat /\ DOMAIN mem[e] = 1..Len(mem[e])
    BY <2>4, LenProperties
  <2>6. dest.cnt <= Len(mem[e])
    BY <1>1, <1>2, <2>1 DEF HeaderInv
  <2> QED
    BY <1>1, <1>2, <2>3, <2>5, <2>6
<1>6. Local(dest, e)
  <2>1. \A c \in Buffers : c # e => mem'[c] = mem[c]
    BY <1>1, <1>4 DEF Store
  <2> HIDE DEF e
  <2> QED
    BY <1>1, <1>2, <2>1, StayLocal
<1>7. Summed(calls, sum, j + 1, k * b, x)
  <2>1. k * b \in Nat
    BY <1>2
  <2>2. j + k * loc.bound = k * b + j /\ k * b + j \in Nat
    BY <1>2, <2>1
  <2>3. Elem(s, j + k * loc.bound) = El(mem, s, k * b + j)
    BY <1>2, <2>2
  <2>4. sum = loc.acc + Elem(s, j + k * loc.bound)
    BY <1>2
  <2> HIDE DEF s, b, k, j, sum
  <2>5. Summed(calls, loc.acc + El(mem, s, k * b + j), j + 1, k * b, x)
    BY <1>2, <2>1, SummedNext
  <2> QED
    BY <2>3, <2>4, <2>5
<1>8. CASE j + 1 < b
  <2>1. loc' = [loc EXCEPT !.j = j + 1, !.acc = sum] /\ mem' = mem
    BY <1>1, <1>2, <1>8
  <2>2. /\ loc'.ph = "pack" /\ loc'.bound = b /\ loc'.k = k /\ loc'.j = j + 1 /\ loc'.acc = sum
    BY <1>2, <2>1 DEF LocType
  <2> HIDE DEF sum, s, x, e
  <2>3. LoopWork(mem', calls, dest, Sources, Terms, F, loc', Bound)
    <3>1. k <= dest.cnt
      BY <1>1, <1>2
    <3> QED
      BY <1>2, <1>7, <1>8, <2>1, <2>2, <3>1 DEF LoopWork, x, e
  <2>4. Working'
    BY <1>2, <1>6, <2>3, LoopWorking DEF e
  <2> QED
    BY <1>2, <1>6, <2>2, <2>4, LocalSound
<1>9. CASE ~(j + 1 < b)
  <2>1. loc' = [loc EXCEPT !.k = k + 1, !.j = 0, !.acc = 0] /\ Store(e, k, sum)
    BY <1>1, <1>2, <1>9
  <2>2. /\ loc'.ph = "pack" /\ loc'.bound = b /\ loc'.k = k + 1 /\ loc'.j = 0 /\ loc'.acc = 0
    BY <1>2, <2>1 DEF LocType
  <2>3. j + 1 = b
    BY <1>2, <1>9
  <2> HIDE DEF sum
  <2>4. mem'[e] = [mem[e] EXCEPT ![k + 1] = sum]
    BY <1>4, <1>5, <2>1 DEF Store
  <2> HIDE DEF s, x, e, k, j
  <2>5. ASSUME NEW i \in Nat, i < k + 1
        PROVE  Summed(calls, mem'[e][i + 1], b, i * b, x)
    <3>1. CASE i = k
      <4>1. mem'[e][i + 1] = sum
        BY <1>5, <2>4, <3>1
      <4> QED
        BY <1>7, <2>3, <3>1, <4>1
    <3>2. CASE i # k
      <4>1. i < k /\ i + 1 # k + 1 /\ i + 1 \in DOMAIN mem[e]
        BY <1>2, <1>5, <2>5, <3>2, LenProperties
      <4>2. mem'[e][i + 1] = mem[e][i + 1]
        BY <2>4, <4>1
      <4> QED
        BY <1>2, <4>1, <4>2 DEF PackRow
    <3> QED
      BY <3>1, <3>2
  <2>6. PackRow(mem', calls, e, k + 1, b, x)
    BY <2>5 DEF PackRow
  <2>7. Summed(calls, 0, 0, (k + 1) * b, x)
    <3>1. (k + 1) * b \in Nat
      BY <1>2
    <3> QED
      BY <1>2, <1>3, <3>1, SummedNone
  <2>8. LoopWork(mem', calls, dest, Sources, Terms, F, loc', Bound)
    <3>1. k + 1 <= dest.cnt /\ 0 < b
      BY <1>1, <1>2
    <3> QED
      BY <1>2, <2>2, <2>6, <2>7, <3>1 DEF LoopWork, x, e
  <2>9. Working'
    BY <1>2, <1>6, <2>8, LoopWorking DEF e
  <2> QED
    BY <1>2, <1>6, <2>2, <2>9, LocalSound
<1> QED
  BY <1>8, <1>9

-----------------------------------------------------------------------------
(* awcet_ann                                                               *)

\* An annotation of a plain formula does not conflict with the loop of its operand.
LEMMA AnnState ==
  ASSUME Ready, In("ANN", "visit"), Visited
  PROVE  /\ status = "run" /\ F.kind = "ANN" /\ calls \in Nat
         /\ F.kids[1] \in Nodes /\ Source(1) = aw[F.kids[1]] /\ Source(1) \in Header
         /\ HeaderInv(F.kids[1], Source(1)) /\ Sits(formula, F.kids[1], Source(1))
         /\ Terms[1] \in AP!AWcets /\ Part(mem, calls, Source(1), Terms[1])
         /\ Ann.loop \in Int /\ Ann.count \in Nat \cup {-1}
         /\ Den(self) = IF Ann.count = -1 THEN Terms[1]
                        ELSE AP!Annot(Terms[1], Ann.loop, Ann.count)
         /\ Ann.count # -1 =>
              /\ ~Conflict
              /\ \/ Terms[1].loop = Ann.loop
                 \/ Source(1).cnt = 0 /\ AP!Glb(Terms[1].loop, Ann.loop) = Ann.loop
<1> DEFINE kid == F.kids[1]
<1>1. /\ status = "run" /\ F.kind = "ANN" /\ F = formula[self] /\ self \in Nodes
      /\ formula \in Formulas /\ val \in Valuations /\ Plain(formula) /\ calls \in Nat
      /\ TInv /\ Safe /\ Sound
  BY ReadyFacts DEF In
<1>2. kid \in Nodes /\ Source(1) = aw[kid] /\ 1 \in DOMAIN F.kids
  BY <1>1, OneOperand
<1>3. Stand(mem, calls, Sources, Terms) /\ Sources[1] = Source(1) /\ 1 \in 1..Len(Terms)
      /\ Meaning(val, F, Terms) = Den(self)
  BY <1>1, <1>2, OperandsStand, ReadyFacts
<1>4. Part(mem, calls, Source(1), Terms[1])
  BY <1>1, <1>3, StandFacts
<1>5. Terms[1] \in AP!AWcets /\ Source(1) \in Header /\ Source(1).loop = Terms[1].loop
  BY <1>4 DEF Part
<1>6. HeaderInv(kid, Source(1)) /\ Sits(formula, kid, Source(1))
  BY <1>1, <1>2 DEF Safe, Sound, Places
<1>7. Ann.loop \in Int /\ Ann.count \in Nat \cup {-1}
  BY <1>1, AnnTypes DEF Ann
<1>8. Den(self) = IF Ann.count = -1 THEN Terms[1] ELSE AP!Annot(Terms[1], Ann.loop, Ann.count)
  BY <1>1, <1>3, SameAlgebra DEF Meaning, Ann
<1>9. Terms[1] = Denotation(formula, val)[formula[self].kids[1]]
  BY <1>1, <1>2 DEF Terms, Parts
<1> HIDE DEF kid
<1>10. \/ Ann.count = -1
       \/ Terms[1].loop = Ann.loop
       \/ Scalar(formula, formula[self].kids[1]) /\ Algebra!Glb(Terms[1].loop, Ann.loop) = Ann.loop
  BY <1>1, <1>9 DEF Plain, Ann
<1>11. Scalar(formula, formula[self].kids[1]) => Source(1).cnt = 0
  BY <1>1, ScalarEmpty
<1>12. Ann.count # -1 => ~Conflict
  BY <1>5, <1>10, <1>11 DEF Conflict, LoopInner
<1> QED
  BY <1>1, <1>2, <1>4, <1>5, <1>6, <1>7, <1>8, <1>10, <1>11, <1>12, SameAlgebra DEF kid

LEMMA AnnKeepSound ==
  ASSUME Ready, status = "run", AnnKeep
  PROVE  Sound'
<1> DEFINE s == Source(1)
           kid == F.kids[1]
<1>1. In("ANN", "visit") /\ Visited /\ AnnKept /\ Put(s, Finished) /\ mem' = mem
  BY DEF AnnKeep
<1>2. /\ F.kind = "ANN" /\ kid \in Nodes /\ s \in Header
      /\ Sits(formula, kid, s) /\ Part(mem, calls, s, Terms[1])
      /\ Ann.count = -1 /\ Den(self) = Terms[1]
  BY <1>1, AnnState DEF AnnKept
<1>3. Good(mem', calls, s, Den(self))
  BY <1>1, <1>2 DEF Part, Good
<1>4. /\ formula \in Formulas /\ self \in Nodes /\ F = formula[self] /\ 1 \in DOMAIN F.kids
  BY <1>2, OneOperand, ReadyFacts
<1>5. Below(formula, kid) \subseteq Below(formula, self)
  BY <1>4, BelowKid
<1>6. Sits(formula, self, s)
  BY <1>2, <1>4, <1>5 DEF Sits
<1> HIDE DEF s
<1>7. Local(s, self)
  BY <1>1, <1>2, <1>6, SelfLocal DEF Put
<1> QED
  BY <1>1, <1>2, <1>3, <1>7, FinishSound DEF Put

LEMMA AnnCutSound ==
  ASSUME Ready, status = "run", AnnCut
  PROVE  Sound'
<1> DEFINE s == Source(1)
           kid == F.kids[1]
           n == Ann.count
           e == dest.eta
           h == [loop |-> IF s.cnt = 0 \/ Conflict THEN Ann.loop ELSE s.loop,
                 cnt |-> n, eta |-> e, others |-> 0]
           row == [j \in DOMAIN mem[e] |-> IF j <= n THEN Elem(s, j - 1) ELSE mem[e][j]]
           x == Terms[1]
<1>1. /\ In("ANN", "visit") /\ Visited /\ ~AnnKept /\ Put(h, Finished)
      /\ mem' = IF n <= 0 THEN mem ELSE [mem EXCEPT ![e] = row]
  BY DEF AnnCut
<1>2. /\ F.kind = "ANN" /\ kid \in Nodes /\ s = aw[kid] /\ s \in Header /\ calls \in Nat
      /\ HeaderInv(kid, s) /\ Sits(formula, kid, s) /\ Part(mem, calls, s, x) /\ x \in AP!AWcets
      /\ n \in Nat /\ Ann.loop \in Int /\ Den(self) = AP!Annot(x, Ann.loop, n) /\ ~Conflict
      /\ x.loop = Ann.loop \/ (s.cnt = 0 /\ AP!Glb(x.loop, Ann.loop) = Ann.loop)
  BY <1>1, AnnState DEF AnnKept
<1>3. /\ TInv /\ Safe /\ Fits(formula) /\ Sound /\ formula \in Formulas /\ self \in Nodes
      /\ F = formula[self] /\ dest \in Header /\ Sits(formula, self, dest)
      /\ HeaderInv(self, dest) /\ mem \in [Buffers -> Seq(Int)]
  BY ReadyFacts, SelfFacts
<1>4. n = 0 \/ (e # NULL /\ e \in Buffers /\ n <= Len(mem[e]) /\ mem[e] \in Seq(Int)
                 /\ DOMAIN mem[e] = 1..Len(mem[e]) /\ Len(mem[e]) \in Nat)
  <2>1. Spans(e, n) /\ e \in Buffers \cup {NULL}
    BY <1>1, <1>3, CutSpans DEF Header, Pointers
  <2>2. n \in Nat
    BY <1>2
  <2> HIDE DEF n, e
  <2> QED
    BY <1>3, <2>1, <2>2, LenProperties DEF Spans
<1>5. /\ Den(self).loop = AP!Glb(x.loop, Ann.loop)
      /\ \A j \in Nat : V(Den(self).m, j + 1) = IF j < n THEN V(x.m, j + 1) ELSE 0
  <2> DEFINE a == Ann.loop
             y == AP!Annot(x, a, n)
  <2> HIDE DEF a, n, x
  <2>1. x \in AP!AWcets /\ a \in Int /\ n \in Nat /\ Den(self) = y
    BY <1>2 DEF a, n, x
  <2>2. y.loop = AP!Glb(x.loop, a) /\ \A i \in AP!Pos : AP!Value(y.m, i) = IF i <= n THEN AP!Value(x.m, i) ELSE 0
    BY <2>1, AP!AnnotLaw
  <2>3. \A j \in Nat : j + 1 \in AP!Pos /\ (j + 1 <= n <=> j < n)
    BY <2>1, SameTotals
  <2> HIDE DEF y
  <2> QED
    BY <2>1, <2>2, <2>3 DEF V, a
<1>6. /\ s.cnt \in Nat /\ s.loop = x.loop /\ s.others \in Nat
      /\ \A j \in Nat : El(mem, s, j) \in Nat /\ Covers(calls, El(mem, s, j), V(x.m, j + 1))
  BY <1>2 DEF Part
<1>7. \A j : Elem(s, j) = El(mem, s, j)
  BY DEF Elem, Cell, El
<1>8. h.loop = Den(self).loop /\ h.cnt = n /\ h.eta = e /\ h.others = 0 /\ h.loop \in Int
  <2>1. AP!Glb(Ann.loop, Ann.loop) = Ann.loop
    BY DEF AP!Glb, AP!ImmContained
  <2> QED
    BY <1>2, <1>5, <1>6, <2>1
<1>9. h \in Header /\ Sits(formula, self, h)
  BY <1>2, <1>3, <1>8 DEF Header, Sits
<1>10. n \in Nat
  BY <1>2
<1> HIDE DEF s, kid, n, e, h, x, row
<1>11. ASSUME n # 0
       PROVE  mem'[e] = row /\ \A c \in Buffers : c # e => mem'[c] = mem[c]
  BY <1>1, <1>3, <1>4, <1>11, <1>10
<1>12. ASSUME n # 0, NEW j \in 1..Len(mem[e])
       PROVE  row[j] = IF j <= n THEN El(mem, s, j - 1) ELSE mem[e][j]
  BY <1>4, <1>7, <1>12 DEF row
<1>13. ASSUME NEW j \in Nat
       PROVE  Covers(calls, El(mem', h, j), V(Den(self).m, j + 1))
  <2>1. CASE j < n
    <3>1. n # 0 /\ j + 1 \in 1..Len(mem[e]) /\ j + 1 <= n /\ (j + 1) - 1 = j
      BY <1>2, <1>4, <2>1 DEF n
    <3>2. mem'[e][j + 1] = El(mem, s, j)
      BY <1>11, <1>12, <3>1
    <3> QED
      BY <1>5, <1>6, <1>8, <2>1, <3>2 DEF El
  <2>2. CASE ~(j < n)
    BY <1>5, <1>8, <2>2 DEF El, Covers
  <2> QED
    BY <2>1, <2>2
<1>14. Good(mem', calls, h, Den(self))
  BY <1>8, <1>13 DEF Good
<1>15. ASSUME NEW b, Local(h, b)
       PROVE  Sound'
  BY <1>1, <1>2, <1>14, <1>15, FinishSound DEF Put
<1>16. CASE n = 0 \/ e = self
  <2>1. \A c \in Buffers : c # self => mem'[c] = mem[c]
    BY <1>1, <1>11, <1>16
  <2>2. Local(h, self)
    BY <1>1, <1>9, <2>1, SelfLocal DEF Put
  <2> QED
    BY <1>15, <2>2
<1>17. CASE n # 0 /\ e # self
  <2>1. n <= Room(formula, kid) /\ Room(formula, kid) \in Nat \ {0} /\ e = kid
    <3>1. /\ MayShare(formula, self) => n <= Room(formula, kid)
      BY <1>1, <1>3, AnnFits DEF n, kid
    <3>2. MayShare(formula, self) /\ (e = kid \/ Room(formula, kid) = 0)
      BY <1>2, <1>3, <1>17 DEF HeaderInv, Points, e, kid
    <3>3. Room(formula, kid) \in Nat
      BY <1>2, <1>3, RoomFacts
    <3> QED
      BY <1>2, <1>17, <3>1, <3>2, <3>3
  <2>2. s.eta = e
    BY <1>2, <1>3, <2>1, RoomFacts
  <2>3. s.cnt <= Len(mem[e]) /\ Len(mem[e]) \in Nat
    <3>1. Len(mem[e]) \in Nat
      BY <1>4, <1>17
    <3>2. s.cnt = 0 \/ s.cnt <= Len(mem[s.eta])
      BY <1>2 DEF HeaderInv
    <3>3. s.cnt \in Nat /\ Len(mem[s.eta]) = Len(mem[e])
      BY <1>6, <2>2
    <3> QED
      BY <3>1, <3>2, <3>3
  <2>4. ASSUME NEW j \in 1..Len(mem[e])
        PROVE  /\ mem'[e][j] = IF j <= n THEN El(mem, s, j - 1) ELSE mem[e][j]
               /\ j <= s.cnt => mem'[e][j] = mem[e][j]
    <3>1. mem'[e][j] = IF j <= n THEN El(mem, s, j - 1) ELSE mem[e][j]
      BY <1>11, <1>12, <1>17
    <3>2. j <= s.cnt => El(mem, s, j - 1) = mem[e][j]
      <4>1. j \in Nat /\ (j - 1) + 1 = j
        BY <1>4, <1>17
      <4> QED
        BY <1>6, <2>2, <4>1 DEF El
    <3> QED
      BY <3>1, <3>2
  <2>5. ASSUME NEW j \in Nat
        PROVE  El(mem', s, j) = El(mem, s, j)
    <3>1. s.cnt \in Nat
      BY <1>6
    <3>2. j < s.cnt => j + 1 \in 1..Len(mem[e]) /\ j + 1 <= s.cnt
      BY <2>3, <3>1
    <3>3. j < s.cnt => mem'[e][j + 1] = mem[e][j + 1]
      BY <2>4, <3>2
    <3> QED
      BY <2>2, <3>3 DEF El
  <2>6. DOMAIN mem'[e] = 1..Len(mem[e]) /\ Len(mem'[e]) = Len(mem[e]) /\ mem'[e] = row
        /\ DOMAIN row = DOMAIN mem[e]
    <3>1. mem'[e] = row /\ DOMAIN row = 1..Len(mem[e]) /\ Len(mem[e]) \in Nat
      BY <1>4, <1>11, <1>17 DEF row
    <3> QED
      BY <1>4, <1>17, <3>1, DomainLen, AnnCutType DEF TInv, TypeOK
  <2>7. Cells(formula, mem', kid)
    <3>1. Cells(formula, mem, kid)
      BY <1>2, <1>3 DEF Sound, Places
    <3>2. CASE formula[kid].kind = "CONST"
      <4>1. mem[e] = formula[kid].eta /\ s.cnt = Len(mem[e])
        BY <1>2, <2>1, <3>1, <3>2 DEF Cells, Sits, ConstHeader
      <4>2. \A j \in 1..Len(mem[e]) : mem'[e][j] = mem[e][j]
        BY <1>4, <1>17, <2>4, <4>1
      <4>3. mem'[e] = mem[e]
        <5>1. mem[e] = [j \in 1..Len(mem[e]) |-> mem[e][j]]
          BY <1>4, <1>17
        <5>2. row = [j \in 1..Len(mem[e]) |-> row[j]]
          BY <1>4, <1>17 DEF row
        <5>3. \A j \in 1..Len(mem[e]) : row[j] = mem[e][j]
          BY <2>6, <4>2
        <5> QED
          BY <2>6, <5>1, <5>2, <5>3
      <4> QED
        BY <2>1, <3>2, <4>1, <4>3 DEF Cells
    <3>3. CASE formula[kid].kind = "SEQ"
      <4>1. ASSUME NEW j \in 1..Len(mem[e])
            PROVE  mem'[e][j] >= 0
        <5>1. j - 1 \in Nat /\ mem[e][j] >= 0
          BY <1>4, <1>17, <2>1, <3>1, <3>3 DEF Cells
        <5>2. El(mem, s, j - 1) >= 0
          BY <1>6, <5>1
        <5> QED
          BY <2>4, <5>1, <5>2
      <4> QED
        BY <2>1, <2>6, <3>3, <4>1 DEF Cells
    <3>4. CASE formula[kid].kind \notin {"CONST", "SEQ"}
      BY <3>4 DEF Cells
    <3> QED
      BY <3>2, <3>3, <3>4
  <2>8. Rewritten(e)
    BY <1>1, <1>2, <2>1, <2>5, <2>7 DEF Rewritten, kid
  <2>9. Local(h, e)
    BY <1>1, <1>9, <1>11, <1>17, <2>8 DEF Local, Put
  <2> QED
    BY <1>15, <2>9
<1> QED
  BY <1>16, <1>17

-----------------------------------------------------------------------------
(* The recursion                                                           *)

LEMMA StartWorking ==
  ASSUME loc' = Start
  PROVE  Working'
BY FinishedType DEF Working, SeqWork, AltWork, LoopWork

LEMMA RunEnding ==
  ASSUME status' = "run"
  PROVE  Ending'
BY DEF Ending, Answered

LEMMA CallSound ==
  ASSUME Ready, NEW v \in Valuations, Call(v)
  PROVE  Sound'
<1> DEFINE fr == [node |-> Root, i |-> 0, hdr |-> aw[Root]]
<1>1. /\ status = "idle" /\ status' = "run" /\ calls' = calls + 1 /\ stack' = <<fr>>
      /\ UNCHANGED <<formula, loc, aw, mem, result>>
  BY DEF Call, Frame
<1>2. fr.node = Root /\ fr.i = 0 /\ fr.hdr = aw[Root]
  OBVIOUS
<1> HIDE DEF fr
<1>3. Len(stack') = 1 /\ stack'[1] = fr
  BY <1>1
<1>4. TInv /\ Sound /\ formula \in Formulas /\ Root \in Nodes /\ calls \in Nat /\ loc = Start
  BY <1>1, RuntimeAssumption DEF Ready, TInv, Control, TypeOK
<1>5. /\ DOMAIN formula[Root].kids = 1..Len(formula[Root].kids)
      /\ \A c \in DOMAIN formula[Root].kids : formula[Root].kids[c] \in Nodes
  BY <1>4, FormulaFacts, LenProperties
<1>6. ASSUME NEW d \in 1..Len(stack')
      PROVE  d = 1 /\ stack'[d].node = Root /\ stack'[d].i = 0 /\ stack'[d].hdr = aw[Root]
  BY <1>2, <1>3, <1>6
<1>7. Places'
  BY <1>1, <1>4, <1>6 DEF Sound, Places
<1>8. Untouched'
  <2>1. calls' # 0
    BY <1>1, <1>4
  <2>2. calls' = 1 => \A n \in Nodes : Unused(formula, mem, n)
    BY <1>1, <1>4 DEF Sound, Untouched
  <2>3. \A c \in DOMAIN formula[Root].kids : Below(formula, formula[Root].kids[c]) \subseteq Nodes
    BY <1>4, <1>5, BelowClosed
  <2> QED
    BY <1>1, <1>4, <1>6, <2>1, <2>2, <2>3 DEF Untouched
<1>9. Guarded'
  BY <1>6 DEF Guarded
<1>10. Computed'
  <2>1. loc'.ph # "done"
    BY <1>1, <1>4, FinishedType
  <2>2. ASSUME NEW d \in 1..Len(stack'), NEW c \in DOMAIN formula'[stack'[d].node].kids
        PROVE  ~Done(d, c)'
    <3>1. c \in 1..Len(formula[Root].kids) /\ stack'[d].i = 0
      BY <1>1, <1>5, <1>6
    <3>2. ~(c < stack'[d].i) /\ c # stack'[d].i
      BY <3>1
    <3> QED
      BY <3>2 DEF Done
  <2> QED
    BY <2>1, <2>2 DEF Computed
<1>11. Working' /\ Ending'
  BY <1>1, <1>4, StartWorking, RunEnding
<1> QED
  BY <1>7, <1>8, <1>9, <1>10, <1>11 DEF Sound

LEMMA EnterSound ==
  ASSUME Ready, status = "run", loc = Start, ~Visited, Enter,
         F.kind = "BOOLMULT" => Top.i = 0 /\ CheckCondition
  PROVE  Sound'
<1> DEFINE kid == F.kids[Top.i + 1]
           a == [node |-> kid, i |-> 0, hdr |-> aw[kid]]
           b == [Top EXCEPT !.i = Top.i + 1]
           n == Len(stack)
<1>1. /\ TInv /\ Sound /\ Top.i + 1 \in DOMAIN F.kids /\ kid \in Nodes /\ Top \in FrameType
      /\ Top.i \in Nat /\ Top.i < Len(F.kids) /\ aw \in [Nodes -> Header]
  BY RunFacts, ReadyFacts DEF Visited
<1>2. a \in FrameType /\ a.node = kid /\ a.i = 0 /\ a.hdr = aw[kid]
  BY <1>1 DEF FrameType
<1>3. b \in FrameType /\ b.node = self /\ b.i = Top.i + 1 /\ b.hdr = Top.hdr
  BY <1>1, SMTT(40) DEF FrameType, self
<1>4. stack' = <<a, b>> \o Tail(stack) /\ UNCHANGED <<formula, status, val, loc, aw, mem, result, calls>>
  BY DEF Enter, Frame
<1>5. /\ stack \in Seq(FrameType) /\ stack # <<>> /\ n \in Nat \ {0} /\ 1 \in 1..n
      /\ self = stack[1].node /\ Top = stack[1] /\ F = formula[self] /\ self \in Nodes
      /\ formula \in Formulas
  BY <1>1, RunFacts, EmptySeq, ReadyFacts
<1>6. kid = formula[self].kids[Top.i + 1] /\ Top.i + 1 \in DOMAIN formula[self].kids
  BY <1>1, <1>5
<1> HIDE DEF a, b, kid
<1>7. /\ Len(stack') = n + 1
      /\ \A d \in 1..(n + 1) :
           stack'[d] = IF d = 1 THEN a ELSE IF d = 2 THEN b ELSE stack[d - 1]
  BY <1>2, <1>3, <1>4, <1>5, PushFacts
<1>8. stack'[1] = a /\ stack'[2] = b /\ \A d \in 1..Len(stack') : d = 1 \/ d = 2 \/
        (d - 1 \in 1..n /\ d - 1 # 1 /\ stack'[d] = stack[d - 1])
  BY <1>5, <1>7
<1>9. Places'
  <2>1. Sits(formula, self, Top.hdr)
    BY <1>1, <1>5 DEF Sound, Places
  <2>2. ASSUME NEW d \in 1..Len(stack')
        PROVE  Sits(formula, stack'[d].node, stack'[d].hdr)
    <3>1. CASE d = 1
      BY <1>1, <1>2, <1>8, <3>1 DEF Sound, Places
    <3>2. CASE d = 2
      BY <1>3, <1>8, <2>1, <3>2
    <3>3. CASE d - 1 \in 1..n /\ stack'[d] = stack[d - 1]
      BY <1>1, <3>3 DEF Sound, Places
    <3> QED
      BY <1>8, <3>1, <3>2, <3>3
  <2>3. /\ \A m \in Nodes : Sits(formula, m, aw[m]) /\ Cells(formula, mem, m)
        /\ \A l \in Lists : mem[l] = ListValues[l]
    BY <1>1 DEF Sound, Places
  <2> QED
    BY <1>4, <2>2, <2>3 DEF Places
<1>10. Untouched'
  <2>1. calls # 0
    BY <1>1 DEF Sound, Untouched
  <2> DEFINE Fresh(d) ==
        /\ Unused(formula, mem, stack'[d].node)
        /\ \A c \in DOMAIN formula[stack'[d].node].kids : c > stack'[d].i =>
             \A m \in Below(formula, formula[stack'[d].node].kids[c]) : Unused(formula, mem, m)
  <2>2. ASSUME calls = 1, NEW d \in 1..Len(stack')
        PROVE  Fresh(d)
    <3>1. \A m \in Below(formula, kid) : Unused(formula, mem, m)
      <4>1. Top.i + 1 > Top.i
        BY <1>1
      <4> QED
        BY <1>1, <1>5, <1>6, <2>2, <4>1 DEF Sound, Untouched
    <3>2. CASE d = 1
      <4>1. kid \in Below(formula, kid)
        BY <1>1, <1>5, BelowClosed
      <4>2. \A c \in DOMAIN formula[kid].kids :
              Below(formula, formula[kid].kids[c]) \subseteq Below(formula, kid)
        BY <1>1, <1>5, BelowKid
      <4> QED
        BY <1>2, <1>8, <3>1, <3>2, <4>1, <4>2
    <3>3. CASE d = 2
      <4>1. Unused(formula, mem, self)
        BY <1>1, <1>5, <2>2, FinishedType DEF Sound, Untouched
      <4>2. ASSUME NEW c \in DOMAIN formula[self].kids, c > Top.i + 1,
                   NEW m \in Below(formula, formula[self].kids[c])
            PROVE  Unused(formula, mem, m)
        <5>1. c \in Nat /\ DOMAIN formula[self].kids = DOMAIN formula[stack[1].node].kids
          BY <1>1, <1>5, FrameFacts
        <5>2. c > Top.i
          BY <1>1, <4>2, <5>1
        <5> QED
          BY <1>1, <1>5, <2>2, <5>1, <5>2 DEF Sound, Untouched
      <4> QED
        BY <1>3, <1>8, <3>3, <4>1, <4>2
    <3>4. CASE d - 1 \in 1..n /\ d - 1 # 1 /\ stack'[d] = stack[d - 1]
      BY <1>1, <2>2, <3>4 DEF Sound, Untouched
    <3> QED
      BY <1>8, <3>2, <3>3, <3>4
  <2> QED
    BY <1>4, <2>1, <2>2 DEF Untouched
<1>11. Guarded'
  <2>1. ASSUME NEW d \in 1..Len(stack'), formula[stack'[d].node].kind = "BOOLMULT", stack'[d].i = 1
        PROVE  Holds(val, formula[stack'[d].node])
    <3>1. CASE d = 1
      BY <1>2, <1>8, <2>1, <3>1
    <3>2. CASE d = 2
      BY <1>3, <1>5, <1>8, <2>1, <3>2 DEF Holds, CheckCondition
    <3>3. CASE d - 1 \in 1..n /\ stack'[d] = stack[d - 1]
      BY <1>1, <2>1, <3>3 DEF Sound, Guarded
    <3> QED
      BY <1>8, <3>1, <3>2, <3>3
  <2> QED
    BY <1>4, <2>1 DEF Guarded
<1>12. Computed'
  <2>1. loc'.ph # "done"
    BY <1>4, FinishedType
  <2>2. ASSUME NEW d \in 1..Len(stack'), NEW c \in DOMAIN formula[stack'[d].node].kids, Done(d, c)'
        PROVE  Good(mem, calls, aw[formula[stack'[d].node].kids[c]], Den(formula[stack'[d].node].kids[c]))
    <3>1. /\ formula[stack'[d].node].kind # "BOOLMULT"
          /\ c < stack'[d].i \/ (d = 1 /\ c = stack'[d].i)
      BY <1>4, <2>2 DEF Done
    <3>2. CASE d = 1
      <4>1. c \in 1..Len(formula[kid].kids)
        BY <1>1, <1>2, <1>5, <1>8, <3>2, FormulaFacts, LenProperties
      <4> QED
        BY <1>2, <1>8, <3>1, <3>2, <4>1
    <3>3. CASE d = 2
      <4>1. c \in DOMAIN formula[stack[1].node].kids /\ c \in Nat /\ formula[stack[1].node].kind # "BOOLMULT"
            /\ c < Top.i + 1
        BY <1>3, <1>5, <1>8, <3>1, <3>3, FrameFacts, <1>1, SMTT(30)
      <4>2. Done(1, c)
        BY <1>1, <1>5, <4>1 DEF Done
      <4> QED
        BY <1>3, <1>5, <1>8, <3>3, <4>1, <4>2, DoneFacts
    <3>4. CASE d - 1 \in 1..n /\ d - 1 # 1 /\ stack'[d] = stack[d - 1]
      <4>1. d # 1
        BY <3>4
      <4>2. Done(d - 1, c)
        BY <3>1, <3>4, <4>1 DEF Done
      <4> QED
        BY <3>4, <4>2, DoneFacts
    <3> QED
      BY <1>8, <3>2, <3>3, <3>4
  <2>3. \A m : Den(m)' = Den(m)
    BY <1>4 DEF Den
  <2> QED
    BY <1>4, <2>1, <2>2, <2>3 DEF Computed
<1>13. Working' /\ Ending'
  BY <1>4, StartWorking, RunEnding
<1> QED
  BY <1>9, <1>10, <1>11, <1>12, <1>13 DEF Sound

LEMMA VisitSound ==
  ASSUME Ready, status = "run", Visit
  PROVE  Sound'
<1>1. loc.ph = "visit" /\ F.kind # "BOOLMULT" /\ ~Visited /\ Enter
  BY DEF Visit
<1>2. loc = Start
  BY <1>1, ReadyFacts DEF Steady
<1> QED
  BY <1>1, <1>2, EnterSound

LEMMA BoolTrueSound ==
  ASSUME Ready, status = "run", BoolTrue
  PROVE  Sound'
<1>1. loc.ph = "visit" /\ F.kind = "BOOLMULT" /\ CheckCondition /\ Enter
  BY DEF BoolTrue, In
<1>2. loc = Start
  BY <1>1, ReadyFacts DEF Steady
<1>3. Top.i = 0 /\ ~Visited
  <2>1. TInv
    BY ReadyFacts
  <2>2. Top.i = 0 /\ Len(F.kids) = 1
    BY <1>1, <2>1, RunFacts, FormulaFacts DEF TInv, Control, Arity
  <2> QED
    BY <2>2 DEF Visited
<1> QED
  BY <1>1, <1>2, <1>3, EnterSound

\* What both ways out of compute_node into the parent share.
LEMMA PopFrames ==
  ASSUME Ready, status = "run", Len(stack) > 1, stack' = Tail(stack),
         UNCHANGED <<formula, status, val, mem, result, calls>>
  PROVE  /\ Len(stack') \in Nat \ {0} /\ 1 \in 1..Len(stack') /\ 2 \in 1..Len(stack)
         /\ \A d \in 1..Len(stack') : /\ d \in 1..Len(stack) /\ d + 1 \in 1..Len(stack) /\ d + 1 # 1
                                      /\ stack'[d] = stack[d + 1]
         /\ stack[2].node \in Nodes /\ stack[2].node # self
         /\ stack[2].i \in DOMAIN formula[stack[2].node].kids
         /\ formula[stack[2].node].kids[stack[2].i] = self
         /\ Guarded' /\ Untouched' /\ Ending'
         /\ \A d \in 1..Len(stack') : Sits(formula, stack'[d].node, stack'[d].hdr)
<1>1. /\ TInv /\ Nested /\ Sound /\ self = stack[1].node /\ Len(stack) \in Nat
      /\ stack \in Seq(FrameType)
  BY ReadyFacts, RunFacts
<1>2. /\ Len(stack') = Len(stack) - 1
      /\ \A d \in 1..Len(stack') : stack'[d] = stack[d + 1]
  BY <1>1, PopFacts
<1>3. ASSUME NEW d \in 1..Len(stack')
      PROVE  /\ d \in 1..Len(stack) /\ d + 1 \in 1..Len(stack) /\ d + 1 # 1
             /\ stack'[d] = stack[d + 1]
  BY <1>1, <1>2
<1>4. 1 \in 1..Len(stack') /\ Len(stack') \in Nat \ {0} /\ 2 \in 1..Len(stack) /\ 1 \in 1..Len(stack)
      /\ 1 \in 1..(Len(stack) - 1)
  BY <1>1, <1>2
<1>5. stack[2].node \in Nodes /\ stack[2].node # self
  BY <1>1, <1>4, FrameFacts, AboveOthers
<1>6. /\ stack[2].i \in DOMAIN formula[stack[2].node].kids
      /\ formula[stack[2].node].kids[stack[2].i] = self
  <2>1. 1 + 1 = 2
    OBVIOUS
  <2> QED
    BY <1>1, <1>4, <2>1 DEF Nested
<1>7. Guarded'
  <2>1. ASSUME NEW d \in 1..Len(stack'), formula[stack'[d].node].kind = "BOOLMULT", stack'[d].i = 1
        PROVE  Holds(val, formula[stack'[d].node])
    BY <1>1, <1>3, <2>1 DEF Sound, Guarded
  <2> QED
    BY <2>1 DEF Guarded
<1>8. Untouched'
  <2>1. calls # 0
    BY <1>1 DEF Sound, Untouched
  <2>2. ASSUME calls = 1, NEW d \in 1..Len(stack')
        PROVE  /\ Unused(formula, mem, stack'[d].node)
               /\ \A c \in DOMAIN formula[stack'[d].node].kids : c > stack'[d].i =>
                    \A m \in Below(formula, formula[stack'[d].node].kids[c]) : Unused(formula, mem, m)
    BY <1>1, <1>3, <2>2 DEF Sound, Untouched
  <2> QED
    BY <2>1, <2>2 DEF Untouched
<1>9. Ending'
  BY RunEnding
<1>10. ASSUME NEW d \in 1..Len(stack')
       PROVE  Sits(formula, stack'[d].node, stack'[d].hdr)
  BY <1>1, <1>3 DEF Sound, Places
<1> QED
  BY <1>3, <1>4, <1>5, <1>6, <1>7, <1>8, <1>9, <1>10

LEMMA LeaveSound ==
  ASSUME Ready, status = "run", Leave
  PROVE  Sound'
<1>1. /\ loc.ph = "done" /\ Len(stack) > 1 /\ formula[stack[2].node].kind # "BOOLMULT"
      /\ stack' = Tail(stack) /\ loc' = Start
      /\ UNCHANGED <<formula, status, val, aw, mem, result, calls>>
  BY DEF Leave
<1>2. /\ Guarded' /\ Untouched' /\ Ending'
      /\ \A d \in 1..Len(stack') : /\ Sits(formula, stack'[d].node, stack'[d].hdr)
                                   /\ d + 1 \in 1..Len(stack) /\ d + 1 # 1 /\ stack'[d] = stack[d + 1]
      /\ formula[stack[2].node].kids[stack[2].i] = self
  BY <1>1, PopFrames
<1>3. Sound /\ self \in Nodes
  BY ReadyFacts
<1>4. Places'
  BY <1>1, <1>2, <1>3 DEF Sound, Places
<1>5. Computed'
  <2>1. ASSUME NEW d \in 1..Len(stack'), NEW c \in DOMAIN formula[stack'[d].node].kids, Done(d, c)'
        PROVE  Good(mem, calls, aw[formula[stack'[d].node].kids[c]], Den(formula[stack'[d].node].kids[c]))
    <3>1. /\ formula[stack'[d].node].kind # "BOOLMULT"
          /\ c < stack'[d].i \/ (d = 1 /\ c = stack'[d].i)
      BY <1>1, <2>1 DEF Done
    <3>2. CASE c < stack'[d].i
      <4>1. d + 1 \in 1..Len(stack) /\ stack'[d] = stack[d + 1]
        BY <1>2
      <4>2. Done(d + 1, c)
        BY <3>1, <3>2, <4>1 DEF Done
      <4> QED
        BY <4>1, <4>2, DoneFacts
    <3>3. CASE d = 1 /\ c = stack'[d].i
      <4>1. 1 + 1 = 2
        OBVIOUS
      <4>2. stack'[1] = stack[2]
        BY <1>2, <3>3, <4>1
      <4>3. formula[stack'[d].node].kids[c] = self
        BY <1>2, <3>3, <4>2
      <4>4. Good(mem, calls, dest, Den(self))
        BY <1>1, <1>3 DEF Sound, Computed
      <4> QED
        BY <4>3, <4>4 DEF dest
    <3> QED
      BY <3>1, <3>2, <3>3
  <2>2. loc'.ph # "done"
    BY <1>1, FinishedType
  <2>3. \A m : Den(m)' = Den(m)
    BY <1>1 DEF Den
  <2> QED
    BY <1>1, <2>1, <2>2, <2>3 DEF Computed
<1>6. Working'
  BY <1>1, StartWorking
<1> QED
  BY <1>2, <1>4, <1>5, <1>6 DEF Sound

LEMMA LeaveCopySound ==
  ASSUME Ready, status = "run", LeaveCopy
  PROVE  Sound'
<1> DEFINE p == stack[2].node
<1>1. /\ loc.ph = "done" /\ Len(stack) > 1 /\ formula[p].kind = "BOOLMULT"
      /\ stack' = Tail(stack) /\ loc' = Finished
      /\ aw' = [aw EXCEPT ![p] = dest, ![self] = Top.hdr]
      /\ UNCHANGED <<formula, status, val, mem, result, calls>>
  BY DEF LeaveCopy
<1>2. /\ Guarded' /\ Untouched' /\ Ending'
      /\ Len(stack') \in Nat \ {0} /\ 1 \in 1..Len(stack') /\ 2 \in 1..Len(stack)
      /\ \A d \in 1..Len(stack') : /\ Sits(formula, stack'[d].node, stack'[d].hdr)
                                   /\ d + 1 \in 1..Len(stack) /\ d + 1 # 1 /\ stack'[d] = stack[d + 1]
      /\ p \in Nodes /\ p # self /\ stack[2].i \in DOMAIN formula[p].kids
      /\ formula[p].kids[stack[2].i] = self
  BY <1>1, PopFrames
<1>3. /\ TInv /\ Nested /\ Sound /\ Plain(formula) /\ self \in Nodes /\ self = stack[1].node
      /\ 1 \in 1..Len(stack) /\ aw \in [Nodes -> Header] /\ formula \in Formulas /\ val \in Valuations
      /\ Sits(formula, self, dest) /\ Len(stack) \in Nat /\ dest = aw[self]
  BY ReadyFacts DEF dest
<1>4. Top.hdr = stack[1].hdr /\ Sits(formula, self, Top.hdr)
  <2>1. Top = stack[1]
    BY <1>3, RunFacts
  <2> QED
    BY <1>3, <2>1 DEF Sound, Places
<1>5. /\ aw'[p] = dest /\ aw'[self] = Top.hdr
      /\ \A n \in Nodes : n # p /\ n # self => aw'[n] = aw[n]
  BY <1>1, <1>2, <1>3
<1> HIDE DEF p
<1>6. stack'[1] = stack[2] /\ stack'[1].node = p
  <2>1. 1 + 1 = 2
    OBVIOUS
  <2> QED
    BY <1>2, <2>1 DEF p
<1>7. Places'
  <2>1. Sits(formula, p, dest)
    <3>1. Below(formula, self) \subseteq Below(formula, p)
      BY <1>2, <1>3, BelowKid
    <3> QED
      BY <1>1, <1>3, <3>1 DEF Sits
  <2>2. ASSUME NEW n \in Nodes
        PROVE  Sits(formula, n, aw'[n]) /\ Cells(formula, mem, n)
    <3>1. Sits(formula, n, aw[n]) /\ Cells(formula, mem, n)
      BY <1>3 DEF Sound, Places
    <3> QED
      BY <1>4, <1>5, <2>1, <3>1
  <2>3. \A l \in Lists : mem[l] = ListValues[l]
    BY <1>3 DEF Sound, Places
  <2> QED
    BY <1>1, <1>2, <2>2, <2>3 DEF Places
<1>8. self' = p /\ F'.kind = "BOOLMULT" /\ dest' = dest
  <2>1. self' = stack'[1].node
    BY <1>2 DEF self, Top
  <2>2. self' = p
    BY <1>6, <2>1
  <2> QED
    BY <1>1, <1>5, <2>2 DEF F, dest
<1>9. Den(p) = Den(self)
  <2>1. Len(formula[p].kids) = 1 /\ DOMAIN formula[p].kids = 1..1
    BY <1>1, <1>2, <1>3, FormulaFacts, LenProperties DEF Arity
  <2>2. stack[2].i = 1
    BY <1>2, <2>1
  <2>3. Holds(val, formula[p])
    BY <1>1, <1>2, <1>3, <2>2 DEF Sound, Guarded, p
  <2> DEFINE xs == Parts(formula, p, Denotation(formula, val))
  <2>4. Den(p) = Meaning(val, formula[p], xs)
    BY <1>2, <1>3, DenotedLaw DEF Den
  <2>5. xs[1] = Den(self)
    BY <1>2, <2>1, <2>2 DEF Parts, Den
  <2> HIDE DEF xs
  <2> QED
    BY <1>1, <2>3, <2>4, <2>5 DEF Meaning
<1>10. Computed'
  <2>1. ASSUME NEW d \in 1..Len(stack'), NEW c \in DOMAIN formula[stack'[d].node].kids, Done(d, c)'
        PROVE  Good(mem, calls, aw'[formula[stack'[d].node].kids[c]], Den(formula[stack'[d].node].kids[c]))
    <3> DEFINE m == formula[stack'[d].node].kids[c]
    <3>1. /\ formula[stack'[d].node].kind # "BOOLMULT"
          /\ c < stack'[d].i \/ (d = 1 /\ c = stack'[d].i)
      BY <1>1, <2>1 DEF Done
    <3>2. d # 1
      BY <1>1, <1>6, <3>1
    <3>3. d + 1 \in 1..Len(stack) /\ stack'[d] = stack[d + 1]
      BY <1>2
    <3>4. Done(d + 1, c)
      BY <3>1, <3>2, <3>3 DEF Done
    <3>5. m \in Nodes /\ self \notin Below(formula, m) /\ Good(mem, calls, aw[m], Den(m))
      BY <3>3, <3>4, DoneFacts
    <3>6. p \notin Below(formula, m)
      <4>1. c # stack[d + 1].i
        <5>1. c < stack[d + 1].i
          BY <3>1, <3>2, <3>3
        <5>2. c \in Nat /\ stack[d + 1].i \in Nat
          BY <1>3, <3>3, FrameFacts
        <5> QED
          BY <5>1, <5>2
      <4>2. 2 \in 1..(d + 1)
        BY <1>3, <3>3
      <4> QED
        BY <1>3, <3>3, <4>1, <4>2, Beside DEF p
    <3>7. m \in Below(formula, m)
      BY <1>3, <3>5, BelowClosed
    <3>8. m # p /\ m # self
      BY <3>5, <3>6, <3>7
    <3> QED
      BY <1>5, <3>5, <3>8
  <2>2. Good(mem, calls, dest, Den(self))
    BY <1>1, <1>3 DEF Sound, Computed
  <2>3. \A m : Den(m)' = Denotation(formula, val)[m]
    BY <1>1 DEF Den
  <2>4. Den(self)' = Den(p)
    BY <1>1, <1>8 DEF Den
  <2> QED
    BY <1>1, <1>8, <1>9, <2>1, <2>2, <2>3, <2>4 DEF Computed, Den
<1>11. Working'
  BY <1>8 DEF Working
<1> QED
  BY <1>2, <1>7, <1>10, <1>11 DEF Sound

LEMMA ReturnSound ==
  ASSUME Ready, status = "run", Return
  PROVE  Sound'
<1>1. /\ loc.ph = "done" /\ Len(stack) = 1 /\ status' = "idle" /\ stack' = <<>>
      /\ result' = (IF dest.cnt = 0 THEN dest.others ELSE Cell(dest, 0)) /\ UNCHANGED <<formula, val, aw, mem, calls>>
  BY DEF Return
<1>2. Nested /\ Sound /\ calls # 0 /\ self = stack[1].node
  BY ReadyFacts
<1>3. self = Root
  BY <1>1, <1>2 DEF Nested
<1>4. Good(mem, calls, aw[Root], Den(Root))
  BY <1>1, <1>2, <1>3 DEF Sound, Computed, dest
<1>5. (IF dest.cnt = 0 THEN dest.others ELSE Cell(dest, 0)) = El(mem, aw[Root], 0)
  <2>1. dest.cnt \in Nat
    BY ReadyFacts
  <2> QED
    BY <1>3, <2>1 DEF Cell, El, dest
<1>6. Ending'
  BY <1>1, <1>4, <1>5 DEF Ending, Den
<1>7. Len(stack') = 0
  BY <1>1
<1>8. Places'
  BY <1>1, <1>2, <1>7 DEF Sound, Places
<1> QED
  BY <1>1, <1>2, <1>6, <1>8 DEF Sound, Untouched, Guarded, Computed, Working

-----------------------------------------------------------------------------
(* The theorems                                                            *)

LEMMA InitSound ==
  ASSUME Init
  PROVE  Sound
<1>1. /\ formula \in Formulas /\ status = "idle" /\ stack = <<>> /\ calls = 0
      /\ aw = [n \in Nodes |-> InitHeader(n)]
      /\ mem = [b \in Buffers |-> InitArray(b)]
  BY DEF Init
<1>2. Len(stack) = 0
  BY <1>1
<1>3. ASSUME NEW n \in Nodes
      PROVE  Sits(formula, n, aw[n]) /\ Cells(formula, mem, n) /\ Unused(formula, mem, n)
  <2>1. aw[n] = InitHeader(n) /\ mem[n] = InitArray(n) /\ n \in Below(formula, n) /\ NULL \notin Nodes
    BY <1>1, RuntimeAssumption, BelowClosed DEF Buffers
  <2>2. CASE formula[n].kind = "CONST"
    <3>1. aw[n] = ConstHeader(formula, n) /\ mem[n] = formula[n].eta
      BY <2>1, <2>2 DEF InitHeader, InitArray, ConstHeader, Placeholders
    <3>2. aw[n].eta \in {n, NULL}
      BY <3>1 DEF ConstHeader
    <3> QED
      BY <2>1, <2>2, <3>1, <3>2 DEF Sits, Cells, Unused
  <2>3. CASE formula[n].kind # "CONST"
    <3>1. aw[n].eta \in {n, NULL}
      BY <2>1, <2>3 DEF InitHeader, Placeholders
    <3>2. mem[n] = [j \in 1..formula[n].cap |-> 0] /\ formula[n].cap \in Nat
      BY <1>1, <2>1, <2>3, FormulaFacts DEF InitArray
    <3>3. \A j \in 1..Len(mem[n]) : mem[n][j] = 0 /\ mem[n][j] >= 0
      BY <3>2
    <3> QED
      BY <2>1, <2>3, <3>1, <3>3 DEF Sits, Cells, Unused
  <2> QED
    BY <2>2, <2>3
<1>4. \A l \in Lists : mem[l] = ListValues[l]
  <2>1. \A l \in Lists : l \in Buffers /\ l \notin Nodes
    BY RuntimeAssumption DEF Buffers
  <2> QED
    BY <1>1, <2>1 DEF InitArray
<1> QED
  BY <1>1, <1>2, <1>3, <1>4
     DEF Sound, Places, Untouched, Guarded, Computed, Working, Ending, Answered

LEMMA StepSound ==
  ASSUME Ready, status = "run", Step
  PROVE  Sound'
<1>1. F.kind # "INTMULT"
  BY ReadyFacts DEF Plain
<1>2. ~IntMult
  BY <1>1 DEF IntMult, In
<1>3. CASE Visit \/ Leave \/ LeaveCopy \/ Return \/ BoolTrue
  BY <1>3, VisitSound, LeaveSound, LeaveCopySound, ReturnSound, BoolTrueSound
<1>4. CASE ConstNode \/ AwcetNode \/ BoolFalse
  BY <1>4, ConstNodeSound, AwcetNodeSound, BoolFalseSound
<1>5. CASE SeqScan \/ SeqClear \/ SeqSum
  BY <1>5, SeqScanSound, SeqClearSound, SeqSumSound
<1>6. CASE AltScan \/ AltSelect \/ AltEnd \/ AltTake
  BY <1>6, AltScanSound, AltSelectSound, AltEndSound, AltTakeSound
<1>7. CASE LoopZero \/ LoopHeader \/ LoopSumFirst \/ LoopSumOthers
  BY <1>7, LoopZeroSound, LoopHeaderSound, LoopSumFirstSound, LoopSumOthersSound
<1>8. CASE LoopOuter \/ LoopPack \/ LoopPacked
  BY <1>8, LoopOuterSound, LoopPackSound, LoopPackedSound
<1>9. CASE AnnKeep \/ AnnCut
  BY <1>9, AnnKeepSound, AnnCutSound
<1> QED
  BY <1>2, <1>3, <1>4, <1>5, <1>6, <1>7, <1>8, <1>9 DEF Step

SInv == IInv /\ Placed /\ (Plain(formula) => Sound)

LEMMA SInvReady ==
  ASSUME SInv, Plain(formula)
  PROVE  Ready /\ TInv /\ Safe /\ Fits(formula)
BY DEF SInv, Ready, IInv, Placed, Plain

LEMMA NextSound ==
  ASSUME SInv, [Next]_vars
  PROVE  SInv'
<1>1. IInv' /\ Placed'
  BY NextSafe, NextPlaced DEF SInv
<1>2. formula' = formula
  BY FormulaKept
<1>3. ASSUME Plain(formula)
      PROVE  Sound'
  <2>1. Ready /\ TInv /\ Safe /\ Fits(formula)
    BY <1>3, SInvReady
  <2>2. CASE \E v \in Valuations : Call(v)
    BY <2>1, <2>2, CallSound
  <2>3. CASE status = "run" /\ AccessOk /\ Step
    BY <2>1, <2>3, StepSound
  <2>4. CASE Fault
    BY <2>1, <2>4, SafeAccess DEF Fault
  <2>5. CASE UNCHANGED vars
    <3>1. Sound
      BY <2>1 DEF Ready
    <3>2. /\ UNCHANGED <<formula, status, val, stack, loc, aw, mem, result, calls>>
      BY <2>5 DEF vars
    <3>3. self' = self /\ F' = F /\ dest' = dest /\ Bound' = Bound /\ Sources' = Sources
          /\ Terms' = Terms /\ \A n : Den(n)' = Den(n)
      BY <3>2 DEF self, F, Top, dest, Bound, Sources, Terms, Den
    <3>4. Places' /\ Untouched' /\ Guarded' /\ Ending'
      BY <3>1, <3>2, <3>3 DEF Sound, Places, Untouched, Guarded, Ending, Answered
    <3>5. Computed'
      BY <3>1, <3>2, <3>3 DEF Sound, Computed, Done
    <3>6. Working'
      BY <3>1, <3>2, <3>3 DEF Sound, Working, Private
    <3> QED
      BY <3>4, <3>5, <3>6 DEF Sound
  <2> QED
    BY <2>2, <2>3, <2>4, <2>5 DEF Next
<1>4. Plain(formula)' => Plain(formula)
  BY <1>2 DEF Plain
<1> QED
  BY <1>1, <1>3, <1>4 DEF SInv

LEMMA InitSInv == Init => SInv
BY InitType, InitSafe, InitPlaced, InitSound DEF SInv, IInv

LEMMA Answers ==
  ASSUME SInv, Plain(formula), Answered
  PROVE  /\ calls \in Nat /\ Good(mem, calls, aw[Root], Denotation(formula, val)[Root])
         /\ result = El(mem, aw[Root], 0)
         /\ \A j \in Nat : Elem(aw[Root], j) = El(mem, aw[Root], j)
         /\ aw[Root].cnt \in Nat /\ Len(Denotation(formula, val)[Root].m.wl) \in Nat
<1>1. TInv /\ Safe /\ Sound /\ formula \in Formulas /\ val \in Valuations /\ Root \in Nodes
      /\ aw \in [Nodes -> Header]
  BY SInvReady, RuntimeAssumption DEF Ready, TInv, Control, TypeOK
<1>2. calls \in Nat
  BY <1>1, RuntimeAssumption DEF TInv, TypeOK
<1>3. Good(mem, calls, aw[Root], Denotation(formula, val)[Root]) /\ result = El(mem, aw[Root], 0)
  BY <1>1 DEF Sound, Ending, Den
<1>4. aw[Root].cnt \in Nat
  BY <1>1 DEF Header, Safe, HeaderInv
<1>5. Denotation(formula, val)[Root] \in AP!AWcets
  BY <1>1, DenotedLaw
<1>6. Len(Denotation(formula, val)[Root].m.wl) \in Nat
  BY <1>5, Values
<1> QED
  BY <1>2, <1>3, <1>4, <1>6 DEF Elem, Cell, El

LEMMA SoundListHolds ==
  ASSUME SInv, Plain(formula)
  PROVE  SoundList
<1> SUFFICES ASSUME Answered,
                    NEW j \in 0..(aw[Root].cnt + Len(Denotation(formula, val)[Root].m.wl))
             PROVE  Elem(aw[Root], j) >= Algebra!Value(Denotation(formula, val)[Root].m, j + 1)
  BY DEF SoundList
<1>1. j \in Nat
  BY Answers
<1>2. Covers(calls, El(mem, aw[Root], j), V(Denotation(formula, val)[Root].m, j + 1))
  BY <1>1, Answers DEF Good
<1> QED
  BY <1>1, <1>2, Answers, SameAlgebra DEF Covers, V

LEMMA FirstCallHolds ==
  ASSUME SInv, Plain(formula)
  PROVE  FirstCallExact
<1> SUFFICES ASSUME Answered, calls = 1
             PROVE  /\ result = Wcet(formula, val)
                    /\ \A j \in 0..(aw[Root].cnt + Len(Denotation(formula, val)[Root].m.wl)) :
                         Elem(aw[Root], j) = Algebra!Value(Denotation(formula, val)[Root].m, j + 1)
  BY DEF FirstCallExact
<1>1. ASSUME NEW j \in Nat
      PROVE  El(mem, aw[Root], j) = Algebra!Value(Denotation(formula, val)[Root].m, j + 1)
  <2>1. Covers(calls, El(mem, aw[Root], j), V(Denotation(formula, val)[Root].m, j + 1))
    BY <1>1, Answers DEF Good
  <2> QED
    BY <1>1, <2>1, SameAlgebra DEF Covers, V
<1>2. result = Wcet(formula, val)
  <2>1. 0 + 1 = 1
    OBVIOUS
  <2> QED
    BY <1>1, <2>1, Answers DEF Wcet
<1>3. ASSUME NEW j \in 0..(aw[Root].cnt + Len(Denotation(formula, val)[Root].m.wl))
      PROVE  Elem(aw[Root], j) = Algebra!Value(Denotation(formula, val)[Root].m, j + 1)
  <2>1. j \in Nat
    BY Answers
  <2> QED
    BY <1>1, <2>1, Answers
<1> QED
  BY <1>2, <1>3

\* For every plain formula, valuations and number of calls: whatever the calls
\* before left in the headers and arrays, every position of the list of values
\* that a call of evaluate computes is at least that of the algebra.
THEOREM ListIsSound == Spec => [](Plain(formula) => SoundList)
<1>1. Init => SInv
  BY InitSInv
<1>2. SInv /\ [Next]_vars => SInv'
  BY NextSound
<1>3. SInv => (Plain(formula) => SoundList)
  BY SoundListHolds
<1> QED
  BY <1>1, <1>2, <1>3, PTL DEF Spec

\* The first call computes exactly the abstract WCET of a plain formula.
THEOREM FirstCallIsExact == Spec => [](Plain(formula) => FirstCallExact)
<1>1. Init => SInv
  BY InitSInv
<1>2. SInv /\ [Next]_vars => SInv'
  BY NextSound
<1>3. SInv => (Plain(formula) => FirstCallExact)
  BY FirstCallHolds
<1> QED
  BY <1>1, <1>2, <1>3, PTL DEF Spec

\* What the caller of evaluate sees.
Mode == IF status = "idle" THEN "idle" ELSE "busy"

\* Only the end of a call writes the answer.
LEMMA InnerStep ==
  ASSUME status = "run", Step, ~Return
  PROVE  UNCHANGED <<formula, status, val, result>>
<1>1. CASE Visit \/ Leave \/ LeaveCopy \/ BoolTrue
  BY <1>1 DEF Visit, Enter, Leave, LeaveCopy, BoolTrue
<1>2. CASE ConstNode \/ AwcetNode \/ BoolFalse \/ IntMult \/ AnnKeep \/ AnnCut
  BY <1>2 DEF Put, Go, ConstNode, AwcetNode, BoolFalse, IntMult, AnnKeep, AnnCut
<1>3. CASE SeqScan \/ SeqClear \/ SeqSum
  BY <1>3 DEF Put, Go, SeqScan, SeqClear, SeqSum
<1>4. CASE AltScan \/ AltEnd
  BY <1>4 DEF Put, Go, AltScan, AltEnd
<1>5. CASE AltSelect
  <2>1. \E l : Go(l)
    BY <1>5 DEF AltSelect
  <2> QED
    BY <2>1 DEF Go
<1>6. CASE AltTake
  BY <1>6 DEF Put, AltTake
<1>7. CASE LoopZero \/ LoopHeader \/ LoopSumFirst \/ LoopSumOthers \/ LoopPacked
  BY <1>7 DEF Put, Go, LoopZero, LoopHeader, LoopSumFirst, LoopSumOthers, LoopPacked
<1>8. CASE LoopOuter \/ LoopPack
  BY <1>8 DEF Put, Go, LoopOuter, LoopPack
<1> QED
  BY <1>1, <1>2, <1>3, <1>4, <1>5, <1>6, <1>7, <1>8 DEF Step

\* The answer is at least the WCET for the valuation of the call.
LEMMA ReturnAnswers ==
  ASSUME SInv, SInv', Plain(formula), status = "run", Return
  PROVE  Service!Answer
<1>1. /\ status' = "idle" /\ UNCHANGED <<formula, val, calls>>
  BY DEF Return
<1>2. Ready /\ calls \in Nat /\ calls # 0
  BY SInvReady, ReadyFacts
<1>3. Answered' /\ Plain(formula)'
  BY <1>1, <1>2 DEF Answered, Plain
<1>4. Sound' /\ TypeOK'
  BY <1>3 DEF SInv, IInv, TInv
<1>5. result' \in Int
  BY <1>4 DEF TypeOK
<1>6. Good(mem', calls, aw'[Root], Denotation(formula, val)[Root]) /\ result' = El(mem', aw'[Root], 0)
  BY <1>1, <1>3, <1>4 DEF Sound, Ending, Den
<1>7. Covers(calls, result', V(Denotation(formula, val)[Root].m, 1))
  <2>1. 0 + 1 = 1 /\ 0 \in Nat
    OBVIOUS
  <2> QED
    BY <1>6, <2>1 DEF Good
<1>8. result' >= Wcet(formula, val)
  BY <1>7, SameAlgebra DEF Covers, Wcet, V
<1> QED
  BY <1>1, <1>5, <1>8 DEF Service!Answer

LEMMA NextServes ==
  ASSUME SInv, SInv', Plain(formula), [Next]_vars
  PROVE  [Service!Next]_<<formula, Mode, val, result>>
<1>1. Ready /\ TInv /\ Safe /\ Fits(formula)
  BY SInvReady
<1>2. CASE \E v \in Valuations : Call(v)
  <2>1. PICK v \in Valuations : Call(v)
    BY <1>2
  <2>2. Service!Ask(v)
    BY <2>1 DEF Call, Service!Ask
  <2> QED
    BY <2>2 DEF Service!Next
<1>3. CASE status = "run" /\ AccessOk /\ Step
  <2>1. CASE Return
    BY <1>3, <2>1, ReturnAnswers DEF Service!Next
  <2>2. CASE ~Return
    BY <1>3, <2>2, InnerStep DEF Mode
  <2> QED
    BY <2>1, <2>2
<1>4. CASE Fault
  BY <1>1, <1>4, SafeAccess DEF Fault
<1>5. CASE UNCHANGED vars
  BY <1>5 DEF vars, Mode
<1> QED
  BY <1>2, <1>3, <1>4, <1>5 DEF Next

\* evaluate implements the service of WcetService: for plain formulas every call
\* is answered, before the next one, with at least the WCET of the formula for the
\* valuation of this call, whatever the calls before have left behind.
THEOREM RuntimeImplementsService ==
  ASSUME \A frm \in Formulas : Plain(frm)
  PROVE  Spec => ImplementsService
<1>1. Init => SInv
  BY InitSInv
<1>2. SInv /\ [Next]_vars => SInv'
  BY NextSound
<1>3. SInv => Plain(formula)
  BY DEF SInv, IInv, TInv, Control
<1>4. Init => Service!Init
  BY DEF Init, Service!Init
<1>5. SInv /\ SInv' /\ [Next]_vars => [Service!Next]_<<formula, Mode, val, result>>
  BY <1>3, NextServes
<1> QED
  BY <1>1, <1>2, <1>4, <1>5, PTL DEF Spec, ImplementsService, Service!Spec, Mode

=============================================================================
