------------------------- MODULE PwcetRuntime_proofs -------------------------
(***************************************************************************)
(* Proofs about PwcetRuntime, for every set of formulas, valuations and    *)
(* loops, and any number of calls: types, memory safety of the formulas    *)
(* whose arrays fit, and how the stack lies in the tree of the formula.    *)
(***************************************************************************)
EXTENDS PwcetRuntime, Induction, FiniteSetTheorems

FrameType == [node : Nodes, i : Nat, hdr : Header]
Phases == {"visit", "clear", "sum", "merge", "take", "first", "pack", "done"}
LocType ==
  [ph : Phases,
   k : Nat, j : Nat, bound : Int, acc : Int, tab : Seq(Nat)]

\* The static facts about a formula.
LEMMA FormulaFacts ==
  ASSUME NEW frm \in Formulas, NEW n \in Nodes
  PROVE  /\ frm[n] \in FormulaFields
         /\ frm[n].kind \in Kinds
         /\ frm[n].kids \in Seq(Nodes)
         /\ frm[n].param \in Params \cup {IDENT_NONE}
         /\ frm[n].loop \in LoopIds
         /\ frm[n].count \in Nat \cup {-1}
         /\ frm[n].coef \in Nat
         /\ frm[n].form \in Forms
         /\ frm[n].eta \in Seq(Int)
         /\ frm[n].others \in Int
         /\ frm[n].cap \in Nat
         /\ Arity(frm[n])
         /\ \A j \in DOMAIN frm[n].kids : frm[n].kids[j] \in Nodes /\ frm[n].kids[j] # n
<1>1. frm[n] \in FormulaFields /\ Arity(frm[n]) /\ \A j \in DOMAIN frm[n].kids : frm[n].kids[j] # n
  <2>1. Tree(frm) /\ frm[n] \in FormulaFields /\ Arity(frm[n])
    BY FormulasAssumption
  <2>2. {n} \in SUBSET Nodes /\ {n} # {}
    OBVIOUS
  <2> QED
    BY <2>1, <2>2 DEF Tree
<1>2. frm[n].kids \in Seq(Nodes)
  BY <1>1 DEF FormulaFields
<1>3. \A j \in DOMAIN frm[n].kids : frm[n].kids[j] \in Nodes
  BY <1>2, ElementOfSeq, LenProperties
<1> QED
  BY <1>1, <1>2, <1>3 DEF FormulaFields

LEMMA PushFacts ==
  ASSUME NEW S, NEW s \in Seq(S), s # <<>>, NEW a \in S, NEW b \in S
  PROVE  LET p == <<a, b>> \o Tail(s) IN
         /\ p \in Seq(S)
         /\ p # <<>>
         /\ Len(p) = Len(s) + 1
         /\ \A d \in 1..(Len(s) + 1) :
              p[d] = IF d = 1 THEN a ELSE IF d = 2 THEN b ELSE s[d - 1]
<1> DEFINE ab == <<a, b>>
<1>1. ab \in Seq(S) /\ Len(ab) = 2 /\ ab[1] = a /\ ab[2] = b
  OBVIOUS
<1> DEFINE t == Tail(s)
<1>2. t \in Seq(S) /\ Len(t) = Len(s) - 1 /\ Len(s) \in Nat \ {0}
      /\ \A d \in 1..Len(t) : t[d] = s[d + 1]
  BY HeadTailProperties, EmptySeq
<1> HIDE DEF ab, t
<1>3. /\ ab \o t \in Seq(S)
      /\ Len(ab \o t) = Len(ab) + Len(t)
      /\ \A d \in 1..(Len(ab) + Len(t)) :
           (ab \o t)[d] = IF d <= Len(ab) THEN ab[d] ELSE t[d - Len(ab)]
  BY <1>1, <1>2, ConcatProperties
<1>4. Len(ab \o t) = Len(s) + 1
  BY <1>1, <1>2, <1>3
<1>5. ab \o t # <<>>
  BY <1>2, <1>4, EmptySeq
<1>6. ASSUME NEW d \in 1..(Len(s) + 1)
      PROVE  (ab \o t)[d] = IF d = 1 THEN a ELSE IF d = 2 THEN b ELSE s[d - 1]
  <2>1. d \in 1..(Len(ab) + Len(t)) /\ d - Len(ab) = d - 2
    BY <1>1, <1>2
  <2>2. (ab \o t)[d] = IF d <= 2 THEN ab[d] ELSE t[d - 2]
    BY <2>1, <1>1, <1>3
  <2>3. d > 2 => t[d - 2] = s[d - 1]
    <3>1. d > 2 => d - 2 \in 1..Len(t) /\ (d - 2) + 1 = d - 1
      BY <1>2
    <3> QED
      BY <3>1, <1>2
  <2> QED
    BY <2>2, <2>3, <1>1
<1> QED
  BY <1>3, <1>4, <1>5, <1>6 DEF ab, t

LEMMA PopFacts ==
  ASSUME NEW S, NEW s \in Seq(S), Len(s) > 1
  PROVE  /\ Tail(s) \in Seq(S)
         /\ Tail(s) # <<>>
         /\ Len(Tail(s)) = Len(s) - 1
         /\ \A d \in 1..Len(Tail(s)) : Tail(s)[d] = s[d + 1]
         /\ Head(Tail(s)) = s[2]
<1>1. s # <<>> /\ Len(s) \in Nat
  BY EmptySeq, LenProperties
<1> DEFINE t == Tail(s)
<1>2. /\ t \in Seq(S) /\ Len(t) = Len(s) - 1
      /\ \A d \in 1..Len(t) : t[d] = s[d + 1]
  BY <1>1, HeadTailProperties
<1> HIDE DEF t
<1>3. t # <<>>
  BY <1>1, <1>2, EmptySeq
<1>4. Head(t) = t[1]
  BY <1>2, <1>3
<1>5. t[1] = s[2]
  BY <1>1, <1>2
<1> QED
  BY <1>1, <1>2, <1>3, <1>4, <1>5 DEF t

-----------------------------------------------------------------------------
(* Types                                                                   *)

\* Where the control of the C program can be.
Control ==
  /\ formula \in Formulas
  /\ status = "idle" => stack = <<>> /\ loc = Start
  /\ status = "run" => stack # <<>>
  /\ status = "run" => \A d \in 1..Len(stack) : stack[d].i <= Len(formula[stack[d].node].kids)
  /\ status = "run" /\ loc.ph = "visit" /\ F.kind = "BOOLMULT" => Top.i = 0
  /\ status = "run" /\ loc.ph = "sum" => loc.k < Len(F.kids)
  /\ status = "run" /\ loc.ph = "take" => loc.k \in DOMAIN loc.tab
  /\ status = "run" /\ loc.ph \in {"merge", "take"} => DOMAIN loc.tab = DOMAIN F.kids

TInv == TypeOK /\ Control

LEMMA TypeFacts == TypeOK => stack \in Seq(FrameType) /\ loc \in LocType
BY DEF TypeOK, FrameType, LocType, Phases

LEMMA RunFacts ==
  ASSUME TInv, status = "run"
  PROVE  /\ stack \in Seq(FrameType) /\ Len(stack) \in Nat \ {0}
         /\ Top = stack[1] /\ Top \in FrameType
         /\ self \in Nodes /\ F = formula[self]
         /\ Top.i \in 0..Len(F.kids)
         /\ dest \in Header
         /\ DOMAIN F.kids = 1..Len(F.kids) /\ Len(F.kids) \in Nat
         /\ \A j \in DOMAIN F.kids : F.kids[j] \in Nodes /\ Source(j) \in Header
<1>1. stack \in Seq(FrameType) /\ stack # <<>> /\ Len(stack) \in Nat \ {0}
  BY TypeFacts, EmptySeq DEF TInv, Control
<1>2. Top = stack[1] /\ Top \in FrameType
  BY <1>1, HeadTailProperties DEF Top
<1>3. self \in Nodes /\ F = formula[self] /\ dest \in Header
  BY <1>2 DEF self, F, dest, FrameType, TInv, TypeOK
<1>4. /\ F.kids \in Seq(Nodes)
      /\ \A j \in DOMAIN F.kids : F.kids[j] \in Nodes
  BY <1>3, FormulaFacts DEF TInv, Control
<1>5. DOMAIN F.kids = 1..Len(F.kids) /\ Len(F.kids) \in Nat
  BY <1>4, LenProperties
<1>6. Top.i \in 0..Len(F.kids)
  BY <1>1, <1>2, <1>3, <1>5 DEF TInv, Control, self, FrameType
<1>7. \A j \in DOMAIN F.kids : Source(j) \in Header
  BY <1>4 DEF Source, TInv, TypeOK
<1> QED
  BY <1>1, <1>2, <1>3, <1>4, <1>5, <1>6, <1>7

LEMMA CellType ==
  ASSUME TypeOK, NEW a \in Header, NEW j \in Nat, Exists(a, j)
  PROVE  Cell(a, j) \in Int
<1>1. a.eta \in Buffers /\ j < Len(mem[a.eta])
  BY DEF Exists, Header, Pointers
<1>2. mem[a.eta] \in Seq(Int)
  BY <1>1 DEF TypeOK
<1>3. mem[a.eta][j + 1] \in Int
  BY <1>1, <1>2, ElementOfSeq, LenProperties
<1> QED
  BY <1>3 DEF Cell

LEMMA ElemType ==
  ASSUME TypeOK, NEW a \in Header, NEW j \in Nat, Readable(a, j)
  PROVE  Elem(a, j) \in Int
<1>1. CASE j < a.cnt
  BY <1>1, CellType DEF Readable, Elem
<1>2. CASE ~(j < a.cnt)
  BY <1>2 DEF Elem, Header
<1> QED
  BY <1>1, <1>2

LEMMA BoundType ==
  ASSUME TInv, status = "run", F.kind \in {"LOOP", "PARAM_LOOP"}
  PROVE  Bound \in Int /\ (F.kind = "PARAM_LOOP" => Bound \in Nat)
<1>1. self \in Nodes /\ F = formula[self]
  BY RunFacts
<1>2. /\ F.param \in Params \cup {IDENT_NONE} /\ F.form \in Forms
      /\ F.kind = "LOOP" => F.loop \in Loops
  BY <1>1, FormulaFacts DEF TInv, Control, Arity
<1>3. val \in Valuation
  BY RuntimeAssumption DEF TInv, TypeOK
<1>4. val.form[F.form] \in Int
  BY <1>2, <1>3 DEF Valuation
<1>5. F.param # IDENT_NONE => val.bound[F.param] \in Int
  BY <1>2, <1>3 DEF Valuation
<1>6. F.kind = "LOOP" => LoopBounds[F.loop] \in Nat
  BY <1>2, RuntimeAssumption
<1> QED
  BY <1>4, <1>5, <1>6 DEF Bound

\* The steps of the awcet_ functions: they leave the recursion as it is.
LEMMA LocalType ==
  ASSUME TInv, status = "run",
         UNCHANGED <<formula, status, val, stack, result, calls>>,
         aw' \in [Nodes -> Header],
         mem' \in [Buffers -> Seq(Int)],
         loc' \in LocType,
         loc'.ph = "visit" => loc.ph = "visit",
         loc'.ph = "sum" => loc'.k < Len(F.kids),
         loc'.ph = "take" => loc'.k \in DOMAIN loc'.tab,
         loc'.ph \in {"merge", "take"} => DOMAIN loc'.tab = DOMAIN F.kids,
         loc'.ph \in {"first", "pack"} /\ F.kind = "PARAM_LOOP" => loc'.bound \in Nat
  PROVE  TInv'
<1>1. F' = F /\ Top' = Top
  BY DEF F, self, Top
<1>2. TypeOK'
  BY <1>1 DEF TInv, TypeOK, LocType, Phases, In
<1>3. Control'
  BY <1>1 DEF TInv, Control
<1> QED
  BY <1>2, <1>3 DEF TInv

LEMMA PutType ==
  ASSUME TInv, status = "run", NEW h \in Header
  PROVE  [aw EXCEPT ![self] = h] \in [Nodes -> Header]
BY RunFacts DEF TInv, TypeOK

LEMMA StoreType ==
  ASSUME TypeOK, NEW b, NEW j \in Int, NEW x \in Int
  PROVE  [mem EXCEPT ![b][j + 1] = x] \in [Buffers -> Seq(Int)]
<1>1. ASSUME NEW c \in Buffers
      PROVE  [mem[c] EXCEPT ![j + 1] = x] \in Seq(Int)
  <2>1. mem[c] \in Seq(Int)
    BY DEF TypeOK
  <2>2. CASE j + 1 \in 1..Len(mem[c])
    BY <2>1, <2>2, ExceptSeq
  <2>3. CASE j + 1 \notin 1..Len(mem[c])
    <3>1. DOMAIN mem[c] = 1..Len(mem[c]) /\ mem[c] \in [1..Len(mem[c]) -> Int]
      BY <2>1, LenProperties
    <3>2. [mem[c] EXCEPT ![j + 1] = x] = mem[c]
      BY <2>3, <3>1
    <3> QED
      BY <2>1, <3>2
  <2> QED
    BY <2>2, <2>3
<1> QED
  BY <1>1 DEF TypeOK

\* A sequence with some of its cells replaced.
LEMMA MapType ==
  ASSUME TypeOK, NEW b, NEW g, b \in Buffers => g \in [DOMAIN mem[b] -> Int]
  PROVE  [mem EXCEPT ![b] = g] \in [Buffers -> Seq(Int)]
<1>1. ASSUME b \in Buffers
      PROVE  g \in Seq(Int)
  <2>1. mem[b] \in Seq(Int)
    BY <1>1 DEF TypeOK
  <2>2. DOMAIN mem[b] = 1..Len(mem[b]) /\ Len(mem[b]) \in Nat
    BY <2>1, LenProperties
  <2> QED
    BY <1>1, <2>2, SeqDef
<1> QED
  BY <1>1 DEF TypeOK

LEMMA FinishedType == /\ Start \in LocType /\ Finished \in LocType
                     /\ Start.ph = "visit" /\ Start.k = 0
                     /\ Finished.ph = "done" /\ Finished.k = 0
<1>1. <<>> \in Seq(Nat)
  OBVIOUS
<1>2. Start \in LocType /\ Start.ph = "visit" /\ Start.k = 0
  BY <1>1 DEF Start, LocType, Phases
<1>3. Finished = [ph |-> "done", k |-> 0, j |-> 0, bound |-> 0, acc |-> 0, tab |-> <<>>]
  BY DEF Finished, Start
<1>4. Finished \in LocType /\ Finished.ph = "done" /\ Finished.k = 0
  BY <1>1, <1>3 DEF LocType, Phases
<1> QED
  BY <1>2, <1>4

\* Locals with another phase and other counters.
LEMMA LocExcept ==
  ASSUME NEW l \in LocType, NEW p \in Phases, NEW k \in Nat
  PROVE  /\ [l EXCEPT !.k = k, !.ph = p] \in LocType
         /\ [l EXCEPT !.k = k, !.ph = p].ph = p
         /\ [l EXCEPT !.k = k, !.ph = p].k = k
         /\ [l EXCEPT !.k = k, !.ph = p].tab = l.tab
BY DEF LocType

LEMMA LocExceptCounter ==
  ASSUME NEW l \in LocType, NEW k \in Nat
  PROVE  /\ [l EXCEPT !.k = k] \in LocType
         /\ [l EXCEPT !.k = k].ph = l.ph
         /\ [l EXCEPT !.k = k].k = k
         /\ [l EXCEPT !.k = k].tab = l.tab
BY DEF LocType

LEMMA LocExceptSum ==
  ASSUME NEW l \in LocType, NEW k \in Nat, NEW x \in Int
  PROVE  /\ [l EXCEPT !.k = k, !.acc = x] \in LocType
         /\ [l EXCEPT !.k = k, !.acc = x].ph = l.ph
         /\ [l EXCEPT !.k = k, !.acc = x].bound = l.bound
BY DEF LocType

LEMMA LocExceptRow ==
  ASSUME NEW l \in LocType, NEW j \in Nat, NEW x \in Int
  PROVE  /\ [l EXCEPT !.j = j, !.acc = x] \in LocType
         /\ [l EXCEPT !.j = j, !.acc = x].ph = l.ph
         /\ [l EXCEPT !.j = j, !.acc = x].bound = l.bound
BY DEF LocType

LEMMA LocExceptNext ==
  ASSUME NEW l \in LocType, NEW k \in Nat
  PROVE  /\ [l EXCEPT !.k = k, !.j = 0, !.acc = 0] \in LocType
         /\ [l EXCEPT !.k = k, !.j = 0, !.acc = 0].ph = l.ph
         /\ [l EXCEPT !.k = k, !.j = 0, !.acc = 0].bound = l.bound
<1>1. ASSUME NEW j \in Nat, NEW x \in Int
      PROVE  /\ [l EXCEPT !.k = k, !.j = j, !.acc = x] \in LocType
             /\ [l EXCEPT !.k = k, !.j = j, !.acc = x].ph = l.ph
             /\ [l EXCEPT !.k = k, !.j = j, !.acc = x].bound = l.bound
  BY DEF LocType
<1>2. 0 \in Nat /\ 0 \in Int
  OBVIOUS
<1> QED
  BY <1>1, <1>2

LEMMA LocExceptPhase ==
  ASSUME NEW l \in LocType, NEW p \in Phases
  PROVE  /\ [l EXCEPT !.ph = p] \in LocType
         /\ [l EXCEPT !.ph = p].ph = p
         /\ [l EXCEPT !.ph = p].k = l.k
         /\ [l EXCEPT !.ph = p].tab = l.tab
BY DEF LocType

LEMMA ConstNodeType ==
  ASSUME TInv, ConstNode
  PROVE  TInv'
BY LocalType, FinishedType DEF ConstNode, Go, In, TInv, TypeOK, Finished, Start

\* What the callback answers.
LEMMA CalleeFacts ==
  ASSUME TInv, status = "run", F.kind = "AWCET"
  PROVE  LET p == val.aw[F.param] IN
         /\ p.loop \in Int /\ p.cnt \in Nat /\ p.others \in Nat /\ p.header \in BOOLEAN
         /\ p.eta \in Lists \cup {NULL} /\ p.eta \in Pointers
         /\ val \in Valuations
<1> DEFINE p == val.aw[F.param]
<1>1. self \in Nodes /\ F = formula[self]
  BY RunFacts
<1>2. F.param \in Params
  BY <1>1, FormulaFacts DEF TInv, Control, Arity
<1>3. val \in Valuations /\ val \in Valuation
  BY RuntimeAssumption DEF TInv, TypeOK
<1>4. p \in [loop : LoopIds, cnt : Nat, eta : Lists \cup {NULL}, others : Nat, header : BOOLEAN]
  <2> DEFINE R == [loop : LoopIds, cnt : Nat, eta : Lists \cup {NULL}, others : Nat,
                   header : BOOLEAN]
             B == [Params -> Int]
             A == [Params -> [loop : LoopIds, count : Int]]
             X == [Forms -> Int]
  <2> HIDE DEF R, B, A, X
  <2>1. val \in [bound : B, ann : A, aw : [Params -> R], form : X]
    BY <1>3 DEF Valuation, R, B, A, X
  <2>2. val.aw \in [Params -> R]
    BY <2>1
  <2>3. val.aw[F.param] \in R
    BY <1>2, <2>2
  <2> QED
    BY <2>3 DEF R
<1> HIDE DEF p
<1>5. p.loop \in LoopIds /\ p.cnt \in Nat /\ p.others \in Nat /\ p.header \in BOOLEAN
      /\ p.eta \in Lists \cup {NULL}
  BY <1>4
<1>6. p.loop \in Int
  <2>1. LoopIds \subseteq Int
    BY RuntimeAssumption DEF LoopIds, LOOP_TOP
  <2>2. p.loop \in LoopIds
    BY <1>5
  <2> QED
    BY <2>1, <2>2
<1>7. p.eta \in Pointers
  BY <1>5 DEF Pointers, Buffers
<1> QED
  BY <1>3, <1>5, <1>6, <1>7 DEF p

LEMMA AwcetNodeType ==
  ASSUME TInv, AwcetNode
  PROVE  TInv'
<1> DEFINE p == val.aw[F.param]
           h == [loop |-> IF p.header THEN p.loop ELSE dest.loop,
                 cnt |-> IF p.header THEN p.cnt ELSE dest.cnt,
                 eta |-> p.eta, others |-> p.others]
<1>1. status = "run" /\ F.kind = "AWCET"
  BY DEF AwcetNode, In
<1>2. self \in Nodes /\ F = formula[self] /\ dest \in Header
  BY <1>1, RunFacts
<1>4. p.others \in Nat /\ p.header \in BOOLEAN /\ p.cnt \in Nat
      /\ p.loop \in Int /\ p.eta \in Pointers
  BY <1>1, CalleeFacts
<1>5. h \in Header
  <2> HIDE DEF p
  <2> QED
    BY <1>2, <1>4 DEF Header
<1>6. aw' = [aw EXCEPT ![self] = h] /\ loc' = Finished
  BY DEF AwcetNode, Put
<1> HIDE DEF h
<1>7. aw' \in [Nodes -> Header]
  BY <1>1, <1>5, <1>6, PutType
<1> QED
  BY <1>1, <1>6, <1>7, LocalType, FinishedType
  DEF AwcetNode, Put, TInv, TypeOK, Finished, Start

LEMMA SeqScanType ==
  ASSUME TInv, SeqScan
  PROVE  TInv'
<1> DEFINE s == Source(loc.k + 1)
           h == [loop |-> IF loc.k = 0 THEN s.loop ELSE Innermost(s.loop, dest.loop),
                 cnt |-> IF dest.cnt < s.cnt THEN s.cnt ELSE dest.cnt,
                 eta |-> dest.eta,
                 others |-> (IF loc.k = 0 THEN 0 ELSE dest.others) + s.others]
           l == [loc EXCEPT !.k = @ + 1,
                            !.ph = IF loc.k + 1 = Len(F.kids) THEN "clear" ELSE @]
<1>1. status = "run" /\ loc.ph = "visit" /\ loc.k < Len(F.kids)
  BY DEF SeqScan, In
<1>2. dest \in Header /\ loc \in LocType
  BY <1>1, RunFacts, TypeFacts DEF TInv
<1>3. s \in Header
  <2>1. loc.k + 1 \in DOMAIN F.kids
    BY <1>1, <1>2, RunFacts DEF LocType
  <2> QED
    BY <1>1, <2>1, RunFacts
<1>4. h \in Header
  BY <1>2, <1>3 DEF Header, Innermost
<1>5. aw' = [aw EXCEPT ![self] = h] /\ loc' = l
  BY DEF SeqScan, Put
<1> HIDE DEF h
<1>6. aw' \in [Nodes -> Header]
  BY <1>1, <1>4, <1>5, PutType
<1>7. loc' \in LocType /\ loc'.ph \in {"visit", "clear"}
  <2> DEFINE p == IF loc.k + 1 = Len(F.kids) THEN "clear" ELSE loc.ph
  <2>1. p \in {"visit", "clear"} /\ p \in Phases /\ loc.k + 1 \in Nat
    BY <1>1, <1>2 DEF LocType, Phases
  <2>2. l = [loc EXCEPT !.k = loc.k + 1, !.ph = p]
    BY <1>2 DEF LocType
  <2> HIDE DEF p, l
  <2> QED
    BY <1>2, <1>5, <2>1, <2>2, LocExcept, ZenonT(40)
<1> QED
  BY <1>1, <1>6, <1>7, LocalType DEF SeqScan, Put, TInv, TypeOK

LEMMA SeqClearType ==
  ASSUME TInv, SeqClear
  PROVE  TInv'
<1>1. status = "run" /\ F.kind = "SEQ"
  BY DEF SeqClear, In
<1>2. dest \in Header /\ Len(F.kids) > 0
  <2>1. self \in Nodes /\ F = formula[self] /\ F.kids # <<>> /\ F.kids \in Seq(Nodes)
    BY <1>1, RunFacts, FormulaFacts DEF TInv, Control, Arity
  <2> QED
    BY <1>1, <2>1, RunFacts, EmptySeq
<1>3. mem' \in [Buffers -> Seq(Int)]
  <2> DEFINE g == [j \in DOMAIN mem[dest.eta] |-> Cleared(mem[dest.eta][j], j - 1, dest.cnt)]
  <2>1. mem' = IF dest.cnt = 0 THEN mem ELSE [mem EXCEPT ![dest.eta] = g]
    BY DEF SeqClear
  <2>2. ASSUME dest.eta \in Buffers, NEW j \in DOMAIN mem[dest.eta]
        PROVE  Cleared(mem[dest.eta][j], j - 1, dest.cnt) \in Int
    <3>1. mem[dest.eta] \in Seq(Int)
      BY <2>2 DEF TInv, TypeOK
    <3>2. mem[dest.eta][j] \in Int /\ j \in Nat
      BY <2>2, <3>1, LenProperties, ElementOfSeq
    <3>3. mem[dest.eta][j] % HalfWord \in Int
      BY <3>2, RuntimeAssumption
    <3> QED
      BY <3>2, <3>3 DEF Cleared
  <2>3. dest.eta \in Buffers => g \in [DOMAIN mem[dest.eta] -> Int]
    BY <2>2
  <2> HIDE DEF g
  <2> QED
    BY <2>1, <2>3, MapType DEF TInv, TypeOK
<1>4. loc' \in LocType /\ loc'.ph = "sum" /\ loc'.k = 0
  <2>1. loc' = [Start EXCEPT !.ph = "sum"]
    BY DEF SeqClear, Go
  <2> QED
    BY <2>1, FinishedType, LocExceptPhase DEF Phases
<1> QED
  BY <1>1, <1>2, <1>3, <1>4, LocalType DEF SeqClear, Go, TInv, TypeOK

\* The cells of a source the access check allows to read.
LEMMA SpanReadable ==
  ASSUME NEW a \in Header, Spans(a.eta, a.cnt), NEW j \in Nat
  PROVE  Readable(a, j)
BY DEF Spans, Readable, Exists, Header

LEMMA SeqSumType ==
  ASSUME TInv, AccessOk, SeqSum
  PROVE  TInv'
<1> DEFINE s == Source(loc.k + 1)
<1>1. status = "run" /\ loc.ph = "sum" /\ loc.k < Len(F.kids) /\ loc \in LocType
  BY TypeFacts DEF SeqSum, In, TInv, Control
<1>2. dest \in Header /\ s \in Header
  <2>1. loc.k + 1 \in DOMAIN F.kids
    BY <1>1, RunFacts DEF LocType
  <2> QED
    BY <1>1, <2>1, RunFacts
<1>3. Spans(s.eta, s.cnt)
  BY DEF AccessOk, SeqSum
<1> HIDE DEF s
<1>4. mem' \in [Buffers -> Seq(Int)]
  <2> DEFINE g == [j \in DOMAIN mem[dest.eta] |->
                     IF j <= dest.cnt THEN mem[dest.eta][j] + Elem(s, j - 1)
                                      ELSE mem[dest.eta][j]]
  <2>1. mem' = IF dest.cnt = 0 THEN mem ELSE [mem EXCEPT ![dest.eta] = g]
    BY DEF SeqSum, s
  <2>2. ASSUME dest.eta \in Buffers, NEW j \in DOMAIN mem[dest.eta]
        PROVE  mem[dest.eta][j] \in Int /\ Elem(s, j - 1) \in Int
    <3>1. mem[dest.eta] \in Seq(Int)
      BY <2>2 DEF TInv, TypeOK
    <3>2. mem[dest.eta][j] \in Int /\ j - 1 \in Nat
      BY <2>2, <3>1, LenProperties, ElementOfSeq
    <3>3. Elem(s, j - 1) \in Int
      BY <1>2, <1>3, <3>2, SpanReadable, ElemType DEF TInv
    <3> QED
      BY <3>2, <3>3
  <2>3. dest.eta \in Buffers => g \in [DOMAIN mem[dest.eta] -> Int]
    BY <2>2
  <2> HIDE DEF g
  <2> QED
    BY <2>1, <2>3, MapType DEF TInv, TypeOK
<1>5. loc' \in LocType /\ (loc'.ph = "sum" => loc'.k < Len(F.kids)) /\ loc'.ph \in {"sum", "done"}
  <2>1. loc' = IF loc.k + 1 = Len(F.kids) THEN Finished ELSE [loc EXCEPT !.k = @ + 1]
    BY DEF SeqSum, Go
  <2>2. CASE loc.k + 1 = Len(F.kids)
    BY <2>1, <2>2, FinishedType
  <2>3. CASE loc.k + 1 # Len(F.kids)
    <3>1. loc' = [loc EXCEPT !.k = loc.k + 1]
      BY <2>1, <2>3
    <3>2. loc.k + 1 \in Nat /\ loc.k + 1 < Len(F.kids)
      BY <1>1, <2>3, RunFacts DEF LocType
    <3> QED
      BY <1>1, <3>1, <3>2, LocExceptCounter
  <2> QED
    BY <2>2, <2>3
<1> QED
  BY <1>1, <1>4, <1>5, LocalType DEF SeqSum, Go, TInv, TypeOK

\* A step that writes one header, and a step that writes none.
LEMMA PutStep ==
  ASSUME TInv, status = "run", NEW h \in Header, NEW l \in LocType, Put(h, l),
         mem' \in [Buffers -> Seq(Int)],
         l.ph \notin {"visit", "sum", "take", "merge"},
         l.ph \in {"first", "pack"} /\ F.kind = "PARAM_LOOP" => l.bound \in Nat
  PROVE  TInv'
<1>1. aw' = [aw EXCEPT ![self] = h] /\ loc' = l
  BY DEF Put
<1>2. aw' \in [Nodes -> Header]
  BY <1>1, PutType
<1> QED
  BY <1>1, <1>2, LocalType DEF Put

LEMMA GoStep ==
  ASSUME TInv, status = "run", NEW l \in LocType, Go(l),
         mem' \in [Buffers -> Seq(Int)],
         l.ph \notin {"visit", "sum", "take", "merge"},
         l.ph \in {"first", "pack"} /\ F.kind = "PARAM_LOOP" => l.bound \in Nat
  PROVE  TInv'
BY LocalType DEF Go, TInv, TypeOK

LEMMA MemType == TInv /\ UNCHANGED mem => mem' \in [Buffers -> Seq(Int)]
BY DEF TInv, TypeOK

-----------------------------------------------------------------------------
(* The recursion                                                           *)

LEMMA CallType ==
  ASSUME TInv, NEW v \in Valuations, Call(v)
  PROVE  TInv'
<1> DEFINE fr == [node |-> Root, i |-> 0, hdr |-> aw[Root]]
<1>1. fr \in FrameType
  BY RuntimeAssumption DEF TInv, TypeOK, FrameType
<1>2. stack' = <<fr>>
  BY DEF Call, Frame
<1> HIDE DEF fr
<1>3. stack' \in Seq(FrameType) /\ stack' # <<>> /\ Len(stack') = 1 /\ stack'[1] = fr
  BY <1>1, <1>2
<1>4. formula' \in Formulas /\ loc' = Start /\ status' = "run"
  BY DEF Call, TInv, Control
<1>5. calls' \in 0..MaxCalls
  BY RuntimeAssumption DEF Call, TInv, TypeOK
<1>6. TypeOK'
  BY <1>3, <1>4, <1>5, FinishedType DEF Call, TInv, TypeOK, FrameType, In
<1>7. stack'[1].i = 0 /\ Len(formula'[stack'[1].node].kids) \in Nat
  <2>1. stack'[1].i = 0 /\ stack'[1].node = Root
    BY <1>3 DEF fr
  <2>2. formula'[Root].kids \in Seq(Nodes)
    BY <1>4, RuntimeAssumption, FormulaFacts
  <2> QED
    BY <2>1, <2>2, LenProperties
<1>8. Top'.i = 0
  BY <1>3, <1>7 DEF Top
<1>9. Control'
  BY <1>3, <1>4, <1>7, <1>8, FinishedType DEF Control
<1> QED
  BY <1>6, <1>9 DEF TInv

LEMMA EnterType ==
  ASSUME TInv, status = "run", loc.ph = "visit", ~Visited, Enter
  PROVE  TInv'
<1> DEFINE a == [node |-> F.kids[Top.i + 1], i |-> 0, hdr |-> aw[F.kids[Top.i + 1]]]
           b == [Top EXCEPT !.i = Top.i + 1]
<1>1. Top.i < Len(F.kids) /\ Top.i + 1 \in DOMAIN F.kids /\ Top.i + 1 \in Nat
  BY RunFacts DEF Visited
<1>2. a \in FrameType
  BY <1>1, RunFacts DEF FrameType, TInv, TypeOK
<1>3. b \in FrameType /\ b.node = self /\ b.i = Top.i + 1
  BY <1>1, RunFacts DEF FrameType, self
<1>4. stack' = <<a, b>> \o Tail(stack)
  BY DEF Enter, Frame
<1>5. a.i = 0 /\ a.node \in Nodes
  BY <1>1, RunFacts
<1> HIDE DEF a, b
<1>6. stack \in Seq(FrameType) /\ stack # <<>>
  BY RunFacts, EmptySeq
<1>7. /\ stack' \in Seq(FrameType) /\ stack' # <<>> /\ Len(stack') = Len(stack) + 1
      /\ \A d \in 1..(Len(stack) + 1) :
           stack'[d] = IF d = 1 THEN a ELSE IF d = 2 THEN b ELSE stack[d - 1]
  BY <1>2, <1>3, <1>4, <1>6, PushFacts
<1>8. TypeOK'
  BY <1>7 DEF Enter, TInv, TypeOK, FrameType, In
<1>9. ASSUME NEW d \in 1..Len(stack')
      PROVE  stack'[d].i <= Len(formula'[stack'[d].node].kids)
  <2>1. d \in 1..(Len(stack) + 1) /\ formula' = formula
    BY <1>7 DEF Enter
  <2>2. CASE d = 1
    <3>1. stack'[d] = a
      BY <1>7, <2>1, <2>2
    <3>2. formula[a.node].kids \in Seq(Nodes)
      BY <1>5, FormulaFacts DEF TInv, Control
    <3> QED
      BY <1>5, <2>1, <3>1, <3>2, LenProperties
  <2>3. CASE d = 2
    BY <1>1, <1>3, <1>7, <2>1, <2>3, RunFacts
  <2>4. CASE d > 2
    <3>1. stack'[d] = stack[d - 1] /\ d - 1 \in 1..Len(stack)
      BY <1>7, <2>1, <2>4, RunFacts
    <3> QED
      BY <2>1, <3>1 DEF TInv, Control
  <2> QED
    BY <2>2, <2>3, <2>4
<1>10. Top'.i = 0
  BY <1>5, <1>7 DEF Top
<1>11. Control'
  BY <1>7, <1>9, <1>10 DEF Enter, Control, TInv
<1> QED
  BY <1>8, <1>11 DEF TInv

LEMMA VisitType ==
  ASSUME TInv, Visit
  PROVE  TInv'
BY EnterType DEF Visit

LEMMA BoolTrueType ==
  ASSUME TInv, BoolTrue
  PROVE  TInv'
<1>1. status = "run" /\ loc.ph = "visit" /\ F.kind = "BOOLMULT" /\ Enter
  BY DEF BoolTrue, In
<1>2. Len(F.kids) = 1
  BY <1>1, RunFacts, FormulaFacts DEF TInv, Control, Arity
<1>3. ~Visited
  BY <1>1, <1>2 DEF Visited, TInv, Control
<1> QED
  BY <1>1, <1>3, EnterType

\* Both ways out of compute_node into the parent.
LEMMA PopType ==
  ASSUME TInv, status = "run", Len(stack) > 1,
         stack' = Tail(stack),
         UNCHANGED <<formula, status, val, mem, result, calls>>,
         aw' \in [Nodes -> Header],
         loc' \in {Start, Finished},
         formula[stack[2].node].kind = "BOOLMULT" => loc' = Finished
  PROVE  TInv'
<1>1. stack \in Seq(FrameType) /\ Len(stack) \in Nat
  BY RunFacts
<1>2. /\ stack' \in Seq(FrameType) /\ stack' # <<>> /\ Len(stack') = Len(stack) - 1
      /\ \A d \in 1..Len(stack') : stack'[d] = stack[d + 1]
      /\ Head(stack') = stack[2]
  BY <1>1, PopFacts
<1>3. loc' \in LocType /\ loc'.ph \in {"visit", "done"}
  BY FinishedType
<1>4. TypeOK'
  BY <1>2, <1>3 DEF TInv, TypeOK, FrameType, LocType, Phases, In
<1>5. ASSUME NEW d \in 1..Len(stack')
      PROVE  stack'[d].i <= Len(formula'[stack'[d].node].kids)
  <2>1. stack'[d] = stack[d + 1] /\ d + 1 \in 1..Len(stack)
    BY <1>1, <1>2
  <2> QED
    BY <2>1 DEF TInv, Control
<1>6. F'.kind = formula[stack[2].node].kind
  BY <1>2 DEF F, self, Top
<1>7. Control'
  BY <1>2, <1>5, <1>6, FinishedType DEF TInv, Control
<1> QED
  BY <1>4, <1>7 DEF TInv

LEMMA LeaveType ==
  ASSUME TInv, Leave
  PROVE  TInv'
BY PopType DEF Leave, TInv, TypeOK

LEMMA LeaveCopyType ==
  ASSUME TInv, LeaveCopy
  PROVE  TInv'
<1>1. status = "run" /\ Len(stack) > 1
  BY DEF LeaveCopy
<1>2. stack[2] \in FrameType /\ Top \in FrameType /\ self \in Nodes /\ dest \in Header
  <2>1. 2 \in 1..Len(stack)
    BY <1>1, RunFacts
  <2> QED
    BY <1>1, <2>1, RunFacts, ElementOfSeq
<1>3. Top.hdr \in Header /\ stack[2].node \in Nodes
  BY <1>2 DEF FrameType
<1>4. aw' \in [Nodes -> Header]
  BY <1>2, <1>3 DEF LeaveCopy, TInv, TypeOK
<1> QED
  BY <1>1, <1>4, PopType DEF LeaveCopy

LEMMA ReturnType ==
  ASSUME TInv, AccessOk, Return
  PROVE  TInv'
<1>1. status = "run" /\ loc.ph = "done" /\ Len(stack) = 1
  BY DEF Return
<1>2. dest \in Header /\ (dest.cnt # 0 => Exists(dest, 0))
  BY <1>1, RunFacts DEF AccessOk
<1>3. result' \in Int
  BY <1>2, CellType DEF Return, Header, TInv
<1>4. TypeOK'
  BY <1>3, FinishedType, EmptySeq DEF Return, TInv, TypeOK, LocType, Phases, In
<1>5. Control'
  BY DEF Return, TInv, Control
<1> QED
  BY <1>4, <1>5 DEF TInv

LEMMA ZeroHeader == [loop |-> LOOP_TOP, cnt |-> 0, eta |-> NULL, others |-> 0] \in Header
BY DEF Header, Pointers, LOOP_TOP

LEMMA BoolFalseType ==
  ASSUME TInv, BoolFalse
  PROVE  TInv'
BY ZeroHeader, FinishedType, MemType, PutStep DEF BoolFalse, In

LEMMA LoopZeroType ==
  ASSUME TInv, LoopZero
  PROVE  TInv'
BY ZeroHeader, FinishedType, MemType, PutStep DEF LoopZero, AtLoop, In

LEMMA SeqFirst ==
  ASSUME TInv, status = "run",
         F.kind \in {"LOOP", "PARAM_LOOP", "ANN", "INTMULT"}
  PROVE  Len(F.kids) = 1 /\ Source(1) \in Header
<1>1. Len(F.kids) = 1
  BY RunFacts, FormulaFacts DEF TInv, Control, Arity
<1> QED
  BY <1>1, RunFacts

-----------------------------------------------------------------------------
(* awcet_alt                                                               *)

LEMMA ZeroTab ==
  ASSUME NEW k \in Nat
  PROVE  [i \in 1..k |-> 0] \in Seq(Nat)
OBVIOUS

LEMMA AltScanType ==
  ASSUME TInv, AltScan
  PROVE  TInv'
<1> DEFINE s == Source(loc.k + 1)
           o == IF loc.k = 0 THEN -1 ELSE dest.others
           h == [loop |-> IF loc.k = 0 THEN s.loop ELSE Innermost(s.loop, dest.loop),
                 cnt |-> 0, eta |-> dest.eta,
                 others |-> IF o < s.others THEN s.others ELSE o]
           z == [i \in DOMAIN F.kids |-> 0]
           m == [Start EXCEPT !.ph = "merge", !.tab = z]
           n == [loc EXCEPT !.k = @ + 1]
<1>1. status = "run" /\ F.kind = "ALT" /\ loc.ph = "visit" /\ loc.k < Len(F.kids)
  BY DEF AltScan, In
<1>2. dest \in Header /\ loc \in LocType /\ loc.k \in Nat
  BY <1>1, RunFacts, TypeFacts DEF TInv, LocType
<1>3. s \in Header
  <2>1. loc.k + 1 \in DOMAIN F.kids
    BY <1>1, <1>2, RunFacts
  <2> QED
    BY <1>1, <2>1, RunFacts
<1>4. h \in Header
  BY <1>2, <1>3 DEF Header, Innermost
<1>5. aw' = [aw EXCEPT ![self] = h]
      /\ loc' = IF loc.k + 1 = Len(F.kids) /\ Len(F.kids) <= AltMax THEN m ELSE n
  BY DEF AltScan, Put
<1>6. z \in Seq(Nat) /\ DOMAIN z = DOMAIN F.kids
  BY <1>1, RunFacts, ZeroTab
<1>7. m \in LocType /\ m.ph = "merge" /\ m.tab = z
  <2> HIDE DEF z
  <2> QED
    BY <1>6, FinishedType DEF LocType, Phases
<1>8. n \in LocType /\ n.ph = "visit"
  BY <1>1, <1>2, LocExceptCounter
<1> HIDE DEF h, m, n, z
<1>9. aw' \in [Nodes -> Header]
  BY <1>1, <1>4, <1>5, PutType
<1>10. /\ loc' \in LocType /\ loc'.ph \in {"visit", "merge"}
       /\ loc'.ph = "merge" => DOMAIN loc'.tab = DOMAIN F.kids
  BY <1>5, <1>6, <1>7, <1>8
<1> QED
  BY <1>1, <1>9, <1>10, LocalType DEF AltScan, Put, TInv, TypeOK

LEMMA AltSelectType ==
  ASSUME TInv, AltSelect
  PROVE  TInv'
<1>1. status = "run" /\ loc.ph = "merge" /\ loc \in LocType
  BY TypeFacts DEF AltSelect, In, TInv
<1>2. PICK i \in DOMAIN loc.tab : Go([loc EXCEPT !.ph = "take", !.k = i])
  BY DEF AltSelect, Candidates
<1>3. DOMAIN loc.tab = DOMAIN F.kids /\ i \in Nat
  BY <1>1, RunFacts DEF TInv, Control
<1>4. loc' = [loc EXCEPT !.ph = "take", !.k = i]
  BY <1>2 DEF Go
<1>5. loc' \in LocType /\ loc'.ph = "take" /\ loc'.k = i /\ loc'.tab = loc.tab
  BY <1>1, <1>3, <1>4 DEF LocType, Phases
<1> QED
  BY <1>1, <1>2, <1>3, <1>5, LocalType DEF AltSelect, Go, TInv, TypeOK

LEMMA AltEndType ==
  ASSUME TInv, AltEnd
  PROVE  TInv'
BY FinishedType, MemType, GoStep DEF AltEnd, In

LEMMA AltTakeType ==
  ASSUME TInv, AccessOk, AltTake
  PROVE  TInv'
<1> DEFINE x == Cell(Source(loc.k), loc.tab[loc.k])
           h == [dest EXCEPT !.cnt = @ + 1]
           l == [loc EXCEPT !.ph = "merge", !.tab[loc.k] = @ + 1]
<1>1. status = "run" /\ loc.ph = "take" /\ loc \in LocType
  BY TypeFacts DEF AltTake, In, TInv
<1>2. loc.k \in DOMAIN loc.tab /\ DOMAIN loc.tab = DOMAIN F.kids /\ loc.tab \in Seq(Nat)
  BY <1>1 DEF TInv, Control, LocType
<1>3. dest \in Header /\ h \in Header
  BY <1>1, RunFacts DEF Header
<1>4. x \in Int
  <2>1. Exists(Source(loc.k), loc.tab[loc.k])
    BY DEF AccessOk, AltTake
  <2>2. Source(loc.k) \in Header /\ loc.tab[loc.k] \in Nat
    BY <1>1, <1>2, RunFacts, ElementOfSeq, LenProperties
  <2> QED
    BY <2>1, <2>2, CellType DEF TInv
<1>5. mem' \in [Buffers -> Seq(Int)]
  <2>1. mem' = [mem EXCEPT ![dest.eta][dest.cnt + 1] = x]
    BY DEF AltTake, Store
  <2> HIDE DEF x
  <2> QED
    BY <1>3, <1>4, <2>1, StoreType DEF TInv, Header
<1>6. loc' = l /\ aw' = [aw EXCEPT ![self] = h]
  BY DEF AltTake, Put
<1>7. l \in LocType /\ l.ph = "merge" /\ DOMAIN l.tab = DOMAIN loc.tab
  <2>1. [loc.tab EXCEPT ![loc.k] = @ + 1] \in Seq(Nat)
        /\ DOMAIN [loc.tab EXCEPT ![loc.k] = @ + 1] = DOMAIN loc.tab
    BY <1>2, ExceptSeq, ElementOfSeq, LenProperties
  <2> QED
    BY <1>1, <2>1 DEF LocType, Phases
<1> HIDE DEF h, l
<1>8. aw' \in [Nodes -> Header]
  BY <1>1, <1>3, <1>6, PutType
<1> QED
  BY <1>1, <1>2, <1>5, <1>6, <1>7, <1>8, LocalType DEF AltTake, Put

-----------------------------------------------------------------------------
(* awcet_loop and awcet_paramloop                                          *)

LEMMA AtLoopFacts ==
  ASSUME TInv, NEW ph, AtLoop(ph)
  PROVE  /\ status = "run" /\ loc.ph = ph /\ loc \in LocType
         /\ F.kind \in {"LOOP", "PARAM_LOOP"}
         /\ dest \in Header /\ Source(1) \in Header
         /\ Bound \in Int /\ (F.kind = "PARAM_LOOP" => Bound \in Nat)
         /\ ph \in {"first", "pack"} /\ F.kind = "PARAM_LOOP" => loc.bound \in Nat
<1>1. status = "run" /\ loc.ph = ph /\ F.kind \in {"LOOP", "PARAM_LOOP"}
  BY DEF AtLoop, In
<1>2. ph \in {"first", "pack"} /\ F.kind = "PARAM_LOOP" => loc.bound \in Nat
  BY <1>1 DEF TInv, TypeOK, In
<1> QED
  BY <1>1, <1>2, RunFacts, SeqFirst, BoundType, TypeFacts DEF TInv

LEMMA LoopHeaderType ==
  ASSUME TInv, LoopHeader
  PROVE  TInv'
<1> DEFINE l == [Start EXCEPT !.ph = "first", !.bound = Bound]
<1>1. status = "run" /\ Bound \in Int /\ (F.kind = "PARAM_LOOP" => Bound \in Nat)
  BY AtLoopFacts DEF LoopHeader
<1>2. l \in LocType /\ l.ph = "first" /\ l.bound = Bound
  BY <1>1, FinishedType DEF LocType, Phases
<1>3. Go(l) /\ UNCHANGED mem
  BY DEF LoopHeader
<1> HIDE DEF l
<1> QED
  BY <1>1, <1>2, <1>3, MemType, GoStep

LEMMA LoopSumFirstType ==
  ASSUME TInv, AccessOk, LoopSumFirst
  PROVE  TInv'
<1> DEFINE x == Elem(Source(1), loc.k)
           l == [loc EXCEPT !.k = @ + 1, !.acc = @ + x]
<1>1. status = "run" /\ loc.ph = "first" /\ loc \in LocType /\ Source(1) \in Header
      /\ (F.kind = "PARAM_LOOP" => loc.bound \in Nat)
  BY AtLoopFacts DEF LoopSumFirst
<1>2. x \in Int
  <2>1. Readable(Source(1), loc.k) /\ loc.k \in Nat
    BY <1>1 DEF AccessOk, LoopSumFirst, LocType
  <2> QED
    BY <1>1, <2>1, ElemType DEF TInv
<1>3. Go(l) /\ UNCHANGED mem
  BY DEF LoopSumFirst
<1> HIDE DEF x
<1>4. l \in LocType /\ l.ph = "first" /\ l.bound = loc.bound
  <2>1. loc.k + 1 \in Nat /\ loc.acc + x \in Int
    BY <1>1, <1>2 DEF LocType
  <2>2. l = [loc EXCEPT !.k = loc.k + 1, !.acc = loc.acc + x]
    BY <1>1 DEF LocType
  <2> HIDE DEF l
  <2> QED
    BY <1>1, <2>1, <2>2, LocExceptSum
<1> HIDE DEF l
<1> QED
  BY <1>1, <1>3, <1>4, MemType, GoStep

LEMMA LoopSumOthersType ==
  ASSUME TInv, LoopSumOthers
  PROVE  TInv'
<1> DEFINE left == IF loc.k < loc.bound THEN loc.bound - loc.k ELSE 0
           h == [loop |-> LOOP_TOP, cnt |-> 0, eta |-> dest.eta,
                 others |-> loc.acc + left * Source(1).others]
<1>1. status = "run" /\ loc \in LocType /\ Source(1) \in Header /\ dest \in Header
  BY AtLoopFacts DEF LoopSumOthers
<1>2. loc.acc + left * Source(1).others \in Int
  <2>1. left \in Int /\ Source(1).others \in Int /\ loc.acc \in Int
    BY <1>1 DEF LocType, Header
  <2> HIDE DEF left
  <2>2. left * Source(1).others \in Int
    BY <2>1
  <2> QED
    BY <2>1, <2>2
<1>3. h \in Header
  BY <1>1, <1>2 DEF Header, LOOP_TOP
<1>4. Put(h, Finished) /\ UNCHANGED mem
  BY DEF LoopSumOthers
<1> HIDE DEF h
<1> QED
  BY <1>1, <1>3, <1>4, FinishedType, MemType, PutStep

LEMMA PackedType ==
  ASSUME NEW c \in Int, Bound \in Int, Bound # 0
  PROVE  Packed(c) \in Int
<1> DEFINE x == Magnitude(c)
           b == Magnitude(Bound)
<1>1. x \in Nat /\ b \in Nat /\ b # 0
  BY DEF Magnitude
<1> HIDE DEF x, b
<1>2. x \div b \in Nat /\ x % b \in Nat
  BY <1>1
<1>3. Quotient(c) \in Int
  BY <1>2 DEF Quotient, x, b
<1> QED
  BY <1>2, <1>3 DEF Packed, x, b

LEMMA LoopOuterType ==
  ASSUME TInv, LoopOuter
  PROVE  TInv'
<1> DEFINE s == Source(1)
           c == Packed(s.cnt)
           h(e) == [loop |-> s.loop, cnt |-> c, eta |-> e, others |-> s.others * Bound]
           l == [Start EXCEPT !.ph = "pack", !.bound = Bound]
<1>1. status = "run" /\ s \in Header /\ dest \in Header /\ Bound \in Int /\ Bound # 0
      /\ (F.kind = "PARAM_LOOP" => Bound \in Nat)
  BY AtLoopFacts DEF LoopOuter
<1>2. l \in LocType /\ l.ph = "pack" /\ l.bound = Bound
  BY <1>1, FinishedType DEF LocType, Phases
<1>3. c \in Int
  BY <1>1, PackedType DEF Header
<1>4. s.others * Bound \in Int
  BY <1>1 DEF Header
<1>5. ASSUME NEW e \in Pointers
      PROVE  h(e) \in Header
  BY <1>1, <1>3, <1>4, <1>5 DEF Header
<1>6. CASE Put(h(dest.eta), l) /\ UNCHANGED mem
  <2>1. h(dest.eta) \in Header
    BY <1>1, <1>5 DEF Header
  <2> HIDE DEF h, l
  <2> QED
    BY <1>1, <1>2, <1>6, <2>1, MemType, PutStep
<1>7. ASSUME NEW b \in Heap, Put(h(b), l), mem' = [mem EXCEPT ![b] = [j \in 1..c |-> 0]]
      PROVE  TInv'
  <2>1. h(b) \in Header
    BY <1>5 DEF Pointers, Buffers
  <2>2. [j \in 1..c |-> 0] \in Seq(Int)
    BY <1>3
  <2>3. mem' \in [Buffers -> Seq(Int)]
    BY <1>7, <2>2 DEF TInv, TypeOK
  <2> HIDE DEF h, l
  <2> QED
    BY <1>1, <1>2, <1>7, <2>1, <2>3, PutStep
<1>8. \/ Put(h(dest.eta), l) /\ UNCHANGED mem
      \/ \E b \in Heap : Put(h(b), l) /\ mem' = [mem EXCEPT ![b] = [j \in 1..c |-> 0]]
  BY DEF LoopOuter
<1> HIDE DEF h, l, c
<1> QED
  BY <1>6, <1>7, <1>8

LEMMA LoopPackType ==
  ASSUME TInv, AccessOk, LoopPack
  PROVE  TInv'
<1> DEFINE j == loc.j + loc.k * loc.bound
           sum == IF loc.bound > 0 THEN loc.acc + Elem(Source(1), j) ELSE 0
           m == [loc EXCEPT !.j = @ + 1, !.acc = sum]
           n == [loc EXCEPT !.k = @ + 1, !.j = 0, !.acc = 0]
<1>1. status = "run" /\ loc.ph = "pack" /\ loc \in LocType /\ Source(1) \in Header
      /\ (F.kind = "PARAM_LOOP" => loc.bound \in Nat)
  BY AtLoopFacts DEF LoopPack
<1>2. ASSUME loc.bound > 0
      PROVE  j \in Nat
  <2>1. loc.j \in Nat /\ loc.k \in Nat /\ loc.bound \in Nat
    BY <1>1, <1>2 DEF LocType
  <2>2. loc.k * loc.bound \in Nat
    BY <2>1
  <2> QED
    BY <2>1, <2>2
<1>3. loc.bound > 0 => Readable(Source(1), j)
  BY DEF AccessOk, LoopPack
<1>4. sum \in Int
  <2> HIDE DEF j
  <2> QED
    BY <1>1, <1>2, <1>3, ElemType DEF TInv, LocType
<1>5. IF loc.j + 1 < loc.bound
      THEN Go(m) /\ UNCHANGED mem
      ELSE Store(dest.eta, loc.k, sum) /\ Go(n)
  BY DEF LoopPack
<1> HIDE DEF sum
<1>6. /\ m \in LocType /\ m.ph = "pack" /\ m.bound = loc.bound
      /\ n \in LocType /\ n.ph = "pack" /\ n.bound = loc.bound
  <2>1. loc.j + 1 \in Nat /\ loc.k + 1 \in Nat
    BY <1>1 DEF LocType
  <2>2. /\ m = [loc EXCEPT !.j = loc.j + 1, !.acc = sum]
        /\ n = [loc EXCEPT !.k = loc.k + 1, !.j = 0, !.acc = 0]
    BY <1>1 DEF LocType
  <2> HIDE DEF m, n
  <2>3. m \in LocType /\ m.ph = "pack" /\ m.bound = loc.bound
    BY <1>1, <1>4, <2>1, <2>2, LocExceptRow
  <2>4. n \in LocType /\ n.ph = "pack" /\ n.bound = loc.bound
    BY <1>1, <2>1, <2>2, LocExceptNext
  <2> QED
    BY <2>3, <2>4
<1> HIDE DEF m, n
<1>7. Store(dest.eta, loc.k, sum) => mem' \in [Buffers -> Seq(Int)]
  <2>1. loc.k \in Int /\ TypeOK
    BY <1>1 DEF LocType, TInv
  <2>2. [mem EXCEPT ![dest.eta][loc.k + 1] = sum] \in [Buffers -> Seq(Int)]
    BY <1>4, <2>1, StoreType
  <2> QED
    BY <2>2 DEF Store
<1> QED
  BY <1>1, <1>5, <1>6, <1>7, MemType, GoStep

LEMMA LoopPackedType ==
  ASSUME TInv, LoopPacked
  PROVE  TInv'
<1>1. status = "run" /\ Go(Finished) /\ UNCHANGED mem
  BY AtLoopFacts DEF LoopPacked
<1> QED
  BY <1>1, FinishedType, MemType, GoStep

-----------------------------------------------------------------------------
(* awcet_intmult and awcet_ann                                             *)

LEMMA IntMultType ==
  ASSUME TInv, AccessOk, IntMult
  PROVE  TInv'
<1> DEFINE s == Source(1)
           h == [dest EXCEPT !.others = s.others * F.coef]
           g == [j \in DOMAIN mem[dest.eta] |->
                   IF j <= s.cnt THEN Elem(s, j - 1) * F.coef ELSE mem[dest.eta][j]]
<1>1. status = "run" /\ F.kind = "INTMULT" /\ Visited /\ loc.ph = "visit"
  BY DEF IntMult, In
<1>2. s \in Header /\ dest \in Header /\ F.coef \in Nat
  BY <1>1, SeqFirst, RunFacts, FormulaFacts DEF TInv, Control
<1>3. Spans(s.eta, s.cnt)
  BY <1>1 DEF AccessOk, In
<1>4. mem' = IF s.cnt <= 0 THEN mem ELSE [mem EXCEPT ![dest.eta] = g]
  BY DEF IntMult
<1>5. Put(h, Finished)
  BY DEF IntMult
<1>6. s.others * F.coef \in Int
  BY <1>2 DEF Header
<1>7. h \in Header
  BY <1>2, <1>6 DEF Header
<1> HIDE DEF s, h
<1>8. ASSUME dest.eta \in Buffers, NEW j \in DOMAIN mem[dest.eta]
      PROVE  mem[dest.eta][j] \in Int /\ Elem(s, j - 1) * F.coef \in Int
  <2>1. mem[dest.eta] \in Seq(Int)
    BY <1>8 DEF TInv, TypeOK
  <2>2. mem[dest.eta][j] \in Int /\ j - 1 \in Nat
    BY <1>8, <2>1, LenProperties, ElementOfSeq
  <2>3. Elem(s, j - 1) \in Int
    BY <1>2, <1>3, <2>2, SpanReadable, ElemType DEF TInv
  <2> QED
    BY <1>2, <2>2, <2>3
<1>9. dest.eta \in Buffers => g \in [DOMAIN mem[dest.eta] -> Int]
  BY <1>8
<1> HIDE DEF g
<1>10. mem' \in [Buffers -> Seq(Int)]
  BY <1>4, <1>9, MapType DEF TInv, TypeOK
<1> QED
  BY <1>1, <1>5, <1>7, <1>10, FinishedType, PutStep

LEMMA AnnFacts ==
  ASSUME TInv, status = "run", F.kind = "ANN"
  PROVE  Ann.loop \in LoopIds /\ Ann.count \in Int /\ LoopIds \subseteq Int
<1>1. self \in Nodes /\ F = formula[self]
  BY RunFacts
<1>2. F.param \in Params \cup {IDENT_NONE} /\ F.loop \in LoopIds /\ F.count \in Nat \cup {-1}
  BY <1>1, FormulaFacts DEF TInv, Control
<1>3. F.param # IDENT_NONE =>
        val.ann[F.param] \in [loop : LoopIds, count : Int]
  BY <1>2, RuntimeAssumption DEF TInv, TypeOK, Valuation
<1>4. LoopIds \subseteq Int
  BY RuntimeAssumption DEF LoopIds, LOOP_TOP
<1> QED
  BY <1>2, <1>3, <1>4 DEF Ann, AnnOf

LEMMA AnnKeepType ==
  ASSUME TInv, AnnKeep
  PROVE  TInv'
<1>1. status = "run" /\ F.kind = "ANN" /\ Put(Source(1), Finished) /\ UNCHANGED mem
  BY DEF AnnKeep, In
<1> QED
  BY <1>1, SeqFirst, FinishedType, MemType, PutStep

LEMMA AnnCutType ==
  ASSUME TInv, AccessOk, AnnCut
  PROVE  TInv'
<1> DEFINE s == Source(1)
           h == [loop |-> IF s.cnt = 0 \/ Conflict THEN Ann.loop ELSE s.loop,
                 cnt |-> Ann.count, eta |-> dest.eta, others |-> 0]
           g == [j \in DOMAIN mem[dest.eta] |->
                   IF j <= Ann.count THEN Elem(s, j - 1) ELSE mem[dest.eta][j]]
<1>1. status = "run" /\ F.kind = "ANN" /\ In("ANN", "visit") /\ Visited /\ ~AnnKept
  BY DEF AnnCut, In
<1>2. s \in Header /\ dest \in Header
  BY <1>1, SeqFirst, RunFacts
<1>3. Ann.count \in Int /\ Ann.loop \in Int
  BY <1>1, AnnFacts
<1>4. \A j \in 0..(Ann.count - 1) : Readable(s, j)
  BY <1>1 DEF AccessOk
<1>5. mem' = IF Ann.count <= 0 THEN mem ELSE [mem EXCEPT ![dest.eta] = g]
  BY DEF AnnCut
<1>6. Put(h, Finished)
  BY DEF AnnCut
<1>7. h \in Header
  BY <1>2, <1>3 DEF Header
<1> HIDE DEF s, h
<1>8. ASSUME dest.eta \in Buffers, NEW j \in DOMAIN mem[dest.eta]
      PROVE  mem[dest.eta][j] \in Int /\ (j <= Ann.count => Elem(s, j - 1) \in Int)
  <2>1. mem[dest.eta] \in Seq(Int)
    BY <1>8 DEF TInv, TypeOK
  <2>2. mem[dest.eta][j] \in Int /\ j - 1 \in Nat /\ j \in Nat
    BY <1>8, <2>1, LenProperties, ElementOfSeq
  <2>3. ASSUME j <= Ann.count
        PROVE  Elem(s, j - 1) \in Int
    <3>1. j - 1 \in 0..(Ann.count - 1)
      BY <1>3, <2>2, <2>3
    <3> QED
      BY <1>2, <1>4, <2>2, <3>1, ElemType DEF TInv
  <2> QED
    BY <2>2, <2>3
<1>9. dest.eta \in Buffers => g \in [DOMAIN mem[dest.eta] -> Int]
  BY <1>8
<1> HIDE DEF g
<1>10. mem' \in [Buffers -> Seq(Int)]
  BY <1>5, <1>9, MapType DEF TInv, TypeOK
<1> QED
  BY <1>1, <1>6, <1>7, <1>10, FinishedType, PutStep

-----------------------------------------------------------------------------
LEMMA InitType == Init => TInv
<1> SUFFICES ASSUME Init PROVE TInv
  OBVIOUS
<1>1. formula \in Formulas
  BY DEF Init
<1>2. ASSUME NEW n \in Nodes
      PROVE  InitHeader(n) \in Header /\ InitArray(n) \in Seq(Int)
  <2>1. /\ formula[n].loop \in Int /\ formula[n].eta \in Seq(Int)
        /\ formula[n].others \in Int /\ formula[n].cap \in Nat
    <3>1. LoopIds \subseteq Int
      BY RuntimeAssumption DEF LoopIds, LOOP_TOP
    <3> QED
      BY <1>1, <3>1, FormulaFacts
  <2>2. Len(formula[n].eta) \in Nat /\ n \in Pointers /\ NULL \in Pointers
    BY <2>1, LenProperties DEF Pointers, Buffers
  <2>3. InitHeader(n) \in Header
    BY <2>1, <2>2 DEF InitHeader, Header, LOOP_TOP
  <2>4. [j \in 1..formula[n].cap |-> 0] \in Seq(Int)
    BY <2>1
  <2> QED
    BY <2>1, <2>3, <2>4 DEF InitArray
<1>3. ASSUME NEW b \in Heap \cup Lists
      PROVE  InitArray(b) \in Seq(Int)
  BY <1>3, RuntimeAssumption DEF InitArray
<1>4. aw \in [Nodes -> Header] /\ mem \in [Buffers -> Seq(Int)]
  BY <1>2, <1>3 DEF Init, Buffers
<1>5. TypeOK
  BY <1>1, <1>4, FinishedType, FormulasAssumption, RuntimeAssumption
  DEF Init, TypeOK, LocType, Phases, In
<1> QED
  BY <1>1, <1>5 DEF Init, TInv, Control

LEMMA NextType ==
  ASSUME TInv, [Next]_vars
  PROVE  TInv'
<1>1. CASE \E v \in Valuations : Call(v)
  BY <1>1, CallType
<1>2. CASE status = "run" /\ AccessOk /\ Step
  BY <1>2, VisitType, LeaveType, LeaveCopyType, ReturnType, ConstNodeType,
     AwcetNodeType, SeqScanType, SeqClearType, SeqSumType, AltScanType,
     AltSelectType, AltEndType, AltTakeType, LoopZeroType, LoopHeaderType,
     LoopSumFirstType, LoopSumOthersType, LoopOuterType, LoopPackType,
     LoopPackedType, IntMultType, BoolTrueType, BoolFalseType, AnnKeepType,
     AnnCutType
  DEF Step
<1>3. CASE Fault
  BY <1>3 DEF Fault, TInv, TypeOK, Control, In, F, self, Top
<1>4. CASE UNCHANGED vars
  BY <1>4 DEF vars, TInv, TypeOK, Control, In, F, self, Top
<1> QED
  BY <1>1, <1>2, <1>3, <1>4 DEF Next

\* No evaluation, of any formula and under any valuation, leaves the types of
\* the C declarations: no cursor becomes negative, nor does the bound that a
\* parametric loop computes, though the callback may answer negative bounds and
\* counts; pointers designate arrays of formulas, malloc blocks or the callback's
\* arrays, and what a call returns is a number even where the arrays are shared.
THEOREM Types == Spec => []TypeOK
<1>1. Init => TInv
  BY InitType
<1>2. TInv /\ [Next]_vars => TInv'
  BY NextType
<1>3. TInv => TypeOK
  BY DEF TInv
<1> QED
  BY <1>1, <1>2, <1>3, PTL DEF Spec

-----------------------------------------------------------------------------
(* A formula whose arrays fit is evaluated without undefined behaviour.    *)

\* A constant keeps its header; an annotation points to its own array, or to the
\* one that the header of its operand designated when it was copied.
Points(n, h) ==
  /\ formula[n].kind = "CONST" =>
       h.cnt = Len(formula[n].eta) /\ (h.eta = n \/ formula[n].eta = <<>>)
  /\ formula[n].kind = "ANN" =>
       \/ h.eta = n
       \/ /\ MayShare(formula, n)
          /\ h.eta = formula[n].kids[1] \/ Room(formula, formula[n].kids[1]) = 0

\* h is a header the node n may have: its values exist, they are not more than
\* the array of n can hold, and a node that fills its array still points to it.
HeaderInv(n, h) ==
  /\ h.cnt >= 0
  /\ h.cnt = 0 \/ (h.eta # NULL /\ h.cnt <= Len(mem[h.eta]))
  /\ h.cnt <= formula[n].cap
  /\ formula[n].kind \in Owners => h.eta = n
  /\ Points(n, h)

\* The cells of its sources an alternative has used up.
Taken(tab, cap) == {s \in (DOMAIN tab) \X (0..cap) : s[2] < tab[s[1]]}

Cursors ==
  /\ \A i \in DOMAIN loc.tab : loc.tab[i] <= Source(i).cnt
  /\ Cardinality(Taken(loc.tab, F.cap)) = dest.cnt
  /\ loc.ph = "take" => loc.tab[loc.k] < Source(loc.k).cnt

\* A callee that has been asked for its WCET has no values if it never answers any.
ScalarCallee(n) == formula[n].kind = "AWCET" /\ Scalar(formula, n)
Asked ==
  /\ In("AWCET", "done") /\ ScalarCallee(self) => dest.cnt = 0
  /\ In("ANN", "visit") /\ Top.i # 0 =>
       \A i \in DOMAIN F.kids : ScalarCallee(F.kids[i]) => Source(i).cnt = 0

Safe ==
  /\ status # "fault"
  /\ \A n \in Nodes : HeaderInv(n, aw[n])
  /\ \A d \in 1..Len(stack) : HeaderInv(stack[d].node, stack[d].hdr)
  /\ \A n \in Nodes :
       /\ formula[n].kind \in Owners \cup {"ANN"} => Len(mem[n]) = formula[n].cap
       /\ formula[n].kind = "CONST" => Len(mem[n]) = Len(formula[n].eta)
  /\ \A l \in Lists : Len(mem[l]) = Len(ListValues[l])
  /\ \A d \in 1..(Len(stack) - 1) :
       \E i \in DOMAIN formula[stack[d + 1].node].kids :
         formula[stack[d + 1].node].kids[i] = stack[d].node
  /\ In("ALT", "merge") \/ In("ALT", "take") => Cursors
  /\ Asked

IInv == TInv /\ (Fits(formula) => Safe)

\* What Fits says of one node.
LEMMA FitsFacts ==
  ASSUME TInv, Fits(formula), NEW n \in Nodes
  PROVE  /\ formula[n].kind = "CONST" => Len(formula[n].eta) <= formula[n].cap
         /\ formula[n].kind = "AWCET" =>
              \A v \in Valuations :
                LET p == v.aw[formula[n].param]
                IN  /\ p.header /\ p.cnt <= formula[n].cap
                    /\ p.cnt = 0 \/ (p.eta # NULL /\ p.cnt <= Len(ListValues[p.eta]))
         /\ formula[n].kind = "LOOP" =>
              \A v \in Valuations :
                LET b == IF formula[n].param # IDENT_NONE THEN v.bound[formula[n].param]
                         ELSE LoopBounds[formula[n].loop]
                IN  b > 0 /\ formula[formula[n].kids[1]].cap <= formula[n].cap * b
         /\ formula[n].kind = "ANN" =>
              \A v \in Valuations :
                LET c == AnnOf(v, formula[n]).count
                IN  /\ -1 <= c /\ c <= formula[n].cap
                    /\ c = -1 => formula[formula[n].kids[1]].cap <= formula[n].cap
                    /\ MayShare(formula, n) => c <= Room(formula, formula[n].kids[1])
         /\ formula[n].kind \notin {"CONST", "AWCET", "LOOP", "ANN"} =>
              \A i \in DOMAIN formula[n].kids :
                formula[formula[n].kids[i]].cap <= formula[n].cap
         /\ formula[n].kind = "ALT" =>
              /\ Len(formula[n].kids) <= AltMax
              /\ Cardinality({s \in (DOMAIN formula[n].kids) \X (0..formula[n].cap) :
                                s[2] < formula[formula[n].kids[s[1]]].cap}) <= formula[n].cap
BY DEF Fits

\* The steps of the awcet_ functions: they change the header of self at most.
LEMMA LocalSafe ==
  ASSUME TInv, Safe, status = "run",
         UNCHANGED <<formula, status, val, stack, result, calls>>,
         \A b \in Buffers : Len(mem'[b]) = Len(mem[b]),
         NEW h \in Header, HeaderInv(self, h), aw' = [aw EXCEPT ![self] = h],
         (In("ALT", "merge") \/ In("ALT", "take") => Cursors)', Asked'
  PROVE  Safe'
<1>1. aw \in [Nodes -> Header] /\ stack \in Seq(FrameType) /\ Nodes \subseteq Buffers
  BY TypeFacts DEF TInv, TypeOK, Buffers
<1>2. ASSUME NEW n \in Nodes
      PROVE  HeaderInv(n, aw[n])'
  <2>1. HeaderInv(n, aw'[n]) /\ aw'[n] \in Header
    BY <1>1 DEF Safe
  <2> DEFINE g == aw'[n]
  <2>2. g \in Header /\ HeaderInv(n, g)
    BY <2>1
  <2> QED
    BY <2>2 DEF HeaderInv, Points, Header, Pointers
<1>3. ASSUME NEW d \in 1..Len(stack)
      PROVE  HeaderInv(stack[d].node, stack[d].hdr)'
  <2>1. stack[d] \in FrameType
    BY <1>1, ElementOfSeq
  <2>2. HeaderInv(stack[d].node, stack[d].hdr) /\ stack[d].hdr \in Header
    BY <2>1 DEF Safe, FrameType
  <2> QED
    BY <2>2 DEF HeaderInv, Points, Header, Pointers
<1>4. \A n \in Nodes :
        /\ formula'[n].kind \in Owners \cup {"ANN"} => Len(mem'[n]) = formula'[n].cap
        /\ formula'[n].kind = "CONST" => Len(mem'[n]) = Len(formula'[n].eta)
  BY <1>1 DEF Safe
<1>5. \A l \in Lists : Len(mem'[l]) = Len(ListValues[l])
  BY DEF Safe, Buffers
<1> QED
  BY <1>2, <1>3, <1>4, <1>5 DEF Safe

LEMMA PutSafe ==
  ASSUME TInv, Safe, status = "run",
         NEW h \in Header, HeaderInv(self, h), NEW l, Put(h, l),
         \A b \in Buffers : Len(mem'[b]) = Len(mem[b]),
         l.ph \notin {"merge", "take"},
         F.kind \notin {"AWCET", "ANN"} \/ (l.ph = "done" /\ (ScalarCallee(self) => h.cnt = 0))
  PROVE  Safe'
<1>1. aw' = [aw EXCEPT ![self] = h] /\ loc' = l
      /\ UNCHANGED <<formula, status, val, stack, result, calls>>
  BY DEF Put
<1>2. F' = F /\ self' = self
  BY <1>1 DEF F, self, Top
<1>3. dest' = h
  BY <1>1, <1>2, RunFacts DEF dest, TInv, TypeOK
<1>4. Asked'
  BY <1>1, <1>2, <1>3 DEF Asked, In, ScalarCallee
<1> QED
  BY <1>1, <1>4, LocalSafe DEF In

LEMMA GoSafe ==
  ASSUME TInv, Safe, status = "run", NEW l, Go(l),
         \A b \in Buffers : Len(mem'[b]) = Len(mem[b]),
         l.ph \notin {"merge", "take"}, F.kind \notin {"AWCET", "ANN"}
  PROVE  Safe'
<1>1. dest \in Header /\ self \in Nodes /\ HeaderInv(self, dest)
  BY RunFacts DEF Safe, dest
<1>2. aw' = [aw EXCEPT ![self] = dest]
  BY DEF Go, TInv, TypeOK, dest
<1>3. F' = F
  BY DEF Go, F, self, Top
<1>4. Asked'
  BY <1>3 DEF Asked, Go, In
<1> QED
  BY <1>1, <1>2, <1>4, LocalSafe DEF Go, In

\* Replacing cells of an array keeps its length.
LEMMA StoreLen ==
  ASSUME TypeOK, NEW b, NEW j, NEW x, Store(b, j, x)
  PROVE  \A c \in Buffers : Len(mem'[c]) = Len(mem[c])
<1>1. ASSUME NEW c \in Buffers
      PROVE  Len([mem[c] EXCEPT ![j + 1] = x]) = Len(mem[c])
  <2>1. mem[c] \in Seq(Int)
    BY DEF TypeOK
  <2> QED
    BY <2>1, ExceptSeq
<1> QED
  BY <1>1 DEF Store, TypeOK

LEMMA MapLen ==
  ASSUME TypeOK, NEW b, NEW g,
         b \in Buffers => DOMAIN g = DOMAIN mem[b] /\ g \in Seq(Int),
         mem' = [mem EXCEPT ![b] = g]
  PROVE  \A c \in Buffers : Len(mem'[c]) = Len(mem[c])
<1>1. ASSUME b \in Buffers
      PROVE  Len(g) = Len(mem[b])
  BY <1>1, LenProperties DEF TypeOK
<1> QED
  BY <1>1 DEF TypeOK

LEMMA LenKept == UNCHANGED mem => \A b \in Buffers : Len(mem'[b]) = Len(mem[b])
OBVIOUS

\* What the invariant says of the node whose function is running.
LEMMA SelfFacts ==
  ASSUME TInv, Safe, status = "run"
  PROVE  /\ self \in Nodes /\ F = formula[self] /\ F.cap \in Nat
         /\ dest \in Header /\ HeaderInv(self, dest)
         /\ F.kind \in Owners => dest.eta = self
         /\ F.kind \in Owners \cup {"ANN"} => Len(mem[self]) = F.cap
         /\ self \in Pointers /\ self # NULL
         /\ \A i \in DOMAIN F.kids :
              /\ Source(i) \in Header
              /\ HeaderInv(F.kids[i], Source(i))
              /\ Source(i).cnt \in Nat /\ Source(i).cnt <= formula[F.kids[i]].cap
              /\ formula[F.kids[i]].cap \in Nat
         /\ dest.cnt \in Nat
<1>1. self \in Nodes /\ F = formula[self] /\ dest \in Header
  BY RunFacts
<1>2. formula \in Formulas
  BY DEF TInv, Control
<1>3. F.cap \in Nat
  BY <1>1, <1>2, FormulaFacts
<1>4. HeaderInv(self, dest) /\ (F.kind \in Owners \cup {"ANN"} => Len(mem[self]) = F.cap)
  BY <1>1 DEF Safe, dest
<1>5. F.kind \in Owners => dest.eta = self
  BY <1>1, <1>4 DEF HeaderInv
<1>6. self \in Pointers /\ self # NULL
  BY <1>1, RuntimeAssumption DEF Pointers, Buffers
<1>7. ASSUME NEW i \in DOMAIN F.kids
      PROVE  /\ Source(i) \in Header /\ HeaderInv(F.kids[i], Source(i))
             /\ Source(i).cnt \in Nat /\ Source(i).cnt <= formula[F.kids[i]].cap
             /\ formula[F.kids[i]].cap \in Nat
  <2>1. F.kids[i] \in Nodes /\ Source(i) \in Header
    BY <1>7, RunFacts
  <2>2. HeaderInv(F.kids[i], Source(i))
    BY <2>1 DEF Safe, Source
  <2>3. formula[F.kids[i]].cap \in Nat
    BY <2>1, <1>2, FormulaFacts
  <2> QED
    BY <2>1, <2>2, <2>3 DEF HeaderInv, Header
<1>8. dest.cnt \in Nat
  BY <1>1, <1>4 DEF HeaderInv, Header
<1> QED
  BY <1>1, <1>3, <1>4, <1>5, <1>6, <1>7, <1>8

\* A header that satisfies the invariant can be read anywhere.
LEMMA HeaderReadable ==
  ASSUME NEW n, NEW h \in Header, HeaderInv(n, h), NEW j \in Nat
  PROVE  Readable(h, j) /\ (j < h.cnt => Exists(h, j))
BY DEF HeaderInv, Readable, Exists, Header

LEMMA HeaderSpans ==
  ASSUME NEW n, NEW h \in Header, HeaderInv(n, h), NEW k \in Nat, k <= h.cnt
  PROVE  Spans(h.eta, k)
BY DEF HeaderInv, Spans, Header

LEMMA ZeroHeaderInv ==
  ASSUME NEW n \in Nodes, formula[n].cap \in Nat,
         formula[n].kind \notin Owners \cup {"CONST", "ANN"}
  PROVE  HeaderInv(n, [loop |-> LOOP_TOP, cnt |-> 0, eta |-> NULL, others |-> 0])
BY DEF HeaderInv, Points

\* A node of another kind may point anywhere.
LEMMA PointsFree ==
  ASSUME NEW n, NEW h, formula[n].kind \notin {"CONST", "ANN"}
  PROVE  Points(n, h)
BY DEF Points

\* The array of a node that has room is its own.
LEMMA RoomFacts ==
  ASSUME TInv, Safe, NEW n \in Nodes
  PROVE  /\ Room(formula, n) \in Nat
         /\ Room(formula, n) # 0 => Len(mem[n]) = Room(formula, n) /\ n # NULL
         /\ \A h : HeaderInv(n, h) /\ Room(formula, n) # 0 => h.eta = n
<1>1. formula[n].cap \in Nat /\ formula[n].eta \in Seq(Int) /\ n # NULL
  BY FormulaFacts, RuntimeAssumption DEF TInv, Control
<1>2. Len(formula[n].eta) \in Nat /\ (formula[n].eta = <<>> => Len(formula[n].eta) = 0)
  BY <1>1, LenProperties
<1>3. CASE formula[n].kind \in Owners
  <2>1. Room(formula, n) = formula[n].cap /\ Len(mem[n]) = formula[n].cap
    BY <1>3 DEF Room, Safe
  <2> QED
    BY <1>1, <1>3, <2>1 DEF HeaderInv
<1>4. CASE formula[n].kind = "CONST"
  <2>1. Room(formula, n) = Len(formula[n].eta) /\ Len(mem[n]) = Len(formula[n].eta)
    BY <1>4 DEF Room, Safe, Owners
  <2> QED
    BY <1>1, <1>2, <1>4, <2>1 DEF HeaderInv, Points
<1>5. CASE formula[n].kind \notin Owners \cup {"CONST"}
  BY <1>5 DEF Room
<1> QED
  BY <1>3, <1>4, <1>5

-----------------------------------------------------------------------------
(* The cursors of awcet_alt: taking one more value leaves the values taken  *)
(* within the cells of the sources, of which there are at most cap.         *)

LEMMA TakenCount ==
  ASSUME TInv, Safe, Fits(formula), In("ALT", "take")
  PROVE  LET new == [loc.tab EXCEPT ![loc.k] = @ + 1] IN
         /\ Cardinality(Taken(new, F.cap)) = dest.cnt + 1
         /\ dest.cnt + 1 <= F.cap
<1> DEFINE T == loc.tab
           k == loc.k
           c == F.cap
           new == [T EXCEPT ![k] = @ + 1]
           K == DOMAIN F.kids
           All == {s \in K \X (0..c) : s[2] < formula[F.kids[s[1]]].cap}
           P == <<k, T[k]>>
<1>1. status = "run" /\ F.kind = "ALT" /\ loc.ph = "take" /\ Cursors
  BY DEF In, Safe
<1>2. /\ self \in Nodes /\ F = formula[self] /\ c \in Nat
      /\ \A i \in K : /\ Source(i).cnt \in Nat
                      /\ Source(i).cnt <= formula[F.kids[i]].cap
                      /\ formula[F.kids[i]].cap \in Nat
  BY <1>1, SelfFacts
<1>3. \A i \in K : formula[F.kids[i]].cap <= c
  BY <1>1, <1>2, FitsFacts
<1>4. K = 1..Len(F.kids) /\ Len(F.kids) \in Nat
  BY <1>1, RunFacts
<1>5. DOMAIN T = K /\ k \in K /\ \A i \in K : T[i] \in Nat
  <2>1. loc \in LocType /\ DOMAIN T = K /\ k \in K
    BY <1>1, TypeFacts DEF TInv, Control
  <2>2. T \in Seq(Nat)
    BY <2>1 DEF LocType
  <2> QED
    BY <2>1, <2>2, ElementOfSeq, LenProperties
<1>6. /\ \A i \in K : T[i] <= Source(i).cnt
      /\ Cardinality(Taken(T, c)) = dest.cnt
      /\ T[k] < Source(k).cnt
  BY <1>1, <1>5 DEF Cursors
<1>7. DOMAIN new = K /\ new[k] = T[k] + 1 /\ \A i \in K : i # k => new[i] = T[i]
  BY <1>5
<1> HIDE DEF T, k, c, new
<1>8. IsFiniteSet(All) /\ Cardinality(All) <= c
  <2>1. IsFiniteSet(K) /\ IsFiniteSet(0..c)
    <3>1. \A a, b \in Int : IsFiniteSet(a..b)
      BY FS_Interval
    <3> QED
      BY <1>2, <1>4, <3>1
  <2>2. IsFiniteSet(K \X (0..c))
    BY <2>1, FS_Product
  <2>3. IsFiniteSet(All)
    BY <2>2, FS_Subset
  <2>4. Cardinality(All) <= c
    BY <1>1, <1>2, FitsFacts DEF c
  <2> QED
    BY <2>3, <2>4
<1>9. P \in K \X (0..c) /\ P[1] = k /\ P[2] = T[k]
  BY <1>2, <1>3, <1>5, <1>6
<1>10. Taken(new, c) \subseteq All
  <2>1. \A i \in K : new[i] <= formula[F.kids[i]].cap /\ new[i] \in Nat
    BY <1>2, <1>5, <1>6, <1>7
  <2>2. ASSUME NEW s \in K \X (0..c), s[2] < new[s[1]]
        PROVE  s \in All
    <3>1. s[1] \in K /\ s[2] \in Nat
      BY <1>2
    <3> QED
      BY <1>2, <2>1, <2>2, <3>1
  <2> QED
    BY <1>7, <2>2 DEF Taken
<1>11. Taken(new, c) = Taken(T, c) \cup {P}
  <2>1. ASSUME NEW s \in K \X (0..c)
        PROVE  s[2] < new[s[1]] <=> (s[2] < T[s[1]] \/ s = P)
    <3>1. s[1] \in K /\ s[2] \in Nat /\ s = <<s[1], s[2]>>
      BY <1>2
    <3>2. CASE s[1] = k
      BY <1>5, <1>7, <3>1, <3>2
    <3>3. CASE s[1] # k
      BY <1>7, <3>1, <3>3
    <3> QED
      BY <3>2, <3>3
  <2> HIDE DEF P
  <2> QED
    BY <1>5, <1>7, <1>9, <2>1 DEF Taken
<1>12. P \notin Taken(T, c)
  BY <1>5, <1>9 DEF Taken
<1>13. IsFiniteSet(Taken(new, c)) /\ Cardinality(Taken(new, c)) <= Cardinality(All)
  BY <1>8, <1>10, FS_Subset
<1>14. IsFiniteSet(Taken(T, c))
  BY <1>11, <1>13, FS_Subset
<1>15. Cardinality(Taken(new, c)) = dest.cnt + 1
  BY <1>6, <1>11, <1>12, <1>14, FS_AddElement
<1>16. dest.cnt + 1 <= c
  <2>1. dest.cnt \in Nat /\ Cardinality(All) \in Nat
    BY <1>1, <1>8, SelfFacts, FS_CardinalityType
  <2>2. dest.cnt + 1 <= Cardinality(All)
    BY <1>13, <1>15
  <2> HIDE DEF All
  <2> QED
    BY <1>2, <1>8, <2>1, <2>2
<1> QED
  BY <1>15, <1>16 DEF new, T, k, c

-----------------------------------------------------------------------------
(* Annotations                                                             *)

LEMMA ScalarEmpty ==
  ASSUME TInv, Safe, In("ANN", "visit"), Visited, Scalar(formula, F.kids[1])
  PROVE  Source(1).cnt = 0
<1>1. status = "run" /\ F.kind = "ANN" /\ self \in Nodes /\ F = formula[self]
  BY RunFacts DEF In
<1>2. 1 \in DOMAIN F.kids
  BY <1>1, SeqFirst, RunFacts
<1>3. F.kids[1] \in Nodes /\ Source(1) = aw[F.kids[1]]
  BY <1>1, <1>2, RunFacts DEF Source
<1>4. Top.i # 0
  <2>1. Len(F.kids) # 0
    BY <1>1, <1>2, RunFacts
  <2> QED
    BY <2>1 DEF Visited
<1>5. CASE formula[F.kids[1]].kind = "AWCET"
  BY <1>2, <1>4, <1>5 DEF Safe, Asked, ScalarCallee
<1>6. CASE formula[F.kids[1]].kind = "CONST" /\ formula[F.kids[1]].eta = <<>>
  <2>1. HeaderInv(F.kids[1], Source(1))
    BY <1>3 DEF Safe
  <2> QED
    BY <1>6, <2>1 DEF HeaderInv, Points
<1> QED
  BY <1>5, <1>6 DEF Scalar

LEMMA AnnFits ==
  ASSUME TInv, Safe, Fits(formula), In("ANN", "visit"), Visited
  PROVE  /\ self \in Nodes /\ F.kids[1] \in Nodes /\ 1 \in DOMAIN F.kids
         /\ Source(1) = aw[F.kids[1]] /\ Source(1) \in Header
         /\ Ann.count \in Nat \cup {-1} /\ Ann.count <= F.cap
         /\ Ann.count = -1 => formula[F.kids[1]].cap <= F.cap
         /\ MayShare(formula, self) => Ann.count <= Room(formula, F.kids[1])
         /\ ~MayShare(formula, self) => ~AnnKept
<1>1. status = "run" /\ F.kind = "ANN" /\ self \in Nodes /\ F = formula[self]
      /\ val \in Valuations /\ Ann = AnnOf(val, formula[self])
  BY RunFacts DEF In, TInv, TypeOK, Ann
<1>2. 1 \in DOMAIN F.kids
  BY <1>1, SeqFirst, RunFacts
<1>3. F.kids[1] \in Nodes /\ Source(1) = aw[F.kids[1]] /\ Source(1) \in Header
  BY <1>1, <1>2, RunFacts DEF Source
<1>4. /\ -1 <= Ann.count /\ Ann.count <= F.cap
      /\ Ann.count = -1 => formula[F.kids[1]].cap <= F.cap
      /\ MayShare(formula, self) => Ann.count <= Room(formula, F.kids[1])
  BY <1>1, FitsFacts
<1>5. ASSUME ~MayShare(formula, self)
      PROVE  ~AnnKept
  <2>1. Scalar(formula, F.kids[1]) /\ Ann.count # -1
    BY <1>1, <1>5 DEF MayShare
  <2>2. Source(1).cnt = 0
    BY <2>1, ScalarEmpty
  <2> QED
    BY <2>1, <2>2 DEF AnnKept, Conflict
<1> QED
  BY <1>1, <1>2, <1>3, <1>4, <1>5, AnnFacts

\* The array an annotation cuts its values into has the cells.
LEMMA CutSpans ==
  ASSUME TInv, Safe, Fits(formula), In("ANN", "visit"), Visited, ~AnnKept
  PROVE  Ann.count \in Nat /\ Spans(dest.eta, Ann.count)
<1> DEFINE kid == F.kids[1]
           c == Ann.count
<1>1. status = "run" /\ F.kind = "ANN"
  BY DEF In
<1>2. c \in Nat /\ c <= F.cap /\ kid \in Nodes
      /\ (MayShare(formula, self) => c <= Room(formula, kid))
  BY AnnFits DEF AnnKept
<1>3. /\ F = formula[self] /\ HeaderInv(self, dest) /\ F.cap \in Nat
      /\ Len(mem[self]) = F.cap /\ self # NULL
  BY <1>1, SelfFacts
<1> HIDE DEF c, kid
<1>4. CASE dest.eta = self
  BY <1>2, <1>3, <1>4 DEF Spans, c
<1>5. CASE dest.eta # self
  <2>1. c <= Room(formula, kid) /\ (dest.eta = kid \/ Room(formula, kid) = 0)
    BY <1>1, <1>2, <1>3, <1>5 DEF HeaderInv, Points, kid
  <2>2. Room(formula, kid) \in Nat
        /\ (Room(formula, kid) # 0 => Len(mem[kid]) = Room(formula, kid) /\ kid # NULL)
    BY <1>2, RoomFacts
  <2>3. CASE Room(formula, kid) = 0
    BY <1>2, <2>1, <2>3 DEF Spans, c
  <2>4. CASE Room(formula, kid) # 0
    BY <1>2, <2>1, <2>2, <2>4 DEF Spans, c
  <2> QED
    BY <2>3, <2>4
<1> QED
  BY <1>2, <1>4, <1>5 DEF c

-----------------------------------------------------------------------------
(* What a step needs is there                                              *)

LEMMA SafeAccess ==
  ASSUME TInv, Safe, Fits(formula), status = "run"
  PROVE  AccessOk /\ ~AltAbort
<1>1. self \in Nodes /\ F = formula[self]
  BY RunFacts
<1>2. loc \in LocType
  BY TypeFacts DEF TInv
<1> DEFINE single == F.kind \in {"LOOP", "PARAM_LOOP", "ANN", "INTMULT"}
<1>3. single => 1 \in DOMAIN F.kids
  BY SeqFirst, RunFacts
<1>4. In("SEQ", "clear") => Spans(dest.eta, (dest.cnt + 1) \div 2)
  <2>1. ASSUME NEW c \in Nat
        PROVE  (c + 1) \div 2 \in Nat /\ (c + 1) \div 2 <= c
    BY Z3
  <2>2. dest.cnt \in Nat
    BY SelfFacts
  <2> QED
    BY <2>1, <2>2, SelfFacts, HeaderSpans
<1>5. In("SEQ", "sum") => /\ Spans(dest.eta, dest.cnt)
                         /\ Spans(Source(loc.k + 1).eta, Source(loc.k + 1).cnt)
  <2>1. ASSUME In("SEQ", "sum")
        PROVE  loc.k + 1 \in DOMAIN F.kids
    BY <2>1, <1>2, RunFacts DEF In, TInv, Control, LocType
  <2> QED
    BY <2>1, SelfFacts, HeaderSpans
<1>6. In("ALT", "merge") => \A i \in DOMAIN loc.tab :
        loc.tab[i] # Source(i).cnt => Exists(Source(i), loc.tab[i])
  <2> SUFFICES ASSUME In("ALT", "merge"), NEW i \in DOMAIN loc.tab,
                      loc.tab[i] # Source(i).cnt
               PROVE  Exists(Source(i), loc.tab[i])
    OBVIOUS
  <2>1. i \in DOMAIN F.kids /\ loc.tab[i] \in Nat
    BY <1>2, ElementOfSeq, LenProperties DEF In, TInv, Control, LocType
  <2>2. loc.tab[i] <= Source(i).cnt
    BY DEF Safe, Cursors
  <2>3. /\ Source(i) \in Header /\ Source(i).cnt \in Nat
        /\ HeaderInv(F.kids[i], Source(i))
    BY <2>1, SelfFacts
  <2> QED
    BY <2>1, <2>2, <2>3, HeaderReadable
<1>7. In("ALT", "take") => /\ Exists(Source(loc.k), loc.tab[loc.k])
                          /\ Spans(dest.eta, dest.cnt + 1)
  <2> SUFFICES ASSUME In("ALT", "take")
               PROVE  /\ Exists(Source(loc.k), loc.tab[loc.k])
                      /\ Spans(dest.eta, dest.cnt + 1)
    OBVIOUS
  <2>1. loc.ph = "take" /\ F.kind = "ALT"
    BY DEF In
  <2>2. loc.k \in DOMAIN F.kids /\ loc.tab[loc.k] \in Nat
    BY <1>2, <2>1, ElementOfSeq, LenProperties DEF TInv, Control, LocType
  <2>3. Exists(Source(loc.k), loc.tab[loc.k])
    <3>1. loc.tab[loc.k] < Source(loc.k).cnt
      BY <2>1 DEF Safe, Cursors
    <3> QED
      BY <2>2, <3>1, SelfFacts, HeaderReadable
  <2>4. dest.cnt + 1 <= F.cap
    BY TakenCount
  <2>5. dest.eta = self /\ Len(mem[self]) = F.cap /\ self # NULL
    BY <2>1, SelfFacts DEF Owners
  <2> QED
    BY <2>3, <2>4, <2>5 DEF Spans
<1>8. AtLoop("first") /\ loc.k < loc.bound => Readable(Source(1), loc.k)
  BY <1>2, <1>3, SelfFacts, HeaderReadable DEF AtLoop, In, LocType
<1>9. AtLoop("pack") /\ loc.k < dest.cnt =>
        /\ loc.bound > 0 => Readable(Source(1), loc.j + loc.k * loc.bound)
        /\ Spans(dest.eta, loc.k + 1)
  <2>1. loc.j \in Nat /\ loc.k \in Nat /\ loc.bound \in Int
    BY <1>2 DEF LocType
  <2>2. loc.bound > 0 => loc.k * loc.bound \in Nat
    BY <2>1
  <2> DEFINE x == loc.k * loc.bound
  <2>3. loc.bound > 0 => loc.j + x \in Nat
    BY <2>1, <2>2
  <2>4. AtLoop("pack") /\ loc.bound > 0 => Readable(Source(1), loc.j + x)
    BY <1>3, <2>3, SelfFacts, HeaderReadable DEF AtLoop, In
  <2>5. AtLoop("pack") /\ loc.k < dest.cnt => Spans(dest.eta, loc.k + 1)
    <3>1. loc.k + 1 \in Nat /\ dest.cnt \in Nat
      BY <2>1, SelfFacts
    <3>2. loc.k < dest.cnt => loc.k + 1 <= dest.cnt
      BY <2>1, <3>1
    <3> QED
      BY <3>1, <3>2, SelfFacts, HeaderSpans
  <2> QED
    BY <2>4, <2>5
<1>10. In("INTMULT", "visit") /\ Visited => /\ Spans(Source(1).eta, Source(1).cnt)
                                           /\ Spans(dest.eta, Source(1).cnt)
  <2> SUFFICES ASSUME F.kind = "INTMULT"
               PROVE  /\ Spans(Source(1).eta, Source(1).cnt)
                      /\ Spans(dest.eta, Source(1).cnt)
    BY DEF In
  <2>1. 1 \in DOMAIN F.kids
    BY <1>3
  <2>2. formula[F.kids[1]].cap <= F.cap
    BY <1>1, <2>1, FitsFacts
  <2>3. Source(1) \in Header /\ HeaderInv(F.kids[1], Source(1))
        /\ Source(1).cnt <= formula[F.kids[1]].cap /\ formula[F.kids[1]].cap \in Nat
    BY <2>1, SelfFacts
  <2>4. Source(1).cnt \in Nat /\ Source(1).cnt <= F.cap
    BY <2>1, <2>2, <2>3, SelfFacts
  <2>5. dest.eta = self /\ Len(mem[self]) = F.cap /\ self # NULL
    BY SelfFacts DEF Owners
  <2>6. Spans(Source(1).eta, Source(1).cnt)
    BY <2>3, <2>4, HeaderSpans
  <2> QED
    BY <2>4, <2>5, <2>6 DEF Spans
<1>11. In("ANN", "visit") /\ Visited /\ ~AnnKept =>
         /\ \A j \in 0..(Ann.count - 1) : Readable(Source(1), j)
         /\ Spans(dest.eta, Ann.count)
  <2> SUFFICES ASSUME In("ANN", "visit"), Visited, ~AnnKept
               PROVE  /\ \A j \in 0..(Ann.count - 1) : Readable(Source(1), j)
                      /\ Spans(dest.eta, Ann.count)
    OBVIOUS
  <2>1. Ann.count \in Nat /\ Spans(dest.eta, Ann.count)
    BY CutSpans
  <2>2. Source(1) \in Header /\ HeaderInv(F.kids[1], Source(1))
    BY <1>3, SelfFacts DEF In
  <2>3. \A j \in 0..(Ann.count - 1) : j \in Nat
    BY <2>1
  <2> QED
    BY <2>1, <2>2, <2>3, HeaderReadable
<1>12. loc.ph = "done" /\ Len(stack) = 1 /\ dest.cnt # 0 => Exists(dest, 0)
  BY SelfFacts, HeaderReadable
<1>13. ~AltAbort
  <2>1. F.kind = "ALT" => Len(F.kids) <= AltMax
    BY <1>1, FitsFacts
  <2> QED
    BY <2>1, RunFacts, RuntimeAssumption DEF AltAbort, In
<1> QED
  BY <1>4, <1>5, <1>6, <1>7, <1>8, <1>9, <1>10, <1>11, <1>12, <1>13 DEF AccessOk


-----------------------------------------------------------------------------
(* The recursion                                                           *)

LEMMA CallSafe ==
  ASSUME TInv, Safe, NEW v \in Valuations, Call(v)
  PROVE  Safe'
<1> DEFINE fr == [node |-> Root, i |-> 0, hdr |-> aw[Root]]
<1>1. stack' = <<fr>> /\ UNCHANGED <<formula, loc, aw, mem>> /\ status' = "run"
  BY DEF Call, Frame
<1>2. HeaderInv(Root, aw[Root])
  BY RuntimeAssumption DEF Safe
<1>3. fr.node = Root /\ fr.hdr = aw[Root]
  OBVIOUS
<1> HIDE DEF fr
<1>4. stack'[1] = fr /\ Len(stack') = 1
  BY <1>1
<1>5. \A d \in 1..Len(stack') : HeaderInv(stack'[d].node, stack'[d].hdr)
  BY <1>2, <1>3, <1>4
<1>6. loc'.ph = "visit"
  BY <1>1, FinishedType DEF Call, TInv, Control
<1>7. Asked'
  <2>1. Top'.i = 0
    BY <1>1, <1>4, HeadTailProperties DEF Top, fr
  <2> QED
    BY <1>6, <2>1 DEF Asked, In
<1> QED
  BY <1>1, <1>4, <1>5, <1>6, <1>7 DEF Safe, In, HeaderInv, Points

LEMMA EnterSafe ==
  ASSUME TInv, Safe, status = "run", loc.ph = "visit", ~Visited, Enter
  PROVE  Safe'
<1> DEFINE kid == F.kids[Top.i + 1]
           a == [node |-> kid, i |-> 0, hdr |-> aw[kid]]
           b == [Top EXCEPT !.i = Top.i + 1]
<1>1. Top.i + 1 \in DOMAIN F.kids /\ kid \in Nodes
  BY RunFacts DEF Visited
<1>2. a \in FrameType /\ a.node = kid /\ a.hdr = aw[kid]
  BY <1>1 DEF FrameType, TInv, TypeOK
<1>3. b \in FrameType /\ b.node = Top.node /\ b.hdr = Top.hdr
  BY RunFacts, SMTT(40) DEF FrameType
<1>4. stack' = <<a, b>> \o Tail(stack) /\ UNCHANGED <<formula, status, loc, aw, mem>>
  BY DEF Enter, Frame
<1>5. HeaderInv(kid, aw[kid])
  BY <1>1 DEF Safe
<1>6. self = Top.node /\ F = formula[Top.node]
  BY RunFacts DEF self
<1> HIDE DEF a, b, kid
<1>7. stack \in Seq(FrameType) /\ stack # <<>> /\ Len(stack) \in Nat \ {0} /\ Top = stack[1]
  BY RunFacts, EmptySeq
<1>8. /\ Len(stack') = Len(stack) + 1
      /\ \A d \in 1..(Len(stack) + 1) :
           stack'[d] = IF d = 1 THEN a ELSE IF d = 2 THEN b ELSE stack[d - 1]
  BY <1>2, <1>3, <1>4, <1>7, PushFacts
<1>9. ASSUME NEW d \in 1..Len(stack')
      PROVE  HeaderInv(stack'[d].node, stack'[d].hdr)
  <2>1. CASE d = 1
    BY <1>2, <1>5, <1>7, <1>8, <2>1
  <2>2. CASE d # 1
    <3>1. d - 1 \in 1..Len(stack)
      BY <1>7, <1>8, <2>2
    <3>2. stack'[d].node = stack[d - 1].node /\ stack'[d].hdr = stack[d - 1].hdr
      BY <1>3, <1>7, <1>8, <2>2
    <3> QED
      BY <3>1, <3>2 DEF Safe
  <2> QED
    BY <2>1, <2>2
<1>10. ASSUME NEW d \in 1..(Len(stack') - 1)
       PROVE  \E i \in DOMAIN formula[stack'[d + 1].node].kids :
                formula[stack'[d + 1].node].kids[i] = stack'[d].node
  <2>1. d \in 1..Len(stack) /\ d + 1 \in 1..(Len(stack) + 1)
    BY <1>7, <1>8
  <2>2. CASE d = 1
    <3>1. stack'[d].node = kid /\ stack'[d + 1].node = Top.node
      BY <1>2, <1>3, <1>7, <1>8, <2>2, <2>1
    <3>2. kid = formula[Top.node].kids[Top.i + 1] /\ Top.i + 1 \in DOMAIN formula[Top.node].kids
      BY <1>1, <1>6 DEF kid
    <3> QED
      BY <3>1, <3>2
  <2>3. CASE d # 1
    <3>1. d - 1 \in 1..(Len(stack) - 1) /\ (d - 1) + 1 = d
      BY <1>7, <2>1, <2>3
    <3>2. stack'[d].node = stack[d - 1].node /\ stack'[d + 1].node = stack[d].node
      BY <1>3, <1>7, <1>8, <2>1, <2>3
    <3> QED
      BY <3>1, <3>2 DEF Safe
  <2> QED
    BY <2>2, <2>3
<1>11. Asked'
  <2>1. a.i = 0
    BY DEF a
  <2>2. stack' # <<>> /\ stack'[1] = a
    BY <1>7, <1>8
  <2>3. Top'.i = 0
    BY <1>4, <2>1, <2>2 DEF Top
  <2>4. loc'.ph = "visit"
    BY <1>4
  <2> QED
    BY <2>3, <2>4 DEF Asked, In
<1> QED
  BY <1>4, <1>9, <1>10, <1>11 DEF Safe, HeaderInv, Points, In

\* Leaving a node: what remains of the stack keeps the invariant.
LEMMA PopSafe ==
  ASSUME TInv, Safe, status = "run", Len(stack) > 1,
         stack' = Tail(stack), UNCHANGED <<formula, status, mem>>,
         \A n \in Nodes : HeaderInv(n, aw'[n]),
         loc'.ph \in {"visit", "done"}, Asked'
  PROVE  Safe'
<1>1. stack \in Seq(FrameType) /\ Len(stack) \in Nat
  BY RunFacts
<1>2. Len(stack') = Len(stack) - 1 /\ \A d \in 1..Len(stack') : stack'[d] = stack[d + 1]
  BY <1>1, PopFacts
<1>3. ASSUME NEW d \in 1..Len(stack')
      PROVE  HeaderInv(stack'[d].node, stack'[d].hdr)
  <2>1. d + 1 \in 1..Len(stack)
    BY <1>1, <1>2
  <2> QED
    BY <1>2, <2>1 DEF Safe
<1>4. ASSUME NEW d \in 1..(Len(stack') - 1)
      PROVE  \E i \in DOMAIN formula[stack'[d + 1].node].kids :
               formula[stack'[d + 1].node].kids[i] = stack'[d].node
  <2>1. d + 1 \in 1..(Len(stack) - 1) /\ d \in 1..Len(stack') /\ d + 1 \in 1..Len(stack')
    BY <1>1, <1>2
  <2> QED
    BY <1>2, <2>1 DEF Safe
<1> QED
  BY <1>3, <1>4 DEF Safe, HeaderInv, Points, In

\* The node below the one that is left, which is one of its operands.
LEMMA BelowTop ==
  ASSUME TInv, Safe, status = "run", Len(stack) > 1
  PROVE  /\ Tail(stack) # <<>> /\ Head(Tail(stack)) = stack[2]
         /\ stack[2].node \in Nodes
         /\ \E i \in DOMAIN formula[stack[2].node].kids :
              formula[stack[2].node].kids[i] = self
<1>1. stack \in Seq(FrameType) /\ Len(stack) \in Nat /\ Top = stack[1]
      /\ self = stack[1].node
  BY RunFacts DEF self
<1>2. stack[2] \in FrameType
  BY <1>1, ElementOfSeq
<1>3. Tail(stack) # <<>> /\ Head(Tail(stack)) = stack[2]
  BY <1>1, PopFacts
<1>4. 1 \in 1..(Len(stack) - 1)
  BY <1>1
<1>5. \E i \in DOMAIN formula[stack[1 + 1].node].kids :
        formula[stack[1 + 1].node].kids[i] = stack[1].node
  BY <1>4 DEF Safe
<1>6. 1 + 1 = 2
  OBVIOUS
<1> QED
  BY <1>1, <1>2, <1>3, <1>5, <1>6 DEF FrameType

LEMMA LeaveSafe ==
  ASSUME TInv, Safe, Leave
  PROVE  Safe'
<1>1. \A n \in Nodes : HeaderInv(n, aw'[n])
  BY DEF Leave, Safe
<1>2. status = "run" /\ Len(stack) > 1 /\ loc.ph = "done" /\ stack' = Tail(stack)
      /\ loc' = Start /\ UNCHANGED <<formula, status, aw, mem>>
  BY DEF Leave
<1>3. loc'.ph = "visit"
  BY <1>2 DEF Start
<1>4. Asked'
  <2> DEFINE p == stack[2].node
  <2>1. Top' = stack[2] /\ self' = p /\ F' = formula[p] /\ p \in Nodes
    BY <1>2, BelowTop DEF Top, self, F
  <2>2. PICK i \in DOMAIN formula[p].kids : formula[p].kids[i] = self
    BY <1>2, BelowTop
  <2> HIDE DEF p
  <2>3. ASSUME F'.kind = "ANN", NEW j \in DOMAIN F'.kids, ScalarCallee(F'.kids[j])
        PROVE  Source(j)'.cnt = 0
    <3>1. DOMAIN F'.kids = {1}
      BY <2>1, <2>3, FormulaFacts, LenProperties DEF Arity, TInv, Control
    <3>2. F'.kids[j] = self
      BY <2>1, <2>2, <2>3, <3>1
    <3>3. F.kind = "AWCET" /\ ScalarCallee(self) /\ Source(j)' = aw[self]
      BY <1>2, <2>3, <3>2 DEF Source, F, ScalarCallee
    <3> QED
      BY <1>2, <3>3 DEF Safe, Asked, In, dest
  <2>4. \A n : ScalarCallee(n)' <=> ScalarCallee(n)
    BY <1>2 DEF ScalarCallee
  <2> QED
    BY <1>2, <1>3, <2>3, <2>4 DEF Asked, In
<1> QED
  BY <1>1, <1>2, <1>3, <1>4, PopSafe

LEMMA LeaveCopySafe ==
  ASSUME TInv, Safe, Fits(formula), LeaveCopy
  PROVE  Safe'
<1> DEFINE p == stack[2].node
<1>1. status = "run" /\ Len(stack) > 1 /\ formula[p].kind = "BOOLMULT"
  BY DEF LeaveCopy
<1>2. stack \in Seq(FrameType) /\ Len(stack) \in Nat /\ Top = stack[1] /\ self \in Nodes
      /\ self = stack[1].node /\ dest \in Header
  BY <1>1, RunFacts DEF self
<1>3. p \in Nodes
  BY <1>1, BelowTop
<1>4. PICK i \in DOMAIN formula[p].kids : formula[p].kids[i] = self
  BY <1>1, BelowTop
<1>5. HeaderInv(self, dest) /\ HeaderInv(self, Top.hdr)
  <2>1. 1 \in 1..Len(stack)
    BY <1>1, <1>2
  <2> QED
    BY <1>1, <1>2, <2>1, SelfFacts DEF Safe
<1>6. formula[self].cap <= formula[p].cap
  BY <1>1, <1>3, <1>4, FitsFacts
<1>7. formula[self].cap \in Nat /\ formula[p].cap \in Nat
  BY <1>2, <1>3, FormulaFacts DEF TInv, Control
<1>8. HeaderInv(p, dest)
  BY <1>1, <1>2, <1>5, <1>6, <1>7, PointsFree DEF HeaderInv, Header, Owners
<1>9. aw' = [aw EXCEPT ![p] = dest, ![self] = Top.hdr]
  BY DEF LeaveCopy
<1>10. \A n \in Nodes : HeaderInv(n, aw'[n])
  BY <1>5, <1>8, <1>9 DEF Safe, TInv, TypeOK
<1>11. Asked'
  <2>1. F' = formula[p] /\ loc'.ph = "done"
    BY <1>1, BelowTop, FinishedType DEF LeaveCopy, Top, self, F
  <2> QED
    BY <1>1, <2>1 DEF Asked, In
<1> QED
  BY <1>1, <1>10, <1>11, FinishedType, PopSafe DEF LeaveCopy

LEMMA ReturnSafe ==
  ASSUME TInv, Safe, Return
  PROVE  Safe'
<1>1. stack' = <<>> /\ Len(stack') = 0
  BY DEF Return
<1> QED
  BY <1>1 DEF Return, Safe, HeaderInv, Points, In, Asked

-----------------------------------------------------------------------------
(* The awcet_ functions                                                    *)

LEMMA DomainLen ==
  ASSUME TypeOK, TypeOK', \A c \in Buffers : DOMAIN mem'[c] = DOMAIN mem[c]
  PROVE  \A c \in Buffers : Len(mem'[c]) = Len(mem[c])
<1>1. ASSUME NEW c \in Buffers
      PROVE  Len(mem'[c]) = Len(mem[c])
  <2>1. mem[c] \in Seq(Int) /\ mem'[c] \in Seq(Int)
    BY DEF TypeOK
  <2>2. DOMAIN mem'[c] = DOMAIN mem[c]
    OBVIOUS
  <2> QED
    BY <2>1, <2>2, LenProperties
<1> QED
  BY <1>1

LEMMA ConstNodeSafe ==
  ASSUME TInv, Safe, ConstNode
  PROVE  Safe'
<1>1. status = "run" /\ F.kind = "CONST" /\ Go(Finished) /\ UNCHANGED mem
  BY DEF ConstNode, In
<1> QED
  BY <1>1, FinishedType, LenKept, GoSafe

LEMMA AwcetNodeSafe ==
  ASSUME TInv, Safe, Fits(formula), AwcetNode
  PROVE  Safe'
<1> DEFINE p == val.aw[F.param]
           h == [loop |-> IF p.header THEN p.loop ELSE dest.loop,
                 cnt |-> IF p.header THEN p.cnt ELSE dest.cnt,
                 eta |-> p.eta, others |-> p.others]
<1>1. status = "run" /\ F.kind = "AWCET" /\ UNCHANGED mem /\ Put(h, Finished)
  BY DEF AwcetNode, In
<1>2. self \in Nodes /\ F = formula[self] /\ F.cap \in Nat /\ dest \in Header
  BY <1>1, SelfFacts
<1>4. val \in Valuations
  BY DEF TInv, TypeOK
<1>5. /\ p.others \in Nat /\ p.cnt \in Nat /\ p.loop \in Int
      /\ p.eta \in Lists \cup {NULL} /\ p.eta \in Pointers
  BY <1>1, CalleeFacts
<1>6. /\ p.header /\ p.cnt <= F.cap
      /\ p.cnt = 0 \/ (p.eta # NULL /\ p.cnt <= Len(ListValues[p.eta]))
  BY <1>1, <1>2, <1>4, FitsFacts
<1>7. ScalarCallee(self) => p.cnt = 0
  BY <1>1, <1>2, <1>4 DEF ScalarCallee, Scalar
<1> HIDE DEF p
<1>8. h \in Header /\ h.cnt = p.cnt /\ h.eta = p.eta
  BY <1>2, <1>5, <1>6 DEF Header
<1> HIDE DEF h
<1>9. HeaderInv(self, h)
  BY <1>1, <1>2, <1>5, <1>6, <1>8 DEF HeaderInv, Points, Owners, Safe
<1> QED
  BY <1>1, <1>7, <1>8, <1>9, FinishedType, LenKept, PutSafe

LEMMA SeqScanSafe ==
  ASSUME TInv, Safe, Fits(formula), SeqScan
  PROVE  Safe'
<1> DEFINE s == Source(loc.k + 1)
           h == [loop |-> IF loc.k = 0 THEN s.loop ELSE Innermost(s.loop, dest.loop),
                 cnt |-> IF dest.cnt < s.cnt THEN s.cnt ELSE dest.cnt,
                 eta |-> dest.eta,
                 others |-> (IF loc.k = 0 THEN 0 ELSE dest.others) + s.others]
           l == [loc EXCEPT !.k = @ + 1,
                            !.ph = IF loc.k + 1 = Len(F.kids) THEN "clear" ELSE @]
<1>1. status = "run" /\ F.kind = "SEQ" /\ loc.ph = "visit" /\ loc.k < Len(F.kids)
      /\ UNCHANGED mem /\ Put(h, l)
  BY DEF SeqScan, In
<1>2. dest \in Header /\ loc \in LocType /\ self \in Nodes /\ F = formula[self]
  BY <1>1, RunFacts, TypeFacts DEF TInv
<1>3. loc.k + 1 \in DOMAIN F.kids
  BY <1>1, <1>2, RunFacts DEF LocType
<1>4. s \in Header /\ s.cnt \in Nat /\ s.cnt <= F.cap /\ F.cap \in Nat
  <2>1. s \in Header /\ s.cnt \in Nat /\ s.cnt <= formula[F.kids[loc.k + 1]].cap
        /\ formula[F.kids[loc.k + 1]].cap \in Nat /\ F.cap \in Nat
    BY <1>1, <1>3, SelfFacts
  <2>2. formula[F.kids[loc.k + 1]].cap <= F.cap
    BY <1>1, <1>2, <1>3, FitsFacts
  <2> QED
    BY <2>1, <2>2
<1>5. dest.eta = self /\ Len(mem[self]) = F.cap /\ self # NULL /\ dest.cnt <= F.cap
      /\ dest.cnt \in Nat
  BY <1>1, <1>2, SelfFacts DEF Owners, HeaderInv
<1>6. h \in Header /\ h.eta = self /\ h.cnt <= F.cap /\ h.cnt \in Nat
  BY <1>2, <1>4, <1>5 DEF Header, Innermost
<1>7. l.ph \notin {"merge", "take"}
  BY <1>1, <1>2 DEF LocType
<1> HIDE DEF h, l
<1>8. HeaderInv(self, h)
  BY <1>1, <1>2, <1>4, <1>5, <1>6, PointsFree DEF HeaderInv
<1> QED
  BY <1>1, <1>6, <1>7, <1>8, LenKept, PutSafe

LEMMA SeqClearSafe ==
  ASSUME TInv, Safe, SeqClear
  PROVE  Safe'
<1>1. status = "run" /\ F.kind = "SEQ" /\ Go([Start EXCEPT !.ph = "sum"])
  BY DEF SeqClear, In
<1>2. [Start EXCEPT !.ph = "sum"].ph = "sum"
  BY DEF Start
<1>3. \A c \in Buffers : DOMAIN mem'[c] = DOMAIN mem[c]
  BY DEF SeqClear, TInv, TypeOK
<1>4. \A c \in Buffers : Len(mem'[c]) = Len(mem[c])
  BY <1>3, SeqClearType, DomainLen DEF TInv
<1> QED
  BY <1>1, <1>2, <1>4, GoSafe

LEMMA SeqSumSafe ==
  ASSUME TInv, Safe, AccessOk, SeqSum
  PROVE  Safe'
<1> DEFINE l == IF loc.k + 1 = Len(F.kids) THEN Finished ELSE [loc EXCEPT !.k = @ + 1]
<1>1. status = "run" /\ F.kind = "SEQ" /\ loc.ph = "sum" /\ loc \in LocType /\ Go(l)
  BY TypeFacts DEF SeqSum, In, TInv
<1>2. l.ph \in {"sum", "done"}
  BY <1>1, FinishedType DEF LocType
<1>3. \A c \in Buffers : DOMAIN mem'[c] = DOMAIN mem[c]
  BY DEF SeqSum, TInv, TypeOK
<1>4. \A c \in Buffers : Len(mem'[c]) = Len(mem[c])
  BY <1>3, SeqSumType, DomainLen DEF TInv
<1> HIDE DEF l
<1> QED
  BY <1>1, <1>2, <1>4, GoSafe

LEMMA AltScanSafe ==
  ASSUME TInv, Safe, Fits(formula), AltScan
  PROVE  Safe'
<1> DEFINE s == Source(loc.k + 1)
           o == IF loc.k = 0 THEN -1 ELSE dest.others
           h == [loop |-> IF loc.k = 0 THEN s.loop ELSE Innermost(s.loop, dest.loop),
                 cnt |-> 0, eta |-> dest.eta,
                 others |-> IF o < s.others THEN s.others ELSE o]
           z == [i \in DOMAIN F.kids |-> 0]
           m == [Start EXCEPT !.ph = "merge", !.tab = z]
           l == IF loc.k + 1 = Len(F.kids) /\ Len(F.kids) <= AltMax
                THEN m ELSE [loc EXCEPT !.k = @ + 1]
<1>1. status = "run" /\ F.kind = "ALT" /\ loc.ph = "visit" /\ loc.k < Len(F.kids)
      /\ UNCHANGED mem /\ Put(h, l)
  BY DEF AltScan, In
<1>2. dest \in Header /\ loc \in LocType /\ self \in Nodes /\ F = formula[self]
      /\ F.cap \in Nat
  BY <1>1, SelfFacts, TypeFacts DEF TInv
<1>3. s \in Header
  <2>1. loc.k + 1 \in DOMAIN F.kids
    BY <1>1, <1>2, RunFacts DEF LocType
  <2> QED
    BY <1>1, <2>1, RunFacts
<1>4. h \in Header /\ h.cnt = 0 /\ h.eta = dest.eta
  BY <1>2, <1>3 DEF Header, Innermost
<1>5. HeaderInv(self, h)
  <2>1. dest.eta = self
    BY <1>1, SelfFacts DEF Owners
  <2> HIDE DEF h
  <2> QED
    BY <1>1, <1>2, <1>4, <2>1, PointsFree DEF HeaderInv
<1>6. m.ph = "merge" /\ m.tab = z
  BY DEF Start
<1>7. [loc EXCEPT !.k = @ + 1].ph = "visit"
  BY <1>1, <1>2 DEF LocType
<1>8. aw' = [aw EXCEPT ![self] = h] /\ loc' = l
      /\ UNCHANGED <<formula, status, val, stack, result, calls>>
  BY <1>1 DEF Put
<1> HIDE DEF h, m
<1>9. (In("ALT", "merge") \/ In("ALT", "take") => Cursors)'
  <2> SUFFICES ASSUME (In("ALT", "merge") \/ In("ALT", "take"))'
               PROVE  Cursors'
    OBVIOUS
  <2>1. loc' = m
    BY <1>7, <1>8 DEF In
  <2>2. loc'.tab = z /\ loc'.ph = "merge" /\ F' = F /\ self' = self
    BY <1>6, <1>8, <2>1 DEF F, self, Top
  <2>3. dest'.cnt = 0
    BY <1>2, <1>4, <1>8, <2>2 DEF dest, TInv, TypeOK
  <2>4. \A i \in DOMAIN F.kids : Source(i)'.cnt \in Nat
    <3>1. \A i \in DOMAIN F.kids : F.kids[i] \in Nodes /\ F.kids[i] # self
      BY <1>2, FormulaFacts DEF TInv, Control
    <3>2. \A i \in DOMAIN F.kids : Source(i)' = Source(i)
      BY <1>8, <2>2, <3>1 DEF Source, TInv, TypeOK
    <3> QED
      BY <1>1, <3>2, SelfFacts
  <2>5. Taken(z, F.cap) = {}
    BY <1>2 DEF Taken
  <2>6. Cardinality(Taken(loc'.tab, F'.cap)) = dest'.cnt
    BY <2>2, <2>3, <2>5, FS_EmptySet
  <2> QED
    BY <2>2, <2>4, <2>6 DEF Cursors
<1>10. Asked'
  BY <1>1, <1>8 DEF Asked, In, F, self, Top
<1> HIDE DEF l
<1> QED
  BY <1>1, <1>4, <1>5, <1>8, <1>9, <1>10, LenKept, LocalSafe

LEMMA AltSelectSafe ==
  ASSUME TInv, Safe, AltSelect
  PROVE  Safe'
<1>1. status = "run" /\ F.kind = "ALT" /\ In("ALT", "merge") /\ UNCHANGED mem
      /\ loc \in LocType /\ self \in Nodes /\ dest \in Header
  BY RunFacts, TypeFacts DEF AltSelect, In, TInv
<1>2. PICK i \in Candidates : Go([loc EXCEPT !.ph = "take", !.k = i])
  BY DEF AltSelect
<1>3. i \in DOMAIN loc.tab /\ loc.tab[i] # Source(i).cnt
  BY DEF Candidates
<1>4. loc'.ph = "take" /\ loc'.k = i /\ loc'.tab = loc.tab
      /\ UNCHANGED <<formula, status, val, stack, aw, result, calls>>
  BY <1>1, <1>2 DEF Go, LocType
<1>5. F' = F /\ dest' = dest /\ \A j : Source(j)' = Source(j)
  BY <1>4 DEF F, dest, self, Top, Source
<1>6. Cursors
  BY <1>1 DEF Safe
<1>7. i \in DOMAIN F.kids /\ loc.tab[i] \in Nat /\ Source(i).cnt \in Nat
  <2>1. loc.tab \in Seq(Nat) /\ DOMAIN loc.tab = DOMAIN F.kids
    BY <1>1 DEF LocType, TInv, Control, In
  <2> QED
    BY <1>1, <1>3, <2>1, SelfFacts, ElementOfSeq, LenProperties, SMTT(40)
<1>8. Cursors'
  BY <1>3, <1>4, <1>5, <1>6, <1>7 DEF Cursors
<1>9. HeaderInv(self, dest) /\ aw' = [aw EXCEPT ![self] = dest]
  BY <1>1, <1>4 DEF Safe, dest, TInv, TypeOK
<1>10. Asked'
  BY <1>1, <1>5 DEF Asked, In
<1> QED
  BY <1>1, <1>4, <1>8, <1>9, <1>10, LenKept, LocalSafe

LEMMA AltEndSafe ==
  ASSUME TInv, Safe, AltEnd
  PROVE  Safe'
<1>1. status = "run" /\ F.kind = "ALT" /\ Go(Finished) /\ UNCHANGED mem
  BY DEF AltEnd, In
<1> QED
  BY <1>1, FinishedType, LenKept, GoSafe

LEMMA AltTakeSafe ==
  ASSUME TInv, Safe, Fits(formula), AltTake
  PROVE  Safe'
<1> DEFINE h == [dest EXCEPT !.cnt = @ + 1]
           new == [loc.tab EXCEPT ![loc.k] = @ + 1]
<1>1. status = "run" /\ F.kind = "ALT" /\ In("ALT", "take") /\ loc.ph = "take"
      /\ loc \in LocType
  BY TypeFacts DEF AltTake, In, TInv
<1>2. self \in Nodes /\ F = formula[self] /\ F.cap \in Nat /\ dest \in Header
  BY <1>1, SelfFacts
<1>3. Cardinality(Taken(new, F.cap)) = dest.cnt + 1 /\ dest.cnt + 1 <= F.cap
  BY <1>1, TakenCount
<1>4. h \in Header /\ h.cnt = dest.cnt + 1 /\ h.eta = dest.eta
  BY <1>2 DEF Header
<1>5. dest.eta = self /\ Len(mem[self]) = F.cap /\ self # NULL
  BY <1>1, SelfFacts DEF Owners
<1> HIDE DEF h
<1>6. HeaderInv(self, h)
  BY <1>1, <1>2, <1>3, <1>4, <1>5, PointsFree, SelfFacts DEF HeaderInv
<1>7. /\ Put(h, [loc EXCEPT !.ph = "merge", !.tab[loc.k] = @ + 1])
      /\ Store(dest.eta, dest.cnt, Cell(Source(loc.k), loc.tab[loc.k]))
  BY DEF AltTake, h
<1>8. \A b \in Buffers : Len(mem'[b]) = Len(mem[b])
  BY <1>7, StoreLen DEF TInv
<1>9. loc'.ph = "merge" /\ loc'.tab = new
  BY <1>1, <1>7 DEF Put, LocType
<1>10. aw' = [aw EXCEPT ![self] = h]
       /\ UNCHANGED <<formula, status, val, stack, result, calls>>
  BY <1>7 DEF Put
<1>11. F' = F /\ self' = self
  BY <1>10 DEF F, self, Top
<1>12. dest'.cnt = dest.cnt + 1
  BY <1>2, <1>4, <1>10, <1>11 DEF dest, TInv, TypeOK
<1>13. \A i \in DOMAIN F.kids : F.kids[i] # self /\ Source(i)' = Source(i)
  <2>1. \A i \in DOMAIN F.kids : F.kids[i] \in Nodes /\ F.kids[i] # self
    BY <1>2, FormulaFacts DEF TInv, Control
  <2> QED
    BY <1>10, <1>11, <2>1 DEF Source, TInv, TypeOK
<1>14. DOMAIN loc.tab = DOMAIN F.kids /\ loc.k \in DOMAIN loc.tab
  BY <1>1 DEF TInv, Control
<1>15. \A i \in DOMAIN F.kids : loc.tab[i] \in Nat /\ Source(i).cnt \in Nat
  <2>1. loc.tab \in Seq(Nat)
    BY <1>1 DEF LocType
  <2> QED
    BY <1>1, <1>14, <2>1, SelfFacts, ElementOfSeq, LenProperties
<1>16. Cursors
  BY <1>1 DEF Safe
<1>17. \A i \in DOMAIN new : new[i] <= Source(i).cnt
  BY <1>1, <1>14, <1>15, <1>16 DEF Cursors
<1>18. DOMAIN new = DOMAIN F.kids
  BY <1>14
<1> HIDE DEF new
<1>19. Cursors'
  BY <1>3, <1>9, <1>11, <1>12, <1>13, <1>17, <1>18 DEF Cursors
<1>20. Asked'
  BY <1>1, <1>11 DEF Asked, In
<1> QED
  BY <1>1, <1>4, <1>6, <1>8, <1>10, <1>19, <1>20, LocalSafe

LEMMA LoopBoundPositive ==
  ASSUME TInv, Fits(formula), status = "run", F.kind = "LOOP"
  PROVE  Bound > 0 /\ formula[F.kids[1]].cap <= F.cap * Bound
<1>1. self \in Nodes /\ F = formula[self] /\ val \in Valuations
  BY RunFacts DEF TInv, TypeOK
<1> QED
  BY <1>1, FitsFacts DEF Bound

LEMMA LoopZeroSafe ==
  ASSUME TInv, Safe, Fits(formula), LoopZero
  PROVE  Safe'
<1> DEFINE h == [loop |-> LOOP_TOP, cnt |-> 0, eta |-> NULL, others |-> 0]
<1>1. status = "run" /\ F.kind \in {"LOOP", "PARAM_LOOP"} /\ Bound = 0
      /\ UNCHANGED mem /\ Put(h, Finished)
  BY DEF LoopZero, AtLoop, In
<1>2. F.kind \notin Owners
  BY <1>1, LoopBoundPositive DEF Owners
<1>3. HeaderInv(self, h)
  BY <1>1, <1>2, SelfFacts, ZeroHeaderInv
<1> QED
  BY <1>1, <1>3, ZeroHeader, FinishedType, LenKept, PutSafe

LEMMA BoolFalseSafe ==
  ASSUME TInv, Safe, Fits(formula), BoolFalse
  PROVE  Safe'
<1> DEFINE h == [loop |-> LOOP_TOP, cnt |-> 0, eta |-> NULL, others |-> 0]
<1>1. status = "run" /\ F.kind = "BOOLMULT" /\ UNCHANGED mem /\ Put(h, Finished)
  BY DEF BoolFalse, In
<1>2. HeaderInv(self, h)
  BY <1>1, SelfFacts, ZeroHeaderInv DEF Owners
<1> QED
  BY <1>1, <1>2, ZeroHeader, FinishedType, LenKept, PutSafe

LEMMA LoopHeaderSafe ==
  ASSUME TInv, Safe, LoopHeader
  PROVE  Safe'
<1> DEFINE l == [Start EXCEPT !.ph = "first", !.bound = Bound]
<1>1. status = "run" /\ F.kind \in {"LOOP", "PARAM_LOOP"} /\ Go(l) /\ UNCHANGED mem
  BY AtLoopFacts DEF LoopHeader
<1>2. l.ph = "first"
  BY DEF Start
<1> QED
  BY <1>1, <1>2, LenKept, GoSafe

LEMMA LoopSumFirstSafe ==
  ASSUME TInv, Safe, LoopSumFirst
  PROVE  Safe'
<1> DEFINE l == [loc EXCEPT !.k = @ + 1, !.acc = @ + Elem(Source(1), loc.k)]
<1>1. status = "run" /\ F.kind \in {"LOOP", "PARAM_LOOP"} /\ loc.ph = "first"
      /\ loc \in LocType /\ Go(l) /\ UNCHANGED mem
  BY AtLoopFacts DEF LoopSumFirst
<1>2. l.ph = "first"
  BY <1>1 DEF LocType
<1> HIDE DEF l
<1> QED
  BY <1>1, <1>2, LenKept, GoSafe

LEMMA LoopSumOthersSafe ==
  ASSUME TInv, Safe, Fits(formula), LoopSumOthers
  PROVE  Safe'
<1> DEFINE left == IF loc.k < loc.bound THEN loc.bound - loc.k ELSE 0
           h == [loop |-> LOOP_TOP, cnt |-> 0, eta |-> dest.eta,
                 others |-> loc.acc + left * Source(1).others]
<1>1. status = "run" /\ F.kind \in {"LOOP", "PARAM_LOOP"} /\ UNCHANGED mem
      /\ Put(h, Finished) /\ aw' = [aw EXCEPT ![self] = h]
  BY AtLoopFacts DEF LoopSumOthers, Put
<1>2. h \in Header
  <2>1. TInv' /\ self \in Nodes
    BY <1>1, LoopSumOthersType, RunFacts
  <2>2. aw'[self] = h
    BY <1>1, <2>1 DEF TInv, TypeOK
  <2> QED
    BY <2>1, <2>2, SMTT(40) DEF TInv, TypeOK
<1>3. h.cnt = 0 /\ h.eta = dest.eta
  OBVIOUS
<1> HIDE DEF h
<1>4. HeaderInv(self, h)
  BY <1>1, <1>3, SelfFacts, PointsFree DEF HeaderInv
<1> QED
  BY <1>1, <1>2, <1>4, FinishedType, LenKept, PutSafe

LEMMA PackedNat ==
  ASSUME NEW c \in Nat, Bound \in Nat, Bound > 0
  PROVE  Packed(c) = (c \div Bound) + IF c % Bound = 0 THEN 0 ELSE 1
BY DEF Packed, Quotient, Magnitude

\* cnt values make no more packs than the array of a loop has cells.
LEMMA PackedFits ==
  ASSUME NEW c \in Nat, NEW cap \in Nat, Bound \in Nat, Bound > 0, c <= cap * Bound
  PROVE  Packed(c) \in Nat /\ Packed(c) <= cap /\ Packed(c) <= c
<1> DEFINE b == Bound
           q == c \div b
           r == c % b
<1>1. b \in Nat /\ b > 0
  OBVIOUS
<1> HIDE DEF b
<1>2. q \in Nat /\ r \in 0..(b - 1) /\ c = b * q + r
  BY <1>1, Z3
<1>3. Packed(c) = q + IF r = 0 THEN 0 ELSE 1
  BY PackedNat DEF b
<1>4. c <= cap * b
  BY DEF b
<1> HIDE DEF q, r
<1>5. q <= c
  <2>1. q <= b * q
    BY <1>1, <1>2, Z3
  <2>2. b * q \in Nat
    BY <1>1, <1>2
  <2> QED
    BY <1>2, <2>1, <2>2
<1>6. q <= cap
  <2> SUFFICES ASSUME q > cap PROVE FALSE
    BY <1>2
  <2>1. q >= cap + 1
    BY <1>2
  <2>2. q * b >= (cap + 1) * b
    BY <1>1, <1>2, <2>1, Z3
  <2>3. (cap + 1) * b = cap * b + b
    BY <1>1, Z3
  <2>4. b * q = q * b
    BY <1>1, <1>2, Z3
  <2> QED
    BY <1>1, <1>2, <1>4, <2>2, <2>3, <2>4
<1>7. r # 0 => q < cap /\ q < c
  <2> SUFFICES ASSUME r # 0 PROVE q < cap /\ q < c
    OBVIOUS
  <2>1. q # cap
    <3> SUFFICES ASSUME q = cap PROVE FALSE
      OBVIOUS
    <3>1. b * q = cap * b
      BY <1>1, Z3
    <3>2. b * q \in Nat
      BY <1>1, <1>2
    <3> QED
      BY <1>2, <1>4, <3>1, <3>2
  <2>2. q < c
    <3>1. q <= b * q /\ b * q \in Nat
      BY <1>1, <1>2, Z3
    <3> QED
      BY <1>2, <3>1
  <2> QED
    BY <1>2, <1>6, <2>1, <2>2
<1> QED
  BY <1>2, <1>3, <1>5, <1>6, <1>7

LEMMA LoopOuterSafe ==
  ASSUME TInv, Safe, Fits(formula), LoopOuter
  PROVE  Safe'
<1> DEFINE s == Source(1)
           c == Packed(s.cnt)
           h(e) == [loop |-> s.loop, cnt |-> c, eta |-> e, others |-> s.others * Bound]
           l == [Start EXCEPT !.ph = "pack", !.bound = Bound]
           used == {g.eta : g \in {aw[n] : n \in Nodes} \cup {stack[d].hdr : d \in DOMAIN stack}}
<1>1. status = "run" /\ F.kind \in {"LOOP", "PARAM_LOOP"} /\ s \in Header
      /\ dest \in Header /\ Bound \in Nat /\ Bound # 0
  BY AtLoopFacts, LoopBoundPositive DEF LoopOuter
<1>2. self \in Nodes /\ F = formula[self] /\ F.cap \in Nat
  BY <1>1, SelfFacts
<1>3. 1 \in DOMAIN F.kids
  BY <1>1, SeqFirst, RunFacts
<1>4. s.cnt \in Nat /\ s.cnt <= formula[F.kids[1]].cap /\ formula[F.kids[1]].cap \in Nat
  BY <1>1, <1>3, SelfFacts
<1>5. c \in Nat /\ c <= F.cap
  <2>1. CASE F.kind = "LOOP"
    <3>1. formula[F.kids[1]].cap <= F.cap * Bound /\ Bound > 0
      BY <1>1, <2>1, LoopBoundPositive
    <3>2. F.cap * Bound \in Nat
      BY <1>1, <1>2
    <3>3. s.cnt <= F.cap * Bound
      BY <1>4, <3>1, <3>2
    <3> QED
      BY <1>1, <1>2, <1>4, <3>1, <3>3, PackedFits
  <2>2. CASE F.kind = "PARAM_LOOP"
    <3>1. formula[F.kids[1]].cap <= F.cap
      BY <1>2, <1>3, <2>2, FitsFacts
    <3>2. s.cnt <= s.cnt * Bound
      BY <1>1, <1>4, Z3
    <3>3. c \in Nat /\ c <= s.cnt
      BY <1>1, <1>4, <3>2, PackedFits
    <3> QED
      BY <1>2, <1>4, <3>1, <3>3
  <2> QED
    BY <1>1, <2>1, <2>2
<1>6. s.others * Bound \in Int /\ s.loop \in Int
  BY <1>1 DEF Header
<1>7. l.ph = "pack"
  BY DEF Start
<1>8. CASE F.kind = "LOOP" /\ Put(h(dest.eta), l) /\ UNCHANGED mem
  <2>1. dest.eta = self /\ self # NULL /\ Len(mem[self]) = F.cap
    BY <1>1, <1>8, SelfFacts DEF Owners
  <2> DEFINE g == h(dest.eta)
  <2>2. g \in Header /\ g.cnt = c /\ g.eta = self
    BY <1>1, <1>5, <1>6, <2>1 DEF Header
  <2> HIDE DEF g, c
  <2>3. HeaderInv(self, g)
    BY <1>1, <1>2, <1>5, <2>1, <2>2, PointsFree DEF HeaderInv
  <2>4. Put(g, l)
    BY <1>8 DEF g, c
  <2> HIDE DEF l
  <2> QED
    BY <1>1, <1>7, <1>8, <2>2, <2>3, <2>4, LenKept, PutSafe
<1>9. ASSUME F.kind = "PARAM_LOOP", NEW b \in Heap \ used, Put(h(b), l),
             mem' = [mem EXCEPT ![b] = [j \in 1..c |-> 0]]
      PROVE  Safe'
  <2> DEFINE g == h(b)
  <2>1. b \in Pointers /\ b # NULL /\ b \in Buffers /\ b \notin Nodes
    BY RuntimeAssumption DEF Pointers, Buffers
  <2>2. g \in Header /\ g.cnt = c /\ g.eta = b
    BY <1>1, <1>5, <1>6, <2>1 DEF Header
  <2>3. aw' = [aw EXCEPT ![self] = g] /\ loc' = l
        /\ UNCHANGED <<formula, status, val, stack, result, calls>>
    BY <1>9 DEF Put
  <2> HIDE DEF g, c, l
  <2>4. mem \in [Buffers -> Seq(Int)] /\ aw \in [Nodes -> Header]
        /\ stack \in Seq(FrameType)
    BY TypeFacts DEF TInv, TypeOK
  <2>5. mem'[b] = [j \in 1..c |-> 0] /\ \A x \in Buffers \ {b} : mem'[x] = mem[x]
    BY <1>9, <2>1, <2>4
  <2>6. Len(mem'[b]) = c
    BY <1>5, <2>5
  \* HeaderInv over the new memory
  <2> DEFINE New(n, x) ==
        /\ x.cnt >= 0
        /\ x.cnt = 0 \/ (x.eta # NULL /\ x.cnt <= Len(mem'[x.eta]))
        /\ x.cnt <= formula[n].cap
        /\ formula[n].kind \in Owners => x.eta = n
        /\ Points(n, x)
  \* a header that does not point to the new block keeps its invariant
  <2>7. ASSUME NEW n \in Nodes, NEW x \in Header, HeaderInv(n, x), x.eta # b
        PROVE  New(n, x)
    <3>1. x.eta \in Pointers
      BY DEF Header
    <3>2. x.eta = NULL \/ mem'[x.eta] = mem[x.eta]
      BY <2>5, <2>7, <3>1 DEF Pointers
    <3> QED
      BY <2>7, <3>2 DEF HeaderInv
  <2>8. New(self, g)
    BY <1>2, <1>5, <1>9, <2>1, <2>2, <2>6, PointsFree DEF Owners
  <2>9. ASSUME NEW n \in Nodes
        PROVE  New(n, aw'[n])
    <3>1. CASE n = self
      <4>1. aw'[n] = g
        BY <2>3, <2>4, <3>1
      <4> QED
        BY <2>8, <3>1, <4>1
    <3>2. CASE n # self
      <4>1. aw'[n] = aw[n] /\ aw[n] \in Header /\ HeaderInv(n, aw[n])
        BY <2>3, <2>4, <3>2 DEF Safe
      <4>2. aw[n].eta # b
        OBVIOUS
      <4> QED
        BY <2>7, <4>1, <4>2
    <3> QED
      BY <3>1, <3>2
  <2>10. ASSUME NEW d \in 1..Len(stack)
         PROVE  New(stack[d].node, stack[d].hdr)
    <3>1. stack[d] \in FrameType /\ d \in DOMAIN stack
      BY <2>4, ElementOfSeq, LenProperties
    <3>2. stack[d].node \in Nodes /\ stack[d].hdr \in Header
          /\ HeaderInv(stack[d].node, stack[d].hdr)
      BY <3>1 DEF FrameType, Safe
    <3>3. stack[d].hdr.eta # b
      BY <3>1
    <3> QED
      BY <2>7, <3>2, <3>3
  <2>11. \A n \in Nodes :
           /\ formula'[n].kind \in Owners \cup {"ANN"} => Len(mem'[n]) = formula'[n].cap
           /\ formula'[n].kind = "CONST" => Len(mem'[n]) = Len(formula'[n].eta)
    BY <2>1, <2>3, <2>5 DEF Safe, Buffers
  <2>14. \A y \in Lists : Len(mem'[y]) = Len(ListValues[y])
    BY <2>5, RuntimeAssumption DEF Safe, Buffers
  <2>12. ~(In("ALT", "merge") \/ In("ALT", "take"))'
    BY <1>7, <2>3 DEF In
  <2>13. Asked'
    BY <1>9, <2>3 DEF Asked, In, F, self, Top
  <2> QED
    BY <1>1, <2>3, <2>9, <2>10, <2>11, <2>12, <2>13, <2>14 DEF Safe, HeaderInv, Points
<1>10. \/ F.kind = "LOOP" /\ Put(h(dest.eta), l) /\ UNCHANGED mem
       \/ F.kind = "PARAM_LOOP" /\ \E b \in Heap \ used :
            Put(h(b), l) /\ mem' = [mem EXCEPT ![b] = [j \in 1..c |-> 0]]
  BY DEF LoopOuter
<1> HIDE DEF h, l, c, used
<1> QED
  BY <1>8, <1>9, <1>10

LEMMA LoopPackSafe ==
  ASSUME TInv, Safe, LoopPack
  PROVE  Safe'
<1> DEFINE sum == IF loc.bound > 0
                  THEN loc.acc + Elem(Source(1), loc.j + loc.k * loc.bound) ELSE 0
           m == [loc EXCEPT !.j = @ + 1, !.acc = sum]
           n == [loc EXCEPT !.k = @ + 1, !.j = 0, !.acc = 0]
<1>1. status = "run" /\ F.kind \in {"LOOP", "PARAM_LOOP"} /\ loc.ph = "pack"
      /\ loc \in LocType
  BY AtLoopFacts DEF LoopPack
<1>2. \/ Go(m) /\ UNCHANGED mem
      \/ Go(n) /\ Store(dest.eta, loc.k, sum)
  BY DEF LoopPack
<1>3. m.ph = "pack" /\ n.ph = "pack"
  BY <1>1 DEF LocType
<1> HIDE DEF sum, m, n
<1>4. \A b \in Buffers : Len(mem'[b]) = Len(mem[b])
  BY <1>2, LenKept, StoreLen DEF TInv
<1> QED
  BY <1>1, <1>2, <1>3, <1>4, GoSafe

LEMMA LoopPackedSafe ==
  ASSUME TInv, Safe, LoopPacked
  PROVE  Safe'
<1>1. status = "run" /\ F.kind \in {"LOOP", "PARAM_LOOP"} /\ Go(Finished) /\ UNCHANGED mem
  BY AtLoopFacts DEF LoopPacked
<1> QED
  BY <1>1, FinishedType, LenKept, GoSafe

LEMMA IntMultSafe ==
  ASSUME TInv, Safe, AccessOk, IntMult
  PROVE  Safe'
<1> DEFINE h == [dest EXCEPT !.others = Source(1).others * F.coef]
<1>1. status = "run" /\ F.kind = "INTMULT" /\ Put(h, Finished)
      /\ aw' = [aw EXCEPT ![self] = h]
  BY DEF IntMult, In, Put
<1>2. self \in Nodes /\ dest \in Header /\ HeaderInv(self, dest)
  BY <1>1, RunFacts DEF Safe, dest
<1>3. h.cnt = dest.cnt /\ h.eta = dest.eta
  BY <1>2 DEF Header
<1>4. TInv'
  BY IntMultType
<1> HIDE DEF h
<1>5. h \in Header
  <2>1. aw'[self] = h
    BY <1>1, <1>2 DEF TInv, TypeOK
  <2> QED
    BY <1>2, <1>4, <2>1 DEF TInv, TypeOK
<1>6. HeaderInv(self, h)
  BY <1>1, <1>2, <1>3, PointsFree, RunFacts DEF HeaderInv
<1>7. \A c \in Buffers : DOMAIN mem'[c] = DOMAIN mem[c]
  BY DEF IntMult, TInv, TypeOK
<1>8. \A c \in Buffers : Len(mem'[c]) = Len(mem[c])
  BY <1>4, <1>7, DomainLen DEF TInv
<1> QED
  BY <1>1, <1>5, <1>6, <1>8, FinishedType, PutSafe

LEMMA AnnKeepSafe ==
  ASSUME TInv, Safe, Fits(formula), AnnKeep
  PROVE  Safe'
<1> DEFINE s == Source(1)
           kid == F.kids[1]
<1>1. status = "run" /\ F.kind = "ANN" /\ In("ANN", "visit") /\ Visited /\ AnnKept
      /\ Put(s, Finished) /\ UNCHANGED mem
  BY DEF AnnKeep, In
<1>2. self \in Nodes /\ F = formula[self] /\ F.cap \in Nat
  BY <1>1, SelfFacts
<1>3. /\ kid \in Nodes /\ s = aw[kid] /\ s \in Header
      /\ Ann.count \in Nat \cup {-1} /\ Ann.count <= F.cap
      /\ Ann.count = -1 => formula[kid].cap <= F.cap
      /\ MayShare(formula, self)
  BY <1>1, AnnFits
<1>4. HeaderInv(kid, s) /\ formula[kid].cap \in Nat
  BY <1>3, FormulaFacts DEF Safe, TInv, Control
<1>5. s.cnt <= F.cap
  <2>1. s.cnt \in Nat /\ s.cnt <= formula[kid].cap
    BY <1>3, <1>4 DEF Header, HeaderInv
  <2>2. Ann.count = -1 \/ Ann.count >= s.cnt
    BY <1>1 DEF AnnKept
  <2> QED
    BY <1>2, <1>3, <1>4, <2>1, <2>2
<1>6. s.eta = kid \/ Room(formula, kid) = 0
  BY <1>3, <1>4, RoomFacts
<1>7. Points(self, s)
  BY <1>1, <1>2, <1>3, <1>6 DEF Points
<1> HIDE DEF s
<1>8. HeaderInv(self, s)
  BY <1>1, <1>2, <1>4, <1>5, <1>7 DEF HeaderInv, Owners
<1> QED
  BY <1>1, <1>2, <1>3, <1>8, FinishedType, LenKept, PutSafe DEF ScalarCallee

LEMMA AnnCutSafe ==
  ASSUME TInv, Safe, Fits(formula), AccessOk, AnnCut
  PROVE  Safe'
<1> DEFINE s == Source(1)
           h == [loop |-> IF s.cnt = 0 \/ Conflict THEN Ann.loop ELSE s.loop,
                 cnt |-> Ann.count, eta |-> dest.eta, others |-> 0]
<1>1. status = "run" /\ F.kind = "ANN" /\ In("ANN", "visit") /\ Visited /\ ~AnnKept
      /\ Put(h, Finished)
  BY DEF AnnCut, In
<1>2. self \in Nodes /\ F = formula[self] /\ dest \in Header /\ HeaderInv(self, dest)
  BY <1>1, SelfFacts
<1>3. Ann.count \in Nat /\ Ann.count <= F.cap /\ Spans(dest.eta, Ann.count)
  BY <1>1, AnnFits, CutSpans
<1>4. h.cnt = Ann.count /\ h.eta = dest.eta
  OBVIOUS
<1>5. TInv'
  BY AnnCutType
<1> HIDE DEF h
<1>6. h \in Header
  <2>1. aw'[self] = h
    BY <1>1, <1>2 DEF Put, TInv, TypeOK
  <2> QED
    BY <1>2, <1>5, <2>1 DEF TInv, TypeOK
<1>7. HeaderInv(self, h)
  <2>1. Points(self, h)
    BY <1>1, <1>2, <1>4 DEF HeaderInv, Points
  <2> QED
    BY <1>1, <1>2, <1>3, <1>4, <2>1 DEF HeaderInv, Spans, Owners
<1>8. \A c \in Buffers : DOMAIN mem'[c] = DOMAIN mem[c]
  BY DEF AnnCut, TInv, TypeOK
<1>9. \A c \in Buffers : Len(mem'[c]) = Len(mem[c])
  BY <1>5, <1>8, DomainLen DEF TInv
<1> QED
  BY <1>1, <1>2, <1>6, <1>7, <1>9, FinishedType, PutSafe DEF ScalarCallee

-----------------------------------------------------------------------------
LEMMA StepSafe ==
  ASSUME TInv, Safe, Fits(formula), status = "run", AccessOk, Step
  PROVE  Safe'
<1>1. ASSUME Visit PROVE Safe'
  BY <1>1, EnterSafe DEF Visit
<1>2. ASSUME BoolTrue PROVE Safe'
  <2>1. loc.ph = "visit" /\ F.kind = "BOOLMULT" /\ Enter
    BY <1>2 DEF BoolTrue, In
  <2>2. Len(F.kids) = 1
    BY <2>1, RunFacts, FormulaFacts DEF TInv, Control, Arity
  <2>3. ~Visited
    BY <2>1, <2>2 DEF Visited, TInv, Control
  <2> QED
    BY <2>1, <2>3, EnterSafe
<1> QED
  BY <1>1, <1>2, LeaveSafe, LeaveCopySafe, ReturnSafe, ConstNodeSafe,
     AwcetNodeSafe, SeqScanSafe, SeqClearSafe, SeqSumSafe, AltScanSafe,
     AltSelectSafe, AltEndSafe, AltTakeSafe, LoopZeroSafe, LoopHeaderSafe,
     LoopSumFirstSafe, LoopSumOthersSafe, LoopOuterSafe, LoopPackSafe,
     LoopPackedSafe, IntMultSafe, BoolFalseSafe, AnnKeepSafe, AnnCutSafe
  DEF Step

LEMMA InitSafe ==
  ASSUME Init, Fits(formula)
  PROVE  Safe
<1>1. formula \in Formulas /\ TInv
  BY InitType DEF Init
<1>2. aw = [n \in Nodes |-> InitHeader(n)] /\ mem = [b \in Buffers |-> InitArray(b)]
      /\ stack = <<>> /\ Len(stack) = 0 /\ status = "idle"
  BY DEF Init
<1>3. ASSUME NEW n \in Nodes
      PROVE  /\ HeaderInv(n, aw[n])
             /\ formula[n].kind \in Owners \cup {"ANN"} => Len(mem[n]) = formula[n].cap
             /\ formula[n].kind = "CONST" => Len(mem[n]) = Len(formula[n].eta)
  <2>1. /\ formula[n].kind \in Kinds /\ formula[n].cap \in Nat
        /\ formula[n].eta \in Seq(Int) /\ n \in Buffers
    BY <1>1, FormulaFacts DEF Buffers
  <2>2. aw[n] = InitHeader(n) /\ mem[n] = InitArray(n) /\ n # NULL
    BY <1>2, <2>1, RuntimeAssumption
  <2>3. CASE formula[n].kind = "CONST"
    <3>1. Len(formula[n].eta) <= formula[n].cap /\ Len(formula[n].eta) \in Nat
      BY <1>1, <2>1, <2>3, FitsFacts, LenProperties
    <3>2. aw[n].cnt = Len(formula[n].eta) /\ mem[n] = formula[n].eta
          /\ aw[n].eta = IF formula[n].eta = <<>> THEN NULL ELSE n
      BY <2>2, <2>3 DEF InitHeader, InitArray, Placeholders
    <3>3. formula[n].eta = <<>> => Len(formula[n].eta) = 0
      BY EmptySeq
    <3> QED
      BY <2>2, <2>3, <3>1, <3>2, <3>3 DEF HeaderInv, Points, Owners
  <2>4. CASE formula[n].kind \in Placeholders
    <3>1. formula[n].kind # "CONST"
      BY <2>4 DEF Placeholders
    <3>2. aw[n].cnt = formula[n].cap /\ aw[n].eta = n
      BY <2>2, <2>4, <3>1 DEF InitHeader
    <3>3. mem[n] = [j \in 1..formula[n].cap |-> 0]
      BY <2>2, <3>1 DEF InitArray
    <3>4. Len(mem[n]) = formula[n].cap
      BY <2>1, <3>3
    <3> QED
      BY <2>1, <2>2, <3>1, <3>2, <3>4 DEF HeaderInv, Points
  <2>5. CASE formula[n].kind \notin Placeholders \cup {"CONST"}
    <3>1. aw[n].cnt = 0
      BY <2>2, <2>5 DEF InitHeader
    <3> QED
      BY <2>1, <2>5, <3>1 DEF HeaderInv, Points, Owners, Placeholders
  <2> QED
    BY <2>3, <2>4, <2>5
<1>4. Len(stack) = 0 /\ status = "idle"
  BY <1>2
<1>5. ASSUME NEW l \in Lists
      PROVE  mem[l] = ListValues[l]
  BY <1>2, RuntimeAssumption DEF InitArray, Buffers
<1> QED
  BY <1>3, <1>4, <1>5 DEF Safe, Asked, In

LEMMA FormulaKept ==
  ASSUME [Next]_vars
  PROVE  formula' = formula
<1>1. CASE Fault \/ UNCHANGED vars \/ \E v \in Valuations : Call(v)
  BY <1>1 DEF Fault, vars, Call
<1>2. CASE Step
  <2>1. CASE Visit \/ Leave \/ LeaveCopy \/ Return \/ BoolTrue
    BY <2>1 DEF Visit, Enter, Leave, LeaveCopy, Return, BoolTrue
  <2>2. CASE ConstNode \/ AwcetNode \/ BoolFalse \/ IntMult \/ AnnKeep \/ AnnCut
    BY <2>2 DEF Put, Go, ConstNode, AwcetNode, BoolFalse, IntMult, AnnKeep, AnnCut
  <2>3. CASE SeqScan \/ SeqClear \/ SeqSum
    BY <2>3 DEF Put, Go, SeqScan, SeqClear, SeqSum
  <2>6. CASE AltScan \/ AltEnd
    BY <2>6 DEF Put, Go, AltScan, AltEnd
  <2>8. CASE AltSelect
    <3>1. \E l : Go(l)
      BY <2>8 DEF AltSelect
    <3> QED
      BY <3>1 DEF Go
  <2>7. CASE AltTake
    BY <2>7 DEF Put, AltTake
  <2>4. CASE LoopZero \/ LoopHeader \/ LoopSumFirst \/ LoopSumOthers \/ LoopPacked
    BY <2>4 DEF Put, Go, LoopZero, LoopHeader, LoopSumFirst, LoopSumOthers, LoopPacked
  <2>5. CASE LoopOuter \/ LoopPack
    BY <2>5 DEF Put, Go, LoopOuter, LoopPack
  <2> QED
    BY <1>2, <2>1, <2>2, <2>3, <2>4, <2>5, <2>6, <2>7, <2>8 DEF Step
<1> QED
  BY <1>1, <1>2 DEF Next

LEMMA NextSafe ==
  ASSUME IInv, [Next]_vars
  PROVE  IInv'
<1>1. TInv'
  BY NextType DEF IInv
<1>2. ASSUME Fits(formula)'
      PROVE  Safe'
  <2>1. formula' = formula
    BY FormulaKept
  <2>2. Fits(formula) /\ Safe /\ TInv
    BY <1>2, <2>1 DEF IInv, Fits
  <2>3. CASE \E v \in Valuations : Call(v)
    BY <2>2, <2>3, CallSafe
  <2>4. CASE status = "run" /\ AccessOk /\ Step
    BY <2>2, <2>4, StepSafe
  <2>5. CASE Fault
    BY <2>2, <2>5, SafeAccess DEF Fault
  <2>6. CASE UNCHANGED vars
    BY <2>2, <2>6 DEF vars, Safe, HeaderInv, Points, In, Asked, ScalarCallee, Cursors, Source, F,
       self, Top, dest
  <2> QED
    BY <2>3, <2>4, <2>5, <2>6 DEF Next
<1> QED
  BY <1>1, <1>2 DEF IInv

\* A program whose formula fits its arrays (Fits is what to_c.ml would have to
\* guarantee) never accesses a cell outside of an eta array or through NULL and
\* never runs out of cursors, for every valuation and any number of calls, even
\* though the counts that a call leaves in the headers survive into the next.
THEOREM FittingFormulasAreSafe == Spec => []FitsIsSafe
<1>1. Init => IInv
  BY InitType, InitSafe DEF IInv
<1>2. IInv /\ [Next]_vars => IInv'
  BY NextSafe
<1>3. IInv => FitsIsSafe
  BY DEF IInv, FitsIsSafe, Safe
<1> QED
  BY <1>1, <1>2, <1>3, PTL DEF Spec

-----------------------------------------------------------------------------
(* The tree of a formula                                                   *)

ClosedIn(frm, S) == \A n \in S : \A i \in DOMAIN frm[n].kids : frm[n].kids[i] \in S

\* The node n and the nodes below it.
Below(frm, n) == {m \in Nodes : \A S \in SUBSET Nodes : n \in S /\ ClosedIn(frm, S) => m \in S}

Ranks(frm, S, rank) ==
  /\ rank \in [S -> Nat]
  /\ \A n \in S : \A i \in DOMAIN frm[n].kids :
       frm[n].kids[i] \in S => rank[frm[n].kids[i]] < rank[n]

LEMMA KidsAreNodes ==
  ASSUME NEW frm \in Formulas, NEW n \in Nodes, NEW i \in DOMAIN frm[n].kids
  PROVE  frm[n].kids[i] \in Nodes
BY FormulaFacts

LEMMA BelowClosed ==
  ASSUME NEW frm \in Formulas, NEW n \in Nodes
  PROVE  /\ Below(frm, n) \subseteq Nodes /\ n \in Below(frm, n)
         /\ ClosedIn(frm, Below(frm, n))
<1>1. ASSUME NEW m \in Below(frm, n), NEW i \in DOMAIN frm[m].kids
      PROVE  frm[m].kids[i] \in Below(frm, n)
  <2>1. m \in Nodes /\ frm[m].kids[i] \in Nodes
    BY KidsAreNodes DEF Below
  <2>2. ASSUME NEW S \in SUBSET Nodes, n \in S, ClosedIn(frm, S)
        PROVE  frm[m].kids[i] \in S
    <3>1. m \in S
      BY <2>2 DEF Below
    <3> QED
      BY <2>2, <3>1 DEF ClosedIn
  <2> QED
    BY <2>1, <2>2 DEF Below
<1> QED
  BY <1>1 DEF Below, ClosedIn

LEMMA BelowLeast ==
  ASSUME NEW frm, NEW n, NEW S \in SUBSET Nodes, n \in S, ClosedIn(frm, S)
  PROVE  Below(frm, n) \subseteq S
BY DEF Below

LEMMA BelowKid ==
  ASSUME NEW frm \in Formulas, NEW n \in Nodes, NEW i \in DOMAIN frm[n].kids
  PROVE  Below(frm, frm[n].kids[i]) \subseteq Below(frm, n)
<1>1. Below(frm, n) \in SUBSET Nodes /\ ClosedIn(frm, Below(frm, n)) /\ n \in Below(frm, n)
  BY BelowClosed
<1>2. frm[n].kids[i] \in Below(frm, n)
  BY <1>1 DEF ClosedIn
<1> QED
  BY <1>1, <1>2, BelowLeast

LEMMA BelowNested ==
  ASSUME NEW frm \in Formulas, NEW n \in Nodes, NEW m \in Below(frm, n)
  PROVE  Below(frm, m) \subseteq Below(frm, n)
BY BelowClosed, BelowLeast

\* Every set of nodes has a numbering that decreases from a node to its operands.
LEMMA RankOfSome ==
  ASSUME NEW frm \in Formulas
  PROVE  \E rank : Ranks(frm, Nodes, rank)
<1> DEFINE P == {k \in Nat : \A S \in SUBSET Nodes :
                               Cardinality(S) = k => \E rank : Ranks(frm, S, rank)}
<1>1. Tree(frm) /\ IsFiniteSet(Nodes) /\ Cardinality(Nodes) \in Nat
  BY FormulasAssumption, RuntimeAssumption, FS_CardinalityType
<1>2. 0 \in P
  <2> SUFFICES ASSUME NEW S \in SUBSET Nodes, Cardinality(S) = 0 PROVE \E rank : Ranks(frm, S, rank)
    OBVIOUS
  <2>1. S = {}
    BY <1>1, FS_Subset, FS_EmptySet
  <2>2. Ranks(frm, S, [n \in S |-> 0])
    BY <2>1 DEF Ranks
  <2> QED
    BY <2>2
<1>3. ASSUME NEW k \in Nat, k \in P PROVE k + 1 \in P
  <2> SUFFICES ASSUME NEW S \in SUBSET Nodes, Cardinality(S) = k + 1 PROVE \E rank : Ranks(frm, S, rank)
    OBVIOUS
  <2>1. IsFiniteSet(S)
    BY <1>1, FS_Subset
  <2>2. S # {}
    BY FS_EmptySet
  <2>3. PICK m \in S : \A i \in DOMAIN frm[m].kids : frm[m].kids[i] \notin S
    BY <1>1, <2>2 DEF Tree
  <2>4. Cardinality(S \ {m}) = k /\ S \ {m} \in SUBSET Nodes
    <3>1. Cardinality(S \ {m}) = Cardinality(S) - 1
      BY <2>1, FS_RemoveElement
    <3> QED
      BY <3>1
  <2>5. PICK r : Ranks(frm, S \ {m}, r)
    BY <1>3, <2>4
  <2> DEFINE s == [n \in S |-> IF n = m THEN 0 ELSE r[n] + 1]
  <2>6. s \in [S -> Nat]
    BY <2>5 DEF Ranks
  <2>7. ASSUME NEW n \in S, NEW i \in DOMAIN frm[n].kids, frm[n].kids[i] \in S
        PROVE  s[frm[n].kids[i]] < s[n]
    <3>1. n # m
      BY <2>3, <2>7
    <3>2. CASE frm[n].kids[i] = m
      BY <2>5, <2>7, <3>1, <3>2 DEF Ranks
    <3>3. CASE frm[n].kids[i] # m
      <4>1. r[frm[n].kids[i]] < r[n] /\ r[frm[n].kids[i]] \in Nat /\ r[n] \in Nat
        BY <2>5, <2>7, <3>1, <3>3 DEF Ranks
      <4> QED
        BY <2>7, <3>1, <3>3, <4>1
    <3> QED
      BY <3>2, <3>3
  <2> HIDE DEF s
  <2>8. Ranks(frm, S, s)
    BY <2>6, <2>7 DEF Ranks
  <2> QED
    BY <2>8
<1>4. Nat \subseteq P
  <2> HIDE DEF P
  <2> QED
    BY <1>2, <1>3, SetInduction
<1> QED
  BY <1>1, <1>4

LEMMA HasRank ==
  ASSUME NEW frm \in Formulas
  PROVE  \E rank \in [Nodes -> Nat] : \A n \in Nodes : \A i \in DOMAIN frm[n].kids :
           frm[n].kids[i] \in Nodes /\ rank[frm[n].kids[i]] < rank[n]
<1>1. PICK rank : Ranks(frm, Nodes, rank)
  BY RankOfSome
<1> QED
  BY <1>1, KidsAreNodes DEF Ranks

\* A node is not below its operands.
LEMMA NotBelow ==
  ASSUME NEW frm \in Formulas, NEW n \in Nodes, NEW i \in DOMAIN frm[n].kids
  PROVE  n \notin Below(frm, frm[n].kids[i])
<1>1. PICK rank \in [Nodes -> Nat] : \A m \in Nodes : \A j \in DOMAIN frm[m].kids :
              frm[m].kids[j] \in Nodes /\ rank[frm[m].kids[j]] < rank[m]
  BY HasRank
<1> DEFINE k == frm[n].kids[i]
           S == {m \in Nodes : rank[m] <= rank[k]}
<1>2. k \in Nodes /\ rank[k] < rank[n] /\ rank[k] \in Nat /\ rank[n] \in Nat
  BY <1>1
<1>3. ClosedIn(frm, S)
  <2> SUFFICES ASSUME NEW m \in S, NEW j \in DOMAIN frm[m].kids PROVE frm[m].kids[j] \in S
    BY DEF ClosedIn
  <2>1. frm[m].kids[j] \in Nodes /\ rank[frm[m].kids[j]] < rank[m] /\ rank[m] <= rank[k]
        /\ rank[m] \in Nat /\ rank[frm[m].kids[j]] \in Nat
    BY <1>1
  <2> HIDE DEF k
  <2> QED
    BY <1>2, <2>1
<1>4. k \in S /\ n \notin S /\ S \in SUBSET Nodes
  BY <1>2
<1> QED
  BY <1>3, <1>4, BelowLeast

\* What is below a, but is not a, has its parent below a.
LEMMA ParentBelow ==
  ASSUME NEW frm \in Formulas, NEW a \in Nodes, NEW n \in Nodes, NEW i \in DOMAIN frm[n].kids,
         frm[n].kids[i] \in Below(frm, a), frm[n].kids[i] # a
  PROVE  n \in Below(frm, a)
<1> DEFINE k == frm[n].kids[i]
           S == Below(frm, a) \ {k}
<1>1. Below(frm, a) \in SUBSET Nodes /\ a \in Below(frm, a) /\ ClosedIn(frm, Below(frm, a))
  BY BelowClosed
<1> SUFFICES ASSUME n \notin Below(frm, a) PROVE FALSE
  OBVIOUS
<1>2. ClosedIn(frm, S)
  <2> SUFFICES ASSUME NEW m \in S, NEW j \in DOMAIN frm[m].kids PROVE frm[m].kids[j] \in S
    BY DEF ClosedIn
  <2>1. frm[m].kids[j] \in Below(frm, a)
    BY <1>1 DEF ClosedIn
  <2>2. frm[m].kids[j] # k
    <3>1. m # n /\ m \in Nodes
      BY <1>1
    <3> QED
      BY <3>1, FormulasAssumption DEF Tree
  <2> QED
    BY <2>1, <2>2
<1>3. a \in S /\ S \in SUBSET Nodes
  BY <1>1
<1> HIDE DEF S
<1>4. Below(frm, a) \subseteq S
  BY <1>2, <1>3, BelowLeast
<1> QED
  BY <1>4 DEF S

\* What is below an operand is not below another one.
LEMMA ApartBelow ==
  ASSUME NEW frm \in Formulas, NEW n \in Nodes,
         NEW i \in DOMAIN frm[n].kids, NEW j \in DOMAIN frm[n].kids, i # j
  PROVE  Below(frm, frm[n].kids[i]) \cap Below(frm, frm[n].kids[j]) = {}
<1> DEFINE a == frm[n].kids[i]
           b == frm[n].kids[j]
           S == Below(frm, a) \ Below(frm, b)
<1>1. /\ a \in Nodes /\ b \in Nodes /\ a # b
      /\ n \notin Below(frm, a) /\ n \notin Below(frm, b)
  BY KidsAreNodes, NotBelow, FormulasAssumption DEF Tree
<1>2. /\ Below(frm, a) \in SUBSET Nodes /\ a \in Below(frm, a) /\ ClosedIn(frm, Below(frm, a))
      /\ Below(frm, b) \in SUBSET Nodes /\ b \in Below(frm, b)
  BY <1>1, BelowClosed
<1>3. a \notin Below(frm, b)
  BY <1>1, ParentBelow
<1>4. b \notin Below(frm, a)
  BY <1>1, ParentBelow
<1> HIDE DEF a, b
<1>5. ClosedIn(frm, S)
  <2> SUFFICES ASSUME NEW m \in S, NEW c \in DOMAIN frm[m].kids PROVE frm[m].kids[c] \in S
    BY DEF ClosedIn
  <2>1. frm[m].kids[c] \in Below(frm, a) /\ m \in Nodes /\ m \notin Below(frm, b)
    BY <1>2 DEF ClosedIn
  <2>2. frm[m].kids[c] # b
    BY <1>4, <2>1
  <2>3. frm[m].kids[c] \notin Below(frm, b)
    BY <1>1, <2>1, <2>2, ParentBelow
  <2> QED
    BY <2>1, <2>3
<1>6. a \in S /\ S \in SUBSET Nodes
  BY <1>2, <1>3
<1> HIDE DEF S
<1>7. Below(frm, a) \subseteq S
  BY <1>5, <1>6, BelowLeast
<1> QED
  BY <1>7 DEF S, a, b

-----------------------------------------------------------------------------
(* Where the stack is in the tree                                          *)

Nested ==
  status = "run" =>
    /\ stack[Len(stack)].node = Root
    /\ \A d \in 1..(Len(stack) - 1) :
         /\ stack[d + 1].i \in DOMAIN formula[stack[d + 1].node].kids
         /\ stack[d].node = formula[stack[d + 1].node].kids[stack[d + 1].i]
    /\ \A e \in 1..Len(stack) : \A d \in 1..e :
         stack[d].node \in Below(formula, stack[e].node)

\* A function starts with its locals reset, and after its operands.
Steady ==
  status = "run" =>
    /\ loc.ph = "visit" /\ (F.kind \notin {"SEQ", "ALT"} \/ ~Visited) => loc = Start
    /\ loc.ph # "visit" /\ F.kind # "BOOLMULT" => Visited

Placed == TInv /\ Nested /\ Steady

LEMMA FrameFacts ==
  ASSUME TInv, status = "run", NEW d \in 1..Len(stack)
  PROVE  /\ stack[d] \in FrameType /\ stack[d].node \in Nodes
         /\ formula \in Formulas
         /\ stack[d].i \in 0..Len(formula[stack[d].node].kids)
         /\ DOMAIN formula[stack[d].node].kids = 1..Len(formula[stack[d].node].kids)
         /\ Len(formula[stack[d].node].kids) \in Nat
         /\ \A c \in DOMAIN formula[stack[d].node].kids : formula[stack[d].node].kids[c] \in Nodes
<1>1. stack[d] \in FrameType /\ formula \in Formulas
  BY RunFacts, ElementOfSeq DEF TInv, Control
<1>2. stack[d].node \in Nodes /\ stack[d].i \in Nat
  BY <1>1 DEF FrameType
<1>3. formula[stack[d].node].kids \in Seq(Nodes)
  BY <1>1, <1>2, FormulaFacts
<1>4. stack[d].i <= Len(formula[stack[d].node].kids)
  BY DEF TInv, Control
<1> QED
  BY <1>1, <1>2, <1>3, <1>4, LenProperties, ElementOfSeq

\* A node on the stack is not below the operands of the frames around it, except
\* for those that are being evaluated.
LEMMA Beside ==
  ASSUME TInv, Nested, status = "run", NEW d \in 1..Len(stack), NEW e \in 1..d,
         NEW c \in DOMAIN formula[stack[d].node].kids, e = d \/ c # stack[d].i
  PROVE  stack[e].node \notin Below(formula, formula[stack[d].node].kids[c])
<1>1. stack[d].node \in Nodes /\ formula \in Formulas /\ Len(stack) \in Nat
  BY FrameFacts, RunFacts
<1>2. CASE e = d
  BY <1>1, <1>2, NotBelow
<1>3. CASE e # d
  <2>1. d - 1 \in 1..(Len(stack) - 1) /\ d - 1 \in 1..Len(stack) /\ (d - 1) + 1 = d /\ e \in 1..(d - 1)
    BY <1>1, <1>3
  <2>2. stack[e].node \in Below(formula, stack[d - 1].node)
    BY <2>1 DEF Nested
  <2>3. /\ stack[d].i \in DOMAIN formula[stack[d].node].kids
        /\ stack[d - 1].node = formula[stack[d].node].kids[stack[d].i]
    BY <2>1 DEF Nested
  <2>4. /\ Below(formula, formula[stack[d].node].kids[c]) \cap
              Below(formula, formula[stack[d].node].kids[stack[d].i]) = {}
    BY <1>1, <1>3, <2>3, ApartBelow
  <2> QED
    BY <2>2, <2>3, <2>4
<1> QED
  BY <1>2, <1>3

\* Nor is it one of them.
LEMMA AboveOthers ==
  ASSUME TInv, Nested, status = "run", NEW d \in 1..Len(stack), NEW e \in 1..Len(stack), e # d
  PROVE  stack[e].node # stack[d].node
<1>1. ASSUME NEW a \in 1..Len(stack), NEW b \in 1..Len(stack), b < a
      PROVE  stack[b].node # stack[a].node
  <2>1. /\ a - 1 \in 1..(Len(stack) - 1) /\ a - 1 \in 1..Len(stack)
        /\ (a - 1) + 1 = a /\ b \in 1..(a - 1)
    BY <1>1, RunFacts
  <2>2. /\ stack[a].i \in DOMAIN formula[stack[a].node].kids
        /\ stack[a - 1].node = formula[stack[a].node].kids[stack[a].i]
        /\ stack[b].node \in Below(formula, stack[a - 1].node)
    BY <2>1 DEF Nested
  <2>3. stack[a].node \in Nodes /\ formula \in Formulas
    BY FrameFacts
  <2> QED
    BY <2>2, <2>3, NotBelow
<1>2. e < d \/ d < e
  BY RunFacts
<1> QED
  BY <1>1, <1>2

LEMMA CallNested ==
  ASSUME TInv, Nested, NEW v \in Valuations, Call(v)
  PROVE  Nested'
<1> DEFINE fr == [node |-> Root, i |-> 0, hdr |-> aw[Root]]
<1>1. stack' = <<fr>> /\ formula' = formula /\ fr.node = Root
  BY DEF Call, Frame
<1> HIDE DEF fr
<1>2. stack'[1] = fr /\ Len(stack') = 1
  BY <1>1
<1>3. Root \in Below(formula, Root)
  BY BelowClosed, RuntimeAssumption DEF TInv, Control
<1> QED
  BY <1>1, <1>2, <1>3 DEF Nested

LEMMA EnterNested ==
  ASSUME TInv, Nested, status = "run", loc.ph = "visit", ~Visited, Enter
  PROVE  Nested'
<1> DEFINE kid == F.kids[Top.i + 1]
           a == [node |-> kid, i |-> 0, hdr |-> aw[kid]]
           b == [Top EXCEPT !.i = Top.i + 1]
           n == Len(stack)
<1>1. Top.i + 1 \in DOMAIN F.kids /\ kid \in Nodes
  BY RunFacts DEF Visited
<1>2. a \in FrameType /\ a.node = kid
  BY <1>1 DEF FrameType, TInv, TypeOK
<1>3. b \in FrameType /\ b.node = self /\ b.i = Top.i + 1
  BY <1>1, RunFacts, SMTT(40) DEF FrameType, self
<1>4. stack' = <<a, b>> \o Tail(stack) /\ UNCHANGED <<formula, status, loc, aw, mem>>
  BY DEF Enter, Frame
<1>5. /\ stack \in Seq(FrameType) /\ stack # <<>> /\ n \in Nat \ {0}
      /\ self = stack[1].node /\ F = formula[self] /\ self \in Nodes /\ formula \in Formulas
  BY RunFacts, EmptySeq DEF self, TInv, Control
<1>6. kid = formula[self].kids[Top.i + 1] /\ Top.i + 1 \in DOMAIN formula[self].kids
  BY <1>1, <1>5
<1> HIDE DEF a, b, kid
<1>7. /\ Len(stack') = n + 1
      /\ \A d \in 1..(n + 1) :
           stack'[d] = IF d = 1 THEN a ELSE IF d = 2 THEN b ELSE stack[d - 1]
  BY <1>2, <1>3, <1>4, <1>5, PushFacts
<1>8. /\ stack'[1].node = kid /\ stack'[2].i = Top.i + 1
      /\ \A d \in 2..(n + 1) : stack'[d].node = stack[d - 1].node
      /\ \A d \in 3..(n + 1) : stack'[d].i = stack[d - 1].i
  BY <1>2, <1>3, <1>5, <1>7
<1>9. stack'[Len(stack')].node = Root
  BY <1>5, <1>7, <1>8 DEF Nested
<1>10. ASSUME NEW d \in 1..(Len(stack') - 1)
       PROVE  /\ stack'[d + 1].i \in DOMAIN formula[stack'[d + 1].node].kids
              /\ stack'[d].node = formula[stack'[d + 1].node].kids[stack'[d + 1].i]
  <2>1. CASE d = 1
    BY <1>5, <1>6, <1>7, <1>8, <2>1
  <2>2. CASE d # 1
    <3>1. d - 1 \in 1..(n - 1) /\ (d - 1) + 1 = d /\ d \in 2..(n + 1) /\ d + 1 \in 3..(n + 1)
          /\ (d + 1) - 1 = d /\ d + 1 \in 2..(n + 1)
      BY <1>5, <1>7, <2>2
    <3>2. /\ stack'[d].node = stack[d - 1].node /\ stack'[d + 1].node = stack[d].node
          /\ stack'[d + 1].i = stack[d].i
      BY <1>8, <3>1
    <3>3. /\ stack[d].i \in DOMAIN formula[stack[d].node].kids
          /\ stack[d - 1].node = formula[stack[d].node].kids[stack[d].i]
      BY <3>1 DEF Nested
    <3> QED
      BY <3>2, <3>3
  <2> QED
    BY <2>1, <2>2
<1>11. ASSUME NEW e \in 1..Len(stack'), NEW d \in 1..e
       PROVE  stack'[d].node \in Below(formula, stack'[e].node)
  <2>1. CASE e = 1
    <3>1. d = 1 /\ kid \in Nodes
      BY <1>1, <2>1
    <3> QED
      BY <1>5, <1>8, <2>1, <3>1, BelowClosed
  <2>2. CASE e # 1
    <3>1. e \in 2..(n + 1) /\ e - 1 \in 1..n /\ stack'[e].node = stack[e - 1].node
      BY <1>5, <1>7, <1>8, <2>2
    <3>2. CASE d = 1
      <4>1. self \in Below(formula, stack[e - 1].node)
        BY <1>5, <3>1 DEF Nested
      <4>2. stack[e - 1].node \in Nodes
        BY <3>1, FrameFacts
      <4>3. ClosedIn(formula, Below(formula, stack[e - 1].node))
        BY <1>5, <4>2, BelowClosed
      <4> QED
        BY <1>6, <1>8, <3>1, <3>2, <4>1, <4>3 DEF ClosedIn
    <3>3. CASE d # 1
      <4>1. d \in 2..(n + 1) /\ d - 1 \in 1..(e - 1) /\ stack'[d].node = stack[d - 1].node
        BY <1>5, <1>7, <1>8, <3>3
      <4> QED
        BY <3>1, <4>1 DEF Nested
    <3> QED
      BY <3>2, <3>3
  <2> QED
    BY <2>1, <2>2
<1> QED
  BY <1>4, <1>9, <1>10, <1>11 DEF Nested

LEMMA PopNested ==
  ASSUME TInv, Nested, status = "run", Len(stack) > 1,
         stack' = Tail(stack), UNCHANGED <<formula, status>>
  PROVE  Nested'
<1> DEFINE n == Len(stack)
<1>1. n \in Nat /\ n > 1 /\ Len(stack') = n - 1 /\ \A d \in 1..(n - 1) : stack'[d] = stack[d + 1]
  BY RunFacts, PopFacts
<1>2. stack'[Len(stack')].node = Root
  BY <1>1 DEF Nested
<1>3. ASSUME NEW d \in 1..(Len(stack') - 1)
      PROVE  /\ stack'[d + 1].i \in DOMAIN formula[stack'[d + 1].node].kids
             /\ stack'[d].node = formula[stack'[d + 1].node].kids[stack'[d + 1].i]
  <2>1. d + 1 \in 1..(n - 1) /\ d \in 1..(n - 1)
    BY <1>1
  <2>2. /\ stack[(d + 1) + 1].i \in DOMAIN formula[stack[(d + 1) + 1].node].kids
        /\ stack[d + 1].node = formula[stack[(d + 1) + 1].node].kids[stack[(d + 1) + 1].i]
    BY <2>1 DEF Nested
  <2> QED
    BY <1>1, <2>1, <2>2
<1>4. ASSUME NEW e \in 1..Len(stack'), NEW d \in 1..e
      PROVE  stack'[d].node \in Below(formula, stack'[e].node)
  <2>1. e \in 1..(n - 1) /\ d \in 1..(n - 1) /\ e + 1 \in 1..n /\ d + 1 \in 1..(e + 1)
    BY <1>1
  <2>2. stack[d + 1].node \in Below(formula, stack[e + 1].node)
    BY <2>1 DEF Nested
  <2> QED
    BY <1>1, <2>1, <2>2
<1> QED
  BY <1>2, <1>3, <1>4 DEF Nested

\* The steps of the awcet_ functions leave the stack alone.
LEMMA LocalPlaced ==
  ASSUME TInv, Nested, Steady, status = "run", UNCHANGED <<formula, status, stack>>,
         F.kind # "BOOLMULT" => Visited,
         loc'.ph = "visit" => Visited /\ F.kind \in {"SEQ", "ALT"}
  PROVE  Nested' /\ Steady'
<1>1. Nested'
  BY DEF Nested
<1>2. F' = F /\ Visited' = Visited
  BY DEF F, self, Top, Visited
<1> QED
  BY <1>1, <1>2 DEF Steady

LEMMA LeavesVisited ==
  ASSUME TInv, status = "run", F.kind \in {"CONST", "AWCET"}
  PROVE  Visited
<1>1. F.kids = <<>>
  BY RunFacts, FormulaFacts DEF TInv, Control, Arity
<1>2. Top.i \in 0..Len(F.kids) /\ Len(F.kids) \in Nat
  BY RunFacts
<1>3. Len(F.kids) = 0
  BY <1>1
<1> QED
  BY <1>2, <1>3 DEF Visited

LEMMA StepPlaced ==
  ASSUME TInv, Nested, Steady, status = "run", Step
  PROVE  Nested' /\ Steady'
<1>0. Start.ph = "visit" /\ Finished.ph = "done"
  BY FinishedType
<1>1. CASE Visit
  <2>1. loc.ph = "visit" /\ ~Visited /\ Enter
    BY <1>1 DEF Visit
  <2>2. loc' = Start
    BY <2>1 DEF Steady, Enter
  <2>3. Steady'
    BY <1>0, <2>2 DEF Steady
  <2> QED
    BY <2>1, <2>3, EnterNested
<1>2. CASE BoolTrue
  <2>1. loc.ph = "visit" /\ F.kind = "BOOLMULT" /\ Enter
    BY <1>2 DEF BoolTrue, In
  <2>2. ~Visited
    <3>1. Top.i = 0 /\ Len(F.kids) = 1
      BY <2>1, RunFacts, FormulaFacts DEF TInv, Control, Arity
    <3> QED
      BY <3>1 DEF Visited
  <2>3. loc' = Start
    BY <2>1 DEF Steady, Enter
  <2>4. Steady'
    BY <1>0, <2>3 DEF Steady
  <2> QED
    BY <2>1, <2>2, <2>4, EnterNested
<1>3. CASE Leave
  <2>1. Nested'
    BY <1>3, PopNested DEF Leave
  <2>2. Steady'
    BY <1>0, <1>3 DEF Steady, Leave
  <2> QED
    BY <2>1, <2>2
<1>4. CASE LeaveCopy
  <2>1. Nested'
    BY <1>4, PopNested DEF LeaveCopy
  <2>2. stack' = Tail(stack) /\ loc' = Finished /\ formula' = formula
        /\ formula[stack[2].node].kind = "BOOLMULT" /\ Len(stack) > 1
    BY <1>4 DEF LeaveCopy
  <2>3. Head(Tail(stack)) = stack[2]
    BY <2>2, RunFacts, PopFacts
  <2>4. F'.kind = "BOOLMULT"
    BY <2>2, <2>3 DEF F, self, Top
  <2>5. Steady'
    BY <1>0, <2>2, <2>4 DEF Steady
  <2> QED
    BY <2>1, <2>5
<1>5. CASE Return
  BY <1>5 DEF Return, Nested, Steady
<1>6. ASSUME UNCHANGED <<formula, status, stack>>, loc'.ph # "visit",
             F.kind # "BOOLMULT" => Visited
      PROVE  Nested' /\ Steady'
  BY <1>6, LocalPlaced
<1>7. CASE ConstNode \/ AwcetNode
  <2>1. F.kind \in {"CONST", "AWCET"} /\ loc' = Finished /\ UNCHANGED <<formula, status, stack>>
    BY <1>7 DEF ConstNode, AwcetNode, In, Go, Put
  <2> QED
    BY <1>0, <1>6, <2>1, LeavesVisited
<1>8. ASSUME loc.ph # "visit", F.kind # "BOOLMULT"
      PROVE  Visited
  BY <1>8 DEF Steady
<1>9. loc \in LocType
  BY TypeFacts DEF TInv
<1>10. CASE SeqScan \/ AltScan
  <2>1. F.kind \in {"SEQ", "ALT"} /\ Visited /\ UNCHANGED <<formula, status, stack>>
    BY <1>10 DEF SeqScan, AltScan, In, Put
  <2> QED
    BY <2>1, LocalPlaced
<1>11. CASE SeqClear
  <2>1. F.kind = "SEQ" /\ loc.ph = "clear" /\ UNCHANGED <<formula, status, stack>>
        /\ loc' = [Start EXCEPT !.ph = "sum"]
    BY <1>11 DEF SeqClear, In, Go
  <2>2. loc'.ph = "sum"
    BY <2>1 DEF Start
  <2> QED
    BY <1>6, <1>8, <2>1, <2>2
<1>12. CASE SeqSum
  <2>1. F.kind = "SEQ" /\ loc.ph = "sum" /\ UNCHANGED <<formula, status, stack>>
        /\ loc' \in {Finished, [loc EXCEPT !.k = loc.k + 1]}
    BY <1>12 DEF SeqSum, In, Go
  <2>2. loc'.ph \in {"done", "sum"}
    BY <1>0, <1>9, <2>1 DEF LocType
  <2> QED
    BY <1>6, <1>8, <2>1, <2>2
<1>13. CASE AltSelect \/ AltEnd \/ AltTake
  <2>1. F.kind = "ALT" /\ loc.ph \in {"merge", "take"} /\ UNCHANGED <<formula, status, stack>>
    BY <1>13 DEF AltSelect, AltEnd, AltTake, In, Put, Go
  <2>2. CASE AltSelect
    <3>1. \E i : loc' = [loc EXCEPT !.ph = "take", !.k = i]
      BY <2>2 DEF AltSelect, Go
    <3>2. loc'.ph = "take"
      BY <1>9, <3>1 DEF LocType
    <3> QED
      BY <1>6, <1>8, <2>1, <3>2
  <2>3. CASE AltEnd
    BY <1>0, <1>6, <1>8, <2>1, <2>3 DEF AltEnd, Go
  <2>4. CASE AltTake
    <3>1. loc' = [loc EXCEPT !.ph = "merge", !.tab[loc.k] = @ + 1]
      BY <2>4 DEF AltTake, Put
    <3>2. loc'.ph = "merge"
      BY <1>9, <3>1 DEF LocType
    <3> QED
      BY <1>6, <1>8, <2>1, <3>2
  <2> QED
    BY <1>13, <2>2, <2>3, <2>4
<1>14. CASE LoopHeader \/ LoopOuter
  <2>1. F.kind # "BOOLMULT" /\ Visited /\ UNCHANGED <<formula, status, stack>>
        /\ loc' \in {[Start EXCEPT !.ph = "first", !.bound = Bound],
                     [Start EXCEPT !.ph = "pack", !.bound = Bound]}
    BY <1>14 DEF LoopHeader, LoopOuter, AtLoop, In, Go, Put
  <2>2. loc'.ph \in {"first", "pack"}
    BY <2>1 DEF Start
  <2> QED
    BY <1>6, <2>1, <2>2
<1>15. CASE LoopSumFirst \/ LoopPack
  <2>1. /\ F.kind # "BOOLMULT" /\ loc.ph \in {"first", "pack"} /\ UNCHANGED <<formula, status, stack>>
        /\ \E k, j, x : loc' \in {[loc EXCEPT !.k = k, !.acc = x], [loc EXCEPT !.j = j, !.acc = x],
                                  [loc EXCEPT !.k = k, !.j = 0, !.acc = 0]}
    BY <1>15 DEF LoopSumFirst, LoopPack, AtLoop, In, Go, Store
  <2>2. loc'.ph \in {"first", "pack"}
    BY <1>9, <2>1 DEF LocType
  <2> QED
    BY <1>6, <1>8, <2>1, <2>2
<1>16. CASE LoopZero \/ LoopSumOthers \/ LoopPacked \/ BoolFalse
  <2>1. /\ UNCHANGED <<formula, status, stack>> /\ loc' = Finished
        /\ F.kind # "BOOLMULT" => Visited \/ loc.ph \in {"first", "pack"}
    BY <1>16 DEF LoopZero, LoopSumOthers, LoopPacked, BoolFalse, AtLoop, In, Go, Put
  <2> QED
    BY <1>0, <1>6, <1>8, <2>1
<1>17. CASE IntMult \/ AnnKeep \/ AnnCut
  <2>1. UNCHANGED <<formula, status, stack>> /\ loc' = Finished /\ Visited
    BY <1>17 DEF IntMult, AnnKeep, AnnCut, In, Put
  <2> QED
    BY <1>0, <1>6, <2>1
<1> QED
  BY <1>1, <1>2, <1>3, <1>4, <1>5, <1>7, <1>10, <1>11, <1>12, <1>13, <1>14, <1>15, <1>16, <1>17 DEF Step

LEMMA InitPlaced == Init => Placed
BY InitType DEF Init, Placed, Nested, Steady

LEMMA NextPlaced ==
  ASSUME Placed, [Next]_vars
  PROVE  Placed'
<1>1. TInv /\ Nested /\ Steady /\ TInv'
  BY NextType DEF Placed
<1>2. CASE \E v \in Valuations : Call(v)
  <2>1. Nested'
    BY <1>1, <1>2, CallNested
  <2>2. loc' = Start
    BY <1>1, <1>2 DEF Call, TInv, Control
  <2>3. Steady'
    BY <2>2, FinishedType DEF Steady
  <2> QED
    BY <1>1, <2>1, <2>3 DEF Placed
<1>3. CASE status = "run" /\ AccessOk /\ Step
  BY <1>1, <1>3, StepPlaced DEF Placed
<1>4. CASE Fault
  BY <1>1, <1>4 DEF Placed, Fault, Nested, Steady
<1>5. CASE UNCHANGED vars
  <2>1. Nested'
    BY <1>1, <1>5 DEF vars, Nested
  <2>2. Steady'
    BY <1>1, <1>5 DEF vars, Steady, F, self, Top, Visited
  <2> QED
    BY <1>1, <2>1, <2>2 DEF Placed
<1> QED
  BY <1>2, <1>3, <1>4, <1>5 DEF Next

=============================================================================
