-------------------------- MODULE SimplifySoundness --------------------------
(***************************************************************************)
(* A formula is read construct by construct (the grammar of                *)
(* simplify/parser.mly) and simplified; what the simplified formula must be *)
(* worth is what the formula read is worth, under every valuation of the    *)
(* parameters.                                                             *)
(***************************************************************************)
EXTENDS Simplify

CONSTANTS
  Operands,    \* formulas the constructs are applied to
  Conditions,  \* conjunctions
  Bounds,      \* symbolic bounds of loops
  Annotations, \* pairs <<loop, number>>
  Factors,     \* factors of products
  LoopIds,     \* named loops
  Valuations,  \* [param, bound, arg]: what the parameters are worth
  MaxOps       \* constructs in a formula, but for those of the operands

VARIABLES
  f,          \* the formula read
  simplified, \* its simplification
  ops         \* constructs read

vars == <<f, simplified, ops>>

Init == f \in Operands /\ simplified = SimplifyFormula(f) /\ ops = 0

ReadPlus == UNION {{FPlus(<<f, g>>), FPlus(<<g, f>>)} : g \in Operands}
ReadUnion == UNION {{FUnion(<<f, g>>), FUnion(<<g, f>>)} : g \in Operands}
ReadPower == UNION {{FPower(f, g, l, it), FPower(g, f, l, it)} :
                      g \in Operands, l \in LoopIds, it \in Bounds}
ReadPowerParam == UNION {{FPowerParam(f, g, l, e.terms) : e \in {x \in Range(c) : x.op # "BOOL"}} :
                           g \in Operands, l \in LoopIds, c \in Conditions}
ReadAnnot == {FAnnot(f, a[1], a[2]) : a \in Annotations}
ReadProduct == {FProduct(k, f) : k \in Factors}
ReadBProduct == {FBProduct(c, f) : c \in Conditions}

\* A production of the grammar, one part of which is the formula read so far.
Read ==
  \E g \in ReadPlus \cup ReadUnion \cup ReadPower \cup ReadPowerParam
           \cup ReadAnnot \cup ReadProduct \cup ReadBProduct :
    f' = g /\ simplified' = SimplifyFormula(g) /\ ops' = ops + 1

Next == ops < MaxOps /\ Read

Spec == Init /\ [][Next]_vars

-----------------------------------------------------------------------------
(* What a formula is worth                                                 *)

Number(v, x) == IF x.sym THEN v.arg[x.n] ELSE x.n
Linear(v, terms) == FoldLeft(LAMBDA acc, t : acc + t.coef * Number(v, t.value), 0, terms)
Holds(v, e) == CASE e.op = "LEQ" -> e.c <= Linear(v, e.terms)
                 [] e.op = "EQ" -> e.c = Linear(v, e.terms)
                 [] e.op = "BOOL" -> e.c
AllHold(v, conj) == \A i \in DOMAIN conj : Holds(v, conj[i])

RECURSIVE Eval(_, _)
Eval(v, g) ==
  LET w == [i \in DOMAIN Parts(g) |-> Eval(v, Parts(g)[i])]
  IN  CASE g.kind = "CONST" -> g.w
        [] g.kind = "PARAM" -> v.param[g.p]
        [] g.kind = "PLUS" -> FoldLeft(Sum, w[1], Tail(w))
        [] g.kind = "UNION" -> FoldLeft(Union, w[1], Tail(w))
        [] g.kind = "POWER" -> Pow(w[1], w[2], g.l, IF g.it.sym THEN v.bound[g.it.n] ELSE g.it.n)
        [] g.kind = "POWERPARAM" -> Pow(w[1], w[2], g.l, Max({0, Linear(v, g.terms)}))
        [] g.kind = "ANNOT" -> Annot(w[1], g.l, g.it)
        [] g.kind = "PROD" -> Prod(g.k, w[1])
        [] g.kind = "BPROD" -> IF AllHold(v, g.conj) THEN w[1] ELSE Bot

Positions(m1, m2) == 1..(Max({Len(m1.wl), Len(m2.wl)}) + 1)
SameValues(m1, m2) == \A i \in Positions(m1, m2) : Value(m1, i) = Value(m2, i)
Above(m1, m2) == \A i \in Positions(m1, m2) : Value(m1, i) >= Value(m2, i)

Flat(m) == \A i \in DOMAIN m.wl : m.wl[i] = m.last

\* Pairs of subformulas of two operands of a union in g, simplified.
InOperands(g) ==
  LET parts(u) == [i \in DOMAIN u.fl |-> Subformulas(SimplifyFormula(u.fl[i]))]
      pairs(p) == UNION {UNION {p[i] \X p[j] : j \in DOMAIN p \ {i}} : i \in DOMAIN p}
  IN  UNION {pairs(parts(u)) : u \in {h \in Subformulas(g) : h.kind = "UNION"}}

\* Parts that the operands of a union have in common.
CommonParts(pairs) == {x[1] : x \in {y \in pairs : y[1] = y[2] /\ y[1].kind # "CONST"}}

\* Operands of a union that are the same but for the constant of a sum, which
\* const_of_sum finds in a sum of two only.
LostConstant(pairs) == \E x \in pairs :
  /\ x[1].kind = "PLUS" /\ Len(x[1].fl) > 2 /\ x[1].fl[1].kind = "CONST"
  /\ TermOfSum(x[1]) = TermOfSum(x[2])

ConditionsOf(g) == UNION {Range(h.conj) : h \in {x \in Subformulas(g) : x.kind = "BPROD"}}
OpposedPairs(g) == {x \in ConditionsOf(g) \X ConditionsOf(g) : Opposed(x[1], x[2])}

\* The exit of a loop in g is a sum.
NestedSum(g) == \E h \in Subformulas(g) :
  h.kind \in {"POWER", "POWERPARAM"} /\ SimplifyFormula(h.exit).kind = "PLUS"

-----------------------------------------------------------------------------
(* Properties                                                              *)

\* A simplified formula is worth, value by value and relative to the same
\* loop, what the formula was worth, under each valuation.  Where conditions
\* are taken for opposed it may be worth more, and less if they hold at once
\* (opposed does not look at the left-hand sides); the loop of a part that is
\* worth 0 may be lost.  Excepted are unions of operands with a common part
\* that is worth several values, which the simplified union holds once, and
\* sums of which the constant is lost.
WcetKept ==
  LET pairs == InOperands(f) common == CommonParts(pairs) opposed == OpposedPairs(f) IN
  ~HasError(simplified) /\ ~LostConstant(pairs) =>
    \A v \in {x \in Valuations : \A t \in common : Flat(Eval(x, t).m)} :
      LET before == Eval(v, f)
          after == Eval(v, simplified)
          worth(g) == LET w == Eval(v, g) IN Value(w.m, 1) # 0 \/ w.loop = LTop
      IN  /\ (\A x \in opposed : ~(Holds(v, x[1]) /\ Holds(v, x[2]))) => Above(after.m, before.m)
          /\ opposed = {} => SameValues(after.m, before.m)
          /\ opposed = {} /\ after.loop # before.loop => \E g \in Subformulas(f) : ~worth(g)

\* Simplification ends in an internal error only where a sum is the exit of a
\* loop: simplify_power then puts it unflattened into a sum, which merge_sums
\* cannot merge with another part.
ErrorsOnlyNested == HasError(simplified) => NestedSum(f)

\* What the rules rely on: sums and unions are flat and hold one constant at
\* most, in front (term_of_sum looks for it there); a product has no product
\* and no constant below it, a condition none below it, and conditions are in
\* order.  A union below a condition is left as it was.
Unsimplified(g) == {h.f : h \in {x \in Subformulas(g) : x.kind = "BPROD"}}
Canonical ==
  ~NestedSum(f) => \A h \in Subformulas(simplified) :
    CASE h.kind = "PLUS" \/ (h.kind = "UNION" /\ h \notin Unsimplified(simplified)) ->
           \A i \in DOMAIN h.fl : h.fl[i].kind # h.kind /\ (h.fl[i].kind = "CONST" => i = 1)
      [] h.kind = "PROD" -> h.f.kind \notin {"CONST", "PROD"} /\ h.k # 0
      [] h.kind = "BPROD" -> h.f.kind # "BPROD" /\ SortExpressions(h.conj) = h.conj
      [] OTHER -> TRUE

=============================================================================
