------------------------------ MODULE Simplify ------------------------------
(***************************************************************************)
(* The simplification of WCET formulas (simplify/simplify.ml, the formulas  *)
(* of simplify/wcet_formula.ml).  Parameters and named loops are numbers;   *)
(* the list functions of sums and of unions are the same but for the rules  *)
(* of a pair, so they are written once, for the operator op.  A call of     *)
(* internal_error ends the program; here it gives the formula FError.       *)
(***************************************************************************)
EXTENDS AbstractWcet, FiniteSetsExt

FConst(w) == [kind |-> "CONST", w |-> w]
FParam(p) == [kind |-> "PARAM", p |-> p]
FPlus(fl) == [kind |-> "PLUS", fl |-> fl]
FUnion(fl) == [kind |-> "UNION", fl |-> fl]
\* it is a symbolic integer, [sym, n]: a number, or the parameter n
FPower(body, exit, l, it) == [kind |-> "POWER", body |-> body, exit |-> exit, l |-> l, it |-> it]
\* terms is a sum of terms [coef, value], value a constant or a parameter [sym, n]
FPowerParam(body, exit, l, terms) ==
  [kind |-> "POWERPARAM", body |-> body, exit |-> exit, l |-> l, terms |-> terms]
FAnnot(f, l, it) == [kind |-> "ANNOT", f |-> f, l |-> l, it |-> it]
FProduct(k, f) == [kind |-> "PROD", k |-> k, f |-> f]
\* conj is a list of [op, c, terms]: c <= terms (LEQ), c = terms (EQ), or c (BOOL)
FBProduct(conj, f) == [kind |-> "BPROD", conj |-> conj, f |-> f]
BotF == FConst(Bot)
FError == [kind |-> "ERROR"]

-----------------------------------------------------------------------------
(* The order of formulas                                                   *)

LessLoop(l1, l2) == l2 = LTop \/ (l1 # LTop /\ l1 < l2)

LessSint(i, j) == i.sym = j.sym /\ i.n < j.n

\* Decided by the first position at which the two lists differ.
LessAwcet(m1, m2) ==
  \E i \in 1..(Max({Len(m1.wl), Len(m2.wl)}) + 1) :
    /\ Value(m1, i) < Value(m2, i)
    /\ \A j \in 1..(i - 1) : Value(m1, j) = Value(m2, j)

\* The least parameter before the first constant, -1 if there is none.
LowestId(terms) ==
  LET n == Len(terms)
      first == Min({i \in DOMAIN terms : ~terms[i].value.sym} \cup {n + 1})
      ids == {terms[i].value.n : i \in 1..(first - 1)}
  IN  IF ids = {} THEN -1 ELSE Min(ids)

LowestIdExpressions(conj) ==
  LET first == Min({i \in DOMAIN conj : conj[i].op = "BOOL"} \cup {Len(conj) + 1})
      \* an expression without parameters hides the ones before it
      from[i \in 1..first] ==
        IF i = first THEN -1
        ELSE LET id == LowestId(conj[i].terms) ido == from[i + 1]
             IN  IF ido = -1 \/ id < ido THEN id ELSE ido
  IN  from[1]

ConstTerm(terms) ==
  LET cs == {i \in DOMAIN terms : ~terms[i].value.sym}
  IN  IF cs = {} THEN 0 ELSE terms[Min(cs)].value.n

ExpressionDiff(e1, e2) ==
  LET diff == LowestId(e1.terms) - LowestId(e2.terms)
      len == Len(e1.terms) - Len(e2.terms)
  IN  CASE e1.op = "BOOL" -> -1
        [] e1.op # "BOOL" /\ e2.op = "BOOL" -> 1
        [] OTHER -> IF diff # 0 THEN diff
                    ELSE IF len # 0 THEN len
                    ELSE ConstTerm(e1.terms) - ConstTerm(e2.terms)

\* List.sort is stable.
SortExpressions(conj) ==
  LET into(s, e) ==
        LET p == CHOOSE k \in 0..Len(s) :
                   /\ \A i \in 1..k : ExpressionDiff(s[i], e) <= 0
                   /\ k < Len(s) => ExpressionDiff(s[k + 1], e) > 0
        IN  InsertAt(s, p + 1, e)
  IN  FoldLeft(into, <<>>, conj)

Kinds_ConstLast ==
  <<"POWERPARAM", "BPROD", "PROD", "PLUS", "UNION", "POWER", "ANNOT", "PARAM", "CONST">>
Kinds == <<"CONST", "POWERPARAM", "BPROD", "PROD", "PLUS", "UNION", "POWER", "ANNOT", "PARAM">>
Rank(f) == CHOOSE i \in DOMAIN Kinds : Kinds[i] = f.kind

\* By the lowest parameter first, then by the length.
LessByParams(id1, len1, id2, len2) == id1 < id2 \/ (id1 = id2 /\ len1 < len2)

RECURSIVE LessF(_, _)
LessF(f1, f2) ==
  IF f1.kind # f2.kind THEN Rank(f1) < Rank(f2) ELSE
  CASE f1.kind = "CONST" ->
         IF f1.w.m # f2.w.m THEN LessAwcet(f1.w.m, f2.w.m) ELSE LessLoop(f1.w.loop, f2.w.loop)
    [] f1.kind = "PARAM" -> f1.p < f2.p
    [] f1.kind \in {"PLUS", "UNION"} ->     \* from the last operand on
         LET a == Reverse(f1.fl) b == Reverse(f2.fl)
             differ == {i \in DOMAIN a \cap DOMAIN b : a[i] # b[i]}
         IN  IF differ = {} THEN Len(a) < Len(b) ELSE LessF(a[Min(differ)], b[Min(differ)])
    [] f1.kind = "PROD" -> IF f1.f # f2.f THEN LessF(f1.f, f2.f) ELSE f1.k < f2.k
    [] f1.kind = "POWER" ->
         IF f1.it # f2.it THEN LessSint(f1.it, f2.it)
         ELSE IF f1.l # f2.l THEN LessLoop(f1.l, f2.l)
         ELSE IF f1.exit # f2.exit THEN LessF(f1.exit, f2.exit)
         ELSE LessF(f1.body, f2.body)
    [] f1.kind = "ANNOT" ->
         IF f1.it # f2.it THEN f1.it < f2.it
         ELSE IF f1.l # f2.l THEN LessLoop(f1.l, f2.l)
         ELSE LessF(f1.f, f2.f)
    [] f1.kind = "BPROD" ->
         LessByParams(LowestIdExpressions(f1.conj), Len(f1.conj),
                      LowestIdExpressions(f2.conj), Len(f2.conj))
    [] OTHER ->
         LessByParams(LowestId(f1.terms), Len(f1.terms), LowestId(f2.terms), Len(f2.terms))

-----------------------------------------------------------------------------
(* Conditions                                                              *)

IntersectionComplement(conj1, conj2) == SelectSeq(conj1, LAMBDA e : ~Contains(conj2, e))

OpposedTermLeq(t1, t2) ==
  LET limit(t) == IF t.coef >= 0 THEN t.value.n ELSE t.value.n - 1
  IN  /\ t1.coef = -t2.coef
      /\ t1.value.sym = t2.value.sym
      /\ IF t1.value.sym THEN t1.value.n = t2.value.n ELSE limit(t1) = limit(t2)

\* Each term of the first expression is opposed to the first term of the
\* second that has the same parameter, or is a constant as well.
OpposedLe(terms1, terms2) ==
  \A i \in DOMAIN terms1 :
    LET v == terms1[i].value
        same == {j \in DOMAIN terms2 : /\ terms2[j].value.sym = v.sym
                                       /\ v.sym => terms2[j].value = v}
    IN  same # {} /\ OpposedTermLeq(terms1[i], terms2[Min(same)])

Opposed(e1, e2) ==
  /\ e1.op = "LEQ" /\ e2.op = "LEQ"
  /\ Len(e1.terms) = Len(e2.terms)
  /\ OpposedLe(e1.terms, e2.terms)

OpposedConjunctions(conj1, conj2) ==
  \A i \in DOMAIN conj1 : \E j \in DOMAIN conj2 : Opposed(conj1[i], conj2[j])

-----------------------------------------------------------------------------
(* Sums and unions                                                         *)

TermOfProd(f) == IF f.kind = "PROD" THEN f.f ELSE f
ConstOfProd(f) == IF f.kind = "PROD" THEN f.k ELSE 1

TermOfSum(f) ==
  IF f.kind = "PLUS" /\ f.fl[1].kind = "CONST" THEN FPlus(Tail(f.fl)) ELSE f
ConstOfSum(f) ==
  IF f.kind = "PLUS" /\ Len(f.fl) = 2 /\ f.fl[1].kind = "CONST" THEN f.fl[1] ELSE BotF

\* op is PLUS or UNION
Operation(op, fl) == IF op = "PLUS" THEN FPlus(fl) ELSE FUnion(fl)
ConstOperation(op, v, w) ==
  IF v = Bot THEN w ELSE IF w = Bot THEN v
  ELSE IF op = "PLUS" THEN Sum(v, w) ELSE Union(v, w)
Term(op, f) == IF op = "PLUS" THEN TermOfProd(f) ELSE TermOfSum(f)
SameTerm(op, f1, f2) ==
  f1.kind # "CONST" /\ f2.kind # "CONST" /\ Term(op, f1) = Term(op, f2)

RECURSIVE Rec(_, _), Merge(_, _, _)

Simp(op, fl) ==
  IF Len(fl) = 1 THEN fl[1]
  ELSE LET r == Rec(op, fl) IN IF Len(r) = 1 THEN r[1] ELSE Operation(op, r)
SimplifySum(fl) == Simp("PLUS", fl)
SimplifyUnion(fl) == Simp("UNION", fl)

\* Two conditional parts.
Distribute(op, f1, f2) ==
  LET in12 == Range(f1.conj) \subseteq Range(f2.conj)
      in21 == Range(f2.conj) \subseteq Range(f1.conj)
      common == IF in12 THEN f1.conj ELSE f2.conj
      inside(g) == LET rest == IntersectionComplement(g.conj, common)
                   IN  IF rest = <<>> THEN g.f ELSE FBProduct(rest, g.f)
      parts == <<inside(f1), inside(f2)>>
  IN  CASE in12 /\ in21 /\ op = "UNION" -> <<FBProduct(common, FUnion(parts))>>
        [] in12 # in21 \/ (in12 /\ op = "PLUS") -> <<FBProduct(common, Simp(op, parts))>>
        [] OTHER -> IF OpposedConjunctions(f1.conj, f2.conj) /\ f1.f = f2.f
                    THEN <<f1.f>> ELSE <<f1, f2>>

Factor(op, f1, f2) ==
  IF op = "PLUS" THEN FProduct(ConstOfProd(f1) + ConstOfProd(f2), TermOfProd(f1))
  ELSE SimplifySum(<<FUnion(<<SimplifyUnion(<<ConstOfSum(f1), ConstOfSum(f2)>>)>>), TermOfSum(f1)>>)

PartsOf(op, g) == IF g.kind = op THEN g.fl ELSE <<g>>

Pair_LeftOnly(op, f1, f2) ==
  CASE f1.kind = op -> Merge(op, f1.fl, PartsOf(op, f2))
    [] f1.kind = "CONST" /\ f2.kind = "CONST" -> <<FConst(ConstOperation(op, f1.w, f2.w))>>
    [] f1.kind = "BPROD" /\ f2.kind = "BPROD" -> Distribute(op, f1, f2)
    [] OTHER -> IF SameTerm(op, f1, f2) THEN <<Factor(op, f1, f2)>>
                ELSE IF LessF(f2, f1) THEN <<f2, f1>> ELSE <<f1, f2>>
Pair(op, f1, f2) ==
  CASE op \in {f1.kind, f2.kind} -> Merge(op, PartsOf(op, f1), PartsOf(op, f2))
    [] f1.kind = "CONST" /\ f2.kind = "CONST" -> <<FConst(ConstOperation(op, f1.w, f2.w))>>
    [] f1.kind = "BPROD" /\ f2.kind = "BPROD" -> Distribute(op, f1, f2)
    [] OTHER -> IF SameTerm(op, f1, f2) THEN <<Factor(op, f1, f2)>>
                ELSE IF LessF(f2, f1) THEN <<f2, f1>> ELSE <<f1, f2>>

\* Of at least two operands.
Rec(op, fl) ==
  IF Len(fl) < 2 THEN <<FError>>
  ELSE IF Len(fl) = 2 THEN Pair(op, fl[1], fl[2])
  ELSE Merge(op, PartsOf(op, fl[1]), Rec(op, Tail(fl)))

\* What became of the first operands is told by comparing the result of the
\* rules with them: both became one, or one of them is done.
Merge(op, fl1, fl2) ==
  IF fl1 = <<>> THEN fl2 ELSE IF fl2 = <<>> THEN fl1 ELSE
  LET h1 == Head(fl1) h2 == Head(fl2)
      l == IF FError \in {h1, h2} THEN <<>> ELSE Rec(op, <<h1, h2>>)
      rest1 == IF Len(l) = 1 \/ l[1] = h1 THEN Tail(fl1) ELSE fl1
      rest2 == IF Len(l) = 1 \/ l[1] # h1 THEN Tail(fl2) ELSE fl2
  IN  IF Len(l) = 1 \/ (Len(l) = 2 /\ l[1] \in {h1, h2})
      THEN <<l[1]>> \o Merge(op, rest1, rest2)
      ELSE <<FError>>

-----------------------------------------------------------------------------
(* The other operators                                                     *)

RECURSIVE SimplifyProduct(_, _)
SimplifyProduct(k, f) ==
  CASE k = 0 -> BotF
    [] k # 0 /\ f.kind = "CONST" -> FConst(Prod(k, f.w))
    [] k # 0 /\ f.kind = "PROD" -> SimplifyProduct(k * f.k, f.f)
    [] OTHER -> FProduct(k, f)

SimplifyAnnot(f, l, it) ==
  CASE f.kind = "CONST" -> FConst(Annot(f.w, l, it))
    [] f.kind = "BPROD" -> FBProduct(f.conj, FAnnot(f.f, l, it))
    [] OTHER -> FAnnot(f, l, it)

Hoist_Conditional(loop) ==
  LET of(body) == [loop EXCEPT !.body = body, !.exit = BotF]
  IN  IF loop.body.kind = "BPROD" THEN FBProduct(loop.body.conj, of(loop.body.f))
      ELSE FPlus(<<loop.exit, of(loop.body)>>)
\* The exit leaves the loop, and the condition of the body does.
Hoist(loop) ==
  LET of(body) == [loop EXCEPT !.body = body, !.exit = BotF]
      inner == IF loop.body.kind = "BPROD"
               THEN FBProduct(loop.body.conj, of(loop.body.f)) ELSE of(loop.body)
  IN  IF loop.body.kind = "BPROD" /\ loop.exit = BotF THEN inner
      ELSE FPlus(<<loop.exit, inner>>)

SimplifyPower(f) ==
  IF f.body.kind = "CONST" /\ f.exit.kind = "CONST" /\ ~f.it.sym
  THEN FConst(Pow(f.body.w, f.exit.w, f.l, f.it.n))
  ELSE Hoist(f)

SimplifyPowerParam(f) == Hoist(f)

SimplifyBproduct(conj, t) ==
  LET constant == Len(conj) = 1 /\ conj[1].op = "BOOL"
      included == Range(conj) = Range(t.conj)
  IN  CASE t = BotF -> BotF
        [] t # BotF /\ constant -> IF conj[1].c THEN t ELSE BotF
        [] t # BotF /\ ~constant /\ t.kind = "BPROD" ->
             FBProduct(IF included THEN SortExpressions(conj)
                       ELSE SortExpressions(SortExpressions(conj) \o t.conj), t.f)
        [] OTHER -> FBProduct(SortExpressions(conj), t)

Parts(f) ==
  CASE f.kind \in {"CONST", "PARAM", "ERROR"} -> <<>>
    [] f.kind \in {"PLUS", "UNION"} -> f.fl
    [] f.kind \in {"POWER", "POWERPARAM"} -> <<f.body, f.exit>>
    [] OTHER -> <<f.f>>
WithParts(f, parts) ==
  CASE parts = <<>> -> f
    [] f.kind \in {"PLUS", "UNION"} -> [f EXCEPT !.fl = parts]
    [] f.kind \in {"POWER", "POWERPARAM"} -> [f EXCEPT !.body = parts[1], !.exit = parts[2]]
    [] OTHER -> [f EXCEPT !.f = parts[1]]

RECURSIVE Subformulas(_)
Subformulas(f) == {f} \cup UNION {Subformulas(g) : g \in Range(Parts(f))}

HasError(f) == FError \in Subformulas(f)

\* One formula, of simplified parts.
SimplifyTop(f) ==
  CASE f.kind \in {"CONST", "PARAM"} -> f
    [] f.kind \in {"PLUS", "UNION"} -> Simp(f.kind, f.fl)
    [] f.kind = "PROD" -> SimplifyProduct(f.k, f.f)
    [] f.kind = "ANNOT" -> SimplifyAnnot(f.f, f.l, f.it)
    [] f.kind = "POWER" -> SimplifyPower(f)
    [] f.kind = "POWERPARAM" -> SimplifyPowerParam(f)
    [] f.kind = "BPROD" -> SimplifyBproduct(f.conj, f.f)

\* First the parts.  An internal error ends it all.
RECURSIVE SimplifyFormula(_)
SimplifyFormula(f) ==
  LET parts == [i \in DOMAIN Parts(f) |-> SimplifyFormula(Parts(f)[i])]
      s == IF FError \in Range(parts) THEN FError ELSE SimplifyTop(WithParts(f, parts))
  IN  IF HasError(s) THEN FError ELSE s

=============================================================================
