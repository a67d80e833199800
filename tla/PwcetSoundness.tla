--------------------------- MODULE PwcetSoundness ---------------------------
(***************************************************************************)
(* What the runtime of PWCET.c owes to its caller: the WCET the algebra of *)
(* abstract WCETs gives to the formula, for the valuation of the call.     *)
(***************************************************************************)
EXTENDS PwcetRuntime, FiniteSetsExt, SequencesExt

Algebra == INSTANCE AbstractWcet WITH LTop <- LOOP_TOP

-----------------------------------------------------------------------------
(* multi_wcet_size_bound and c_aw_placeholder: the array length each node   *)
(* is given.  After simplification the exit part of a power is bot, of size *)
(* 0, and the division by it rounds to 0.                                   *)

SizeBound(frm) ==
  LET size[n \in Nodes] ==
        LET f == frm[n]
            kid(i) == size[f.kids[i]]
        IN
        CASE f.kind = "CONST" -> Len(f.eta)
          [] f.kind = "AWCET" -> 1
          [] f.kind = "SEQ" -> Max({1} \cup {kid(i) : i \in DOMAIN f.kids})
          [] f.kind = "ALT" -> FoldLeft(LAMBDA sum, k : sum + size[k], 0, f.kids)
          [] f.kind = "LOOP" -> IF f.param = IDENT_NONE THEN 0 ELSE kid(1)
          [] f.kind = "ANN" -> f.count
          [] OTHER -> kid(1)
  IN  size

\* A constant has the array of its values; parametric loops and conditions are given
\* none, and may count as many values as their operands.
WithArrays(frm) ==
  LET size == SizeBound(frm)
      cap[n \in Nodes] ==
        CASE frm[n].kind = "CONST" -> size[n]
          [] frm[n].kind \in {"PARAM_LOOP", "BOOLMULT"} -> cap[frm[n].kids[1]]
          [] OTHER -> Max({1, size[n]})
  IN  [n \in Nodes |-> [frm[n] EXCEPT !.cap = cap[n]]]

-----------------------------------------------------------------------------
\* How often the loop f is iterated under the valuation v.
Iterations(v, f) ==
  LET b == IF f.kind = "PARAM_LOOP" THEN v.form[f.form]
           ELSE IF f.param # IDENT_NONE THEN v.bound[f.param] ELSE LoopBounds[f.loop]
  IN  IF b < 0 THEN 0 ELSE b

Holds(v, f) ==
  \A c \in f.conds : IF c.kind = "LEQ" THEN c.left <= v.form[c.form]
                                       ELSE c.left = v.form[c.form]

\* The list of values of a WCET p that the callback answers.
Given(p) == IF p.cnt = 0 THEN <<>> ELSE SubSeq(ListValues[p.eta], 1, p.cnt)
Decreasing(s, last) ==
  \A i \in DOMAIN s : s[i] >= last /\ \A j \in 1..i : s[j] >= s[i]

\* The abstract WCET of the node f, whose operands have the abstract WCETs xs.
Meaning(v, f, xs) ==
  LET ann == AnnOf(v, f) IN
  CASE f.kind = "CONST" -> Algebra!AWcet(f.loop, Algebra!MWcet(f.eta, f.others))
    [] f.kind = "AWCET" ->
         LET p == v.aw[f.param] IN Algebra!AWcet(p.loop, Algebra!MWcet(Given(p), p.others))
    [] f.kind = "SEQ" -> Algebra!SumAll(xs)
    [] f.kind = "ALT" -> Algebra!UnionAll(xs)
    [] f.kind \in {"LOOP", "PARAM_LOOP"} ->
         Algebra!Pow(xs[1], Algebra!Bot, f.loop, Iterations(v, f))
    [] f.kind = "BOOLMULT" -> IF Holds(v, f) THEN xs[1] ELSE Algebra!Bot
    [] f.kind = "INTMULT" -> Algebra!Prod(f.coef, xs[1])
    [] OTHER -> IF ann.count = -1 THEN xs[1]
                                  ELSE Algebra!Annot(xs[1], ann.loop, ann.count)

\* The abstract WCET of every node of frm under the valuation v.
Denotation(frm, v) ==
  LET den[n \in Nodes] ==
        Meaning(v, frm[n], [i \in DOMAIN frm[n].kids |-> den[frm[n].kids[i]]])
  IN  den

\* The WCET of the formula frm under the valuation v.
Wcet(frm, v) == Algebra!Value(Denotation(frm, v)[Root].m, 1)

\* The formulas the theorems are about: arrays that fit, decreasing lists in the
\* constants and from the callback, no product (awcet_intmult leaves loop_id and eta_count as they were
\* printed), no parametric loop that, left out, forgets the loop of its values, and
\* annotations of the loop that their operand is relative to, or of one inside of it
\* if the operand has no list that the annotation could conflict with.
Plain(frm) ==
  /\ Fits(frm)
  /\ \A n \in Nodes :
       LET f == frm[n]
           loop(v) == Denotation(frm, v)[f.kids[1]].loop
       IN
       /\ f.kind # "INTMULT"
       /\ f.kind = "CONST" =>
            f.others >= 0 /\ Decreasing(f.eta, f.others)
       /\ f.kind = "AWCET" =>
            \A v \in Valuations : LET p == v.aw[f.param] IN Decreasing(Given(p), p.others)
       /\ f.kind = "PARAM_LOOP" =>
            \A v \in Valuations : Iterations(v, f) = 0 => loop(v) \in {f.loop, LOOP_TOP}
       /\ f.kind = "ANN" =>
            \A v \in Valuations :
              LET a == AnnOf(v, f) IN
              \/ a.count = -1
              \/ loop(v) = a.loop
              \/ Scalar(frm, f.kids[1]) /\ Algebra!Glb(loop(v), a.loop) = a.loop

Answered == status = "idle" /\ calls > 0

-----------------------------------------------------------------------------
(* evaluate implements the WCET service: whatever calls came before and      *)
(* whatever they left in the headers and arrays, each call ends with at least *)
(* the WCET the algebra gives to the formula for the valuation of this call.  *)
Service ==
  INSTANCE WcetService WITH status <- IF status = "idle" THEN "idle" ELSE "busy",
                            asked <- val, answer <- result, Least <- Wcet
ImplementsService == Service!Spec

(* Not only the answer: every position of the computed list of values is at *)
(* least the one of the algebra, which is what a program that embeds the     *)
(* formula in a larger one (KIND_AWCET) goes on computing with.              *)
SoundList ==
  Answered => LET m == Denotation(formula, val)[Root].m IN
    \A j \in 0..(aw[Root].cnt + Len(m.wl)) : Elem(aw[Root], j) >= Algebra!Value(m, j + 1)

(* The first call, made on the tables as c_formula_rec printed them, computes *)
(* exactly the values of the abstract WCET of the formula.                    *)
FirstCallExact ==
  Answered /\ calls = 1 => LET den == Denotation(formula, val)[Root] IN
    /\ result = Wcet(formula, val)
    /\ \A j \in 0..(aw[Root].cnt + Len(den.m.wl)) :
         Elem(aw[Root], j) = Algebra!Value(den.m, j + 1)

(* Every call answers exactly the WCET of the formula for its valuation:    *)
(* what a program that instantiates one formula successively relies on.     *)
EveryCallExact == Answered => result = Wcet(formula, val)

(* The evaluation never goes wrong, annotated formulas included.            *)
NoFault == status # "fault"

(* Every call of evaluate ends, with an answer or with a fault.             *)
CallsEnd == status = "run" ~> status # "run"

=============================================================================
