-------------------------- MODULE LibpwcetSoundness --------------------------
(***************************************************************************)
(* What the printed program owes to whoever runs it: the WCET the algebra  *)
(* of abstract WCETs gives to the formula.                                 *)
(***************************************************************************)
EXTENDS Libpwcet

Algebra == INSTANCE AbstractWcet WITH LTop <- LOOP_TOP

\* How often the node f, a power, is iterated for the values v of the parameters.
Iterations(v, f) ==
  Clamp(IF f.kind = "powerparam" THEN v.form[f.param]
        ELSE IF f.param = None THEN f.k ELSE v.bound[f.param])

\* The abstract WCET of the node f, whose operands have the abstract WCETs xs.
Abstract(o) == Algebra!AWcet(o.loop, Algebra!MWcet(o.eta, o.others))
Meaning(v, f, xs) ==
  CASE f.kind = "const" -> Abstract(f)
    [] f.kind = "param" -> Abstract(v.aw[f.param])
    [] f.kind = "plus" -> Algebra!SumAll(xs)
    [] f.kind = "union" -> Algebra!UnionAll(xs)
    [] f.kind \in {"power", "powerparam"} ->
         Algebra!Pow(xs[1], Algebra!Bot, f.loop, Iterations(v, f))
    [] f.kind = "bproduct" -> IF f.conds \subseteq v.holds THEN xs[1] ELSE Algebra!Bot
    [] f.kind = "product" -> Algebra!Prod(f.k, xs[1])
    [] f.kind = "annot" /\ f.k # -1 -> Algebra!Annot(xs[1], f.loop, f.k)
    [] OTHER -> xs[1]

\* The abstract WCET of every node of the formula p.
Denoted(p, v) ==
  LET den[n \in DOMAIN p] == Meaning(v, p[n], [i \in DOMAIN p[n].kids |-> den[p[n].kids[i]]])
  IN  den
Denotation == Denoted(formula, val)

-----------------------------------------------------------------------------
(* Loops.  Where pwcet.c relates a list to another loop than the algebra, the two *)
(* are not comparable any more.  iterate forgets the loop of what is not iterated *)
(* at all; annot gives an empty list the loop of the annotation, be it inside or  *)
(* outside of the list's, and leaves a list alone, its loop and its values, that  *)
(* is relative to a loop around the annotation's and fits the annotation.         *)
SameLoop ==
  /\ Node.kind \in {"power", "powerparam"} /\ Iterations(val, Node) = 0 =>
       W1.loop \in {Node.loop, LOOP_TOP}
  /\ Node.kind = "annot" /\ Node.k # -1 =>
       /\ ~Kept(W1, Node.loop, Node.k)
       /\ W1.eta = <<>> => Algebra!Glb(W1.loop, Node.loop) = Node.loop

\* History: lists change in place, so a statement is judged when it is executed.
VARIABLE sameLoops   \* no statement so far was one of these

SoundInit == Init /\ sameLoops = TRUE
SoundNext == Next /\ sameLoops' = (sameLoops /\ SameLoop)
SoundSpec == SoundInit /\ [][SoundNext]_<<vars, sameLoops>>

Comparable == Linear(formula) /\ sameLoops

-----------------------------------------------------------------------------
\* Every position of every list that is still to be read compares as cmp says.
LivePositions(cmp(_, _)) ==
  \A n \in Live :
    LET m == Denotation[n].m IN
    \A i \in 1..(Len(heap[w[n]].eta) + Len(m.wl) + 1) :
      cmp(Elem(heap[w[n]], i), Algebra!Value(m, i))

\* return w0->eta_count == 0 ? w0->others : w0->eta[0]
Answer == Elem(heap[w[Len(formula)]], 1)

(* Without a limit on the size of lists, each list that is still to be read has *)
(* exactly the values of the algebra: neither the updates in place, nor the      *)
(* division by subtraction, nor the merge with cursors loses or adds one.        *)
LiveExact == Comparable /\ MaxSize = 0 => LivePositions(LAMBDA x, y : x = y)

(* With a limit, no value is below the one of the algebra: what max, annot and  *)
(* prune cut off a list stays covered by others.                                 *)
LiveSound == Comparable => LivePositions(LAMBDA x, y : x >= y)

(* max takes values off its operands in order and skips those that do not exceed *)
(* others: every list it, and the caller of annot, may be given decreases.       *)
LiveDecreasing == \A n \in Live : Decreases(heap[w[n]])

(* wcet() returns the WCET of the procedure for its argument values, or more.    *)
AnswerSound == status = "done" => Answer >= Algebra!Value(Denotation[Len(formula)].m, 1)
=============================================================================
