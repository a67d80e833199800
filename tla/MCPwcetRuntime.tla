--------------------------- MODULE MCPwcetRuntime ---------------------------
(***************************************************************************)
(* Formulas for the model checker.  Loop 1 lies inside of loop 2.          *)
(* Parameters: 1 is a loop bound or an annotation, 2 the WCET of a         *)
(* procedure.  x is a boolean parameter (a procedure argument).            *)
(***************************************************************************)
EXTENDS PwcetSoundness

MCNodes == 1..6
MCLoops == {1, 2}
MCHier == {<<1, 2>>}
MCLoopBounds == [l \in MCLoops |-> l + 1]
MCHeap == {101, 102}
MCLists == {201}
MCListValues == [l \in MCLists |-> <<6>>]
MCParams == {1, 2}
MCForms == {"x", "2x-1"}

Blank == [kind |-> "CONST", kids |-> <<>>, param |-> 0, loop |-> -1, count |-> 0,
          coef |-> 0, conds |-> {}, form |-> "x", eta |-> <<>>, others |-> 0, cap |-> 0]
Const(l, wl, last) == [Blank EXCEPT !.loop = l, !.eta = wl, !.others = last]
Callee == [Blank EXCEPT !.kind = "AWCET", !.param = 2]
Over(kind, kids) == [Blank EXCEPT !.kind = kind, !.kids = kids]
Loop(l, k) == [Over("LOOP", <<k>>) EXCEPT !.loop = l]
LoopParam(l, k) == [Loop(l, k) EXCEPT !.param = 1]
ParamLoop(l, f, k) == [Over("PARAM_LOOP", <<k>>) EXCEPT !.loop = l, !.form = f]
Annotated(l, c, k) == [Over("ANN", <<k>>) EXCEPT !.loop = l, !.count = c]
AnnotatedParam(k) == [Annotated(2, 0, k) EXCEPT !.param = 1]
Mult(c, k) == [Over("INTMULT", <<k>>) EXCEPT !.coef = c]
When(kind, left, f, k) ==
  [Over("BOOLMULT", <<k>>) EXCEPT
     !.conds = {[kind |-> kind, left |-> left, form |-> f]}]

Table(nodes) ==
  WithArrays([n \in Nodes |-> IF n \in DOMAIN nodes THEN nodes[n] ELSE Blank])

\* What may stand above node k.
Wrappers(k) ==
  {Loop(1, k), Loop(2, k), LoopParam(2, k), ParamLoop(1, "2x-1", k),
   Annotated(2, 1, k), When("LEQ", 1, "x", k)}

\* Two wrappers above a sequence or an alternative of a constant and of a
\* callee, or of a conditional constant.  A constant relative to loop 1 stands
\* in loop 1.  Beside a callee, whose WCET may have a value of its own, the constant
\* of an alternative has one value: the array of a loop above has room for two.
\* awcet_intmult leaves loop_id and eta_count as they were printed, so that a product
\* only stands where these happen to be right.
MCOperands ==
  {[op |-> op, first |-> wl, last |-> Callee] :
     <<op, wl>> \in {<<"SEQ", <<5, 3>>>>, <<"ALT", <<5>>>>}}
  \cup {[op |-> op, first |-> <<5, 3>>, last |-> When("EQ", 2, "x", 6)] : op \in {"SEQ", "ALT"}}

MCFamily ==
  {Table(<<w[1], w[2], Over(o.op, <<4, 5>>), Const(2, o.first, 2), o.last, Const(2, <<>>, 4)>>) :
     w \in Wrappers(2) \X Wrappers(3), o \in MCOperands}
  \cup {Table(<<outer, inner, Over(o.op, <<4, 5>>), Const(1, <<4>>, 1), o.last,
                Const(2, <<>>, 4)>>) :
          outer \in Wrappers(2), inner \in {Loop(1, 3), ParamLoop(1, "2x-1", 3)},
          o \in MCOperands}
  \cup {Table(<<outer, Mult(3, 3), Over("SEQ", <<4, 5>>), Const(2, <<9>>, 4), Callee>>) :
          outer \in {Loop(1, 2), ParamLoop(1, "2x-1", 2), When("LEQ", 1, "x", 2)}}

\* Formulas with features that can go wrong: annotations of the inner loop on
\* values of the outer one, annotations given by the callback, alternatives with
\* more values than the loop above them makes room for, three operands for two
\* cursors, and ones the generator may print without any of these.
MCRisky ==
  {Table(<<outer, inner, Over(op, <<4, 5>>), Const(2, <<5, 3>>, 2), last,
           Const(2, <<4>>, 0)>>) :
     outer \in Wrappers(2),
     inner \in {Annotated(1, 1, 3), Annotated(1, 3, 3), AnnotatedParam(3), Loop(1, 3),
                LoopParam(1, 3), Mult(2, 3)},
     op \in {"SEQ", "ALT"},
     last \in {Callee, When("EQ", 2, "x", 6)}}
  \cup {Table(<<Over(op, <<2, 3, 4>>), Callee, Const(2, <<2>>, 1), Const(1, <<3>>, 1)>>) :
          op \in {"SEQ", "ALT"}}

Answer(l, cnt, e, last, header) ==
  [loop |-> l, cnt |-> cnt, eta |-> e, others |-> last, header |-> header]

MCValuation(b, w, header, x) ==
  [bound |-> <<b, b>>,
   ann |-> [p \in MCParams |-> [loop |-> 2, count |-> b - 1]],
   aw |-> <<Answer(-1, 0, NULL, 0, TRUE), Answer(-1, 0, NULL, w, header)>>,
   form |-> [f \in MCForms |-> IF f = "x" THEN x ELSE 2 * x - 1]]

\* The procedure takes longer once in each execution of loop 2.
MCWithList(b, w, x) ==
  [MCValuation(b, w, TRUE, x) EXCEPT !.aw[2] = Answer(2, 1, 201, w, TRUE)]

MCValuations == {MCValuation(1, 1, TRUE, 0), MCValuation(2, 4, TRUE, 2),
                 MCWithList(3, 2, 1)}

\* Bounds 0 and below, and a callback that leaves eta_count as it finds it.
MCRiskyValuations == {MCValuation(0, 1, TRUE, 0), MCValuation(2, 4, FALSE, 2),
                      MCWithList(-2, 1, 1)}

\* A loop with a variable body, whose instances are computed one after another.
MCSuccessive ==
  {Table(<<Loop(2, 2), Over("SEQ", <<3, 4>>), Const(2, <<5, 3>>, 2), Callee>>)}

=============================================================================
