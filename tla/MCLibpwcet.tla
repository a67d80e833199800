----------------------------- MODULE MCLibpwcet -----------------------------
(***************************************************************************)
(* Formulas for the model checker.  Loop 1 lies inside of loop 2.          *)
(***************************************************************************)
EXTENDS LibpwcetSoundness

CONSTANTS p1, p2   \* parameters

MCParams == {p1, p2}
MCHier == {<<1, 2>>}

Blank == [kind |-> "const", kids |-> <<>>, loop |-> LOOP_TOP, eta |-> <<>>, others |-> 0,
          k |-> 0, param |-> None, conds |-> {}]
Const(l, wl, last) == [Blank EXCEPT !.loop = l, !.eta = wl, !.others = last]
Parameter(p) == [Blank EXCEPT !.kind = "param", !.param = p]
Over(kind, kids) == [Blank EXCEPT !.kind = kind, !.kids = kids]
Power(l, b, n) == [Over("power", <<n>>) EXCEPT !.loop = l, !.k = b]
PowerBound(l, n) == [Over("power", <<n>>) EXCEPT !.loop = l, !.param = "N"]
PowerParam(l, n) == [Over("powerparam", <<n>>) EXCEPT !.loop = l, !.param = "x"]
When(c, n) == [Over("bproduct", <<n>>) EXCEPT !.conds = {c}]
Times(c, n) == [Over("product", <<n>>) EXCEPT !.k = c]
Annot(l, c, n) == [Over("annot", <<n>>) EXCEPT !.loop = l, !.k = c]

\* What may stand above node n.
Wrappers(n) ==
  {Power(1, 2, n), Power(2, 3, n), PowerBound(2, n), PowerParam(1, n), When("c", n), Times(2, n)}
Cuts(n) ==
  {Annot(2, c, n) : c \in {-1, 1, 2, 5}} \cup {Annot(1, c, n) : c \in {1, 3}} \cup {Over("prune", <<n>>)}

Leaves == {Const(2, <<7, 5, 3>>, 1), Const(2, <<6>>, 2), Const(1, <<4, 2>>, 0), Const(LOOP_TOP, <<>>, 3),
           Parameter(p1)}

\* An operation over two operands, one of them wrapped, below two wrappers.
MCFamily ==
  {<<a, b, inner, Over(op, <<1, 3>>), top, topmost>> :
     a \in Leaves, b \in {Const(1, <<6, 4>>, 2), Parameter(p2)}, inner \in Wrappers(2),
     op \in {"plus", "union"}, top \in Wrappers(4), topmost \in {Power(1, 2, 5), Power(2, 2, 5)}}
  \cup {<<a, b, Over(op, <<2, 1>>), Annot(2, 2, 3)>> :
          a \in Leaves, b \in {Const(2, <<6>>, 1)}, op \in {"plus", "union"}}
  \cup {<<Parameter(p1), Const(2, <<6>>, 1), Parameter(p2), Const(LOOP_TOP, <<>>, 1),
          Over(op, <<1, 2, 3, 4>>)>> : op \in {"plus", "union"}}

\* The same with lists that are cut.
MCCut ==
  {<<a, b, inner, Over(op, <<1, 3>>), top, topmost>> :
     a \in Leaves, b \in {Const(2, <<9, 8, 6, 4>>, 2), Parameter(p2)}, inner \in Cuts(2),
     op \in {"plus", "union"}, top \in Cuts(4), topmost \in {Power(1, 2, 5), Power(2, 2, 5)}}

MCValuation(b, x, holds) ==
  [aw |-> [p \in MCParams |-> IF p = p1 THEN [loop |-> LOOP_TOP, eta |-> <<>>, others |-> 5]
                              ELSE [loop |-> 2, eta |-> <<8, 8, 1>>, others |-> 1]],
   bound |-> [n \in {"N"} |-> b], form |-> [f \in {"x"} |-> x], holds |-> holds]
MCValuations == {MCValuation(0, 2, {"c"}), MCValuation(2, -1, {"c"}), MCValuation(3, 4, {})}

MCFormulas == MCFamily \cup MCCut

\* A procedure that is called once in a loop of parametric bound and once more.
MCShared ==
  {<<Parameter(p1), PowerBound(2, 1), Parameter(p1), Over(op, <<2, 3>>)>> : op \in {"plus", "union"}}
=============================================================================
