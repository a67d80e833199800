---------------------------- MODULE MCPyCompiler ----------------------------
(***************************************************************************)
(* Formulas of two constructs over constants, lists of one to three values, *)
(* conditional parts and parametric loops.  Loop 2 is in loop 1: loops are   *)
(* numbered from the outside, as compiler.py assumes.                        *)
(***************************************************************************)
EXTENDS PyCompiler

MCHier == {<<2, 1>>}
Par(n) == [sym |-> TRUE, n |-> n]
Num(n) == [sym |-> FALSE, n |-> n]
T(k, x) == [coef |-> k, value |-> x]
Leq(c, terms) == [op |-> "LEQ", c |-> c, terms |-> terms]

C(l, wl, last) == FConst(AWcet(l, MWcet(wl, last)))
Positive == <<Leq(1, <<T(1, Par(1))>>)>>
AtMostOne == <<Leq(0, <<T(-1, Par(1)), T(1, Num(1))>>)>>

MCOperands == {
  BotF, C(LTop, <<>>, 2), C(1, <<6, 5, 4>>, 1), C(2, <<7>>, 2), C(2, <<>>, 3),
  FBProduct(AtMostOne, C(2, <<5, 4>>, 1)),
  FPowerParam(C(1, <<9>>, 3), BotF, 2, <<T(1, Par(1))>>)}
MCConditions == {Positive, AtMostOne}
MCBounds == {Num(0), Num(3)}
MCAnnotations == {<<1, 2>>}
MCFactors == {2}
MCLoopIds == {1, 2}
Valuation(i, content) ==
  [param |-> <<>>, bound |-> <<>>, arg |-> <<i>>, content |-> content]
MCValuations == {Valuation(-1, 0), Valuation(0, 99), Valuation(1, 99), Valuation(2, 0), Valuation(3, 99)}

=============================================================================
