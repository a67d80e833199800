----------------------------- MODULE MCSimplify -----------------------------
(***************************************************************************)
(* Formulas of two constructs over constants, parameters, sums with and    *)
(* without a constant, a conditional part, a loop and an annotated part.    *)
(* Loop 1 is in loop 2.  The parameters are worth one value for ever, or    *)
(* several, and the argument that conditions test is negative, 0 or        *)
(* positive.                                                               *)
(***************************************************************************)
EXTENDS SimplifySoundness

MCHier == {<<1, 2>>}
Par(n) == [sym |-> TRUE, n |-> n]
Num(n) == [sym |-> FALSE, n |-> n]
T(k, x) == [coef |-> k, value |-> x]
Leq(c, terms) == [op |-> "LEQ", c |-> c, terms |-> terms]
Eq(c, terms) == [op |-> "EQ", c |-> c, terms |-> terms]

C(l, wl, last) == FConst(AWcet(l, MWcet(wl, last)))
P == FParam(1)
Q == FParam(2)
NonNegative == <<Leq(0, <<T(1, Par(1))>>)>>
NonPositive == <<Leq(0, <<T(-1, Par(1))>>)>>
Several == <<Leq(1, <<T(1, Par(1))>>), Eq(0, <<T(1, Par(2))>>)>>

MCOperands == {
  BotF, C(LTop, <<>>, 2), C(1, <<3>>, 1), P, Q,
  FPlus(<<C(LTop, <<>>, 1), P>>), FPlus(<<C(LTop, <<>>, 4), FPlus(<<P, Q>>)>>),
  FUnion(<<P, Q>>), FBProduct(NonPositive, P), FPower(P, BotF, 1, Num(2)), FAnnot(P, 1, 1)}
MCConditions == {NonNegative, NonPositive, Several}
MCBounds == {Num(2), Par(1)}
MCAnnotations == {<<1, 1>>}
MCFactors == {0, 2}
MCLoopIds == {1}
Flats == <<AWcet(LTop, MWcet(<<>>, 3)), AWcet(LTop, MWcet(<<>>, 5))>>
Lists == <<AWcet(1, MWcet(<<4>>, 1)), AWcet(2, MWcet(<<>>, 2))>>
Valuation(param, i) == [param |-> param, bound |-> <<2>>, arg |-> <<i, 0>>]
MCValuations == {Valuation(Flats, i) : i \in {-1, 0, 1}} \cup {Valuation(Lists, 0)}

=============================================================================
