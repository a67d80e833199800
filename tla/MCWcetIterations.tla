-------------------------- MODULE MCWcetIterations --------------------------
(* Three nested loops, 1 innermost; the hierarchy is transitively closed.   *)
EXTENDS WcetIterations

MCNamed == 1..3
MCHier == {<<1, 2>>, <<2, 3>>, <<1, 3>>}
MCLists == {MWcet(<<>>, 2), MWcet(<<3>>, 1), MWcet(<<4, 1>>, 0)}
MCOperands == {AWcet(l, m) : l \in MCNamed, m \in MCLists} \cup {AWcet(LTop, MWcet(<<>>, 1))}
MCExits == {Bot, AWcet(3, MWcet(<<2>>, 1))}
MCFactors == {0, 2}
MCIterations == 0..2
=============================================================================
