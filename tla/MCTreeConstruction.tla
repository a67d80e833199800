-------------------------- MODULE MCTreeConstruction --------------------------
(***************************************************************************)
(* Programs: every reducible graph of up to three blocks, with one or two   *)
(* successors each, before a block that returns, without and with a cache   *)
(* line that is missed once; graphs of four blocks in a line with jumps; a  *)
(* line of each category; and programs of several functions.               *)
(***************************************************************************)
EXTENDS TreeSoundness

B(k) == SubSeq(<<"b1", "b2", "b3", "b4">>, 1, k)
Outsets(k) == {s \in SUBSET (Range(B(k)) \cup {"r"}) : Cardinality(s) \in 1..2}

Function(name, blocks, edges, calls) ==
  Analysed([name |-> name, blocks |-> blocks, edges |-> edges, calls |-> calls])

GraphFrom(k, outs) ==
  Function("main", <<"e">> \o B(k) \o <<"r", "x">>,
    <<<<"e", "b1">>>> \o
      FlattenSeq([i \in 1..k |->
        LET ts == SelectSeq(Append(B(k), "r"), LAMBDA t : t \in outs[i])
        IN  [j \in DOMAIN ts |-> <<B(k)[i], ts[j]>>]]) \o <<<<"r", "x">>>>,
    <<>>)

\* Numbered in the order in which a breadth-first search finds them.
Numbered(k, outs) ==
  LET found(i) == CHOOSE j \in 1..k : /\ B(k)[i] \in outs[j]
                                      /\ \A l \in 1..(j - 1) : B(k)[i] \notin outs[l]
  IN  /\ \A i \in 2..k : \E j \in 1..(i - 1) : B(k)[i] \in outs[j]
      /\ \A i \in 3..k : found(i - 1) <= found(i)

Usable(g) ==
  /\ Reducible(g)
  /\ \A b \in BlocksOf(g) : "x" \in Reached(g, Range(g.edges), b, None)

Small(k) ==
  {g \in {GraphFrom(k, outs) : outs \in {o \in [1..k -> Outsets(k)] : Numbered(k, o)}} :
     Usable(g)}

\* Blocks in a line, each with at most one jump to another.
InLine(k) ==
  {g \in {GraphFrom(k, outs) :
          outs \in {o \in [1..k -> Outsets(k)] :
                     \A i \in 1..k : Append(B(k), "r")[i + 1] \in o[i]}} :
     Usable(g)}

\* Every block has a condition of its own.
Program(cfgs, params) ==
  LET bs == UNION {BlocksOf(cfgs[i]) : i \in DOMAIN cfgs}
      es == UNION {{<<cfgs[i].name, e>> : e \in DOMAIN cfgs[i].edges} : i \in DOMAIN cfgs}
  IN  [main |-> "main", cfgs |-> cfgs, params |-> params,
       cond |-> [b \in bs |-> b], bounds |-> [b \in bs |-> None],
       lines |-> [b \in bs |-> <<>>], time |-> [b \in bs |-> 0],
       edgeTime |-> [e \in es |-> 0], penalty |-> 1, turns |-> 2]

WithLine(p, b, cat, h) == [p EXCEPT !.lines[b] = <<[cat |-> cat, header |-> h]>>]

OneFunction == {Program(<<g>>, {}) : g \in UNION {Small(k) : k \in 1..3}}
Lines == {[Program(<<g>>, {}) EXCEPT !.turns = 1] : g \in InLine(4)}

FirstMisses ==
  UNION {{WithLine(Program(<<g>>, {}), l[1], "FIRST_MISS", l[2]) :
            l \in {q \in BlocksOf(g) \X Headers(g) : q[1] \in g.loop[q[2]]}} :
         g \in UNION {Small(k) : k \in 1..3}}

-----------------------------------------------------------------------------
(* Programs of several functions                                           *)

\* a; if (..) s() else b; c
Branches(call) == Function("main", <<"e", "a", "s", "b", "c", "x">>,
  <<<<"e", "a">>, <<"a", "s">>, <<"a", "b">>, <<"s", "c">>, <<"b", "c">>, <<"c", "x">>>>,
  [s |-> call])
TwoEnds == Function("f", <<"fe", "f1", "f2", "f3", "fx">>,
  <<<<"fe", "f1">>, <<"f1", "f2">>, <<"f1", "f3">>, <<"f2", "fx">>, <<"f3", "fx">>>>, <<>>)
TailCall == Function("f", <<"fe", "f1", "t", "fx">>,
  <<<<"fe", "f1">>, <<"f1", "t">>, <<"t", "fx">>>>, [t |-> "g"])
FirstCall == Function("f", <<"fe", "t", "f1", "fx">>,
  <<<<"fe", "t">>, <<"t", "f1">>, <<"f1", "fx">>>>, [t |-> "g"])
Straight == Function("g", <<"ge", "g1", "gx">>, <<<<"ge", "g1">>, <<"g1", "gx">>>>, <<>>)
NoReturn == Function("f", <<"fe", "f1", "fx">>, <<<<"fe", "f1">>, <<"f1", "f1">>>>, <<>>)
WithLoop == Function("f", <<"fe", "f1", "f2", "f3", "fx">>,
  <<<<"fe", "f1">>, <<"f1", "f2">>, <<"f2", "f2">>, <<"f2", "f3">>, <<"f3", "fx">>>>, <<>>)

\* a loop of h around a call, b2 behind it
CallInLoop(call) == Function("main", <<"e", "a", "h", "s", "b", "c", "x">>,
  <<<<"e", "a">>, <<"a", "h">>, <<"h", "s">>, <<"h", "c">>, <<"s", "b">>, <<"b", "h">>,
    <<"c", "x">>>>, [s |-> call])
ReturnFromLoop == Function("main", <<"e", "a", "h", "b", "x">>,
  <<<<"e", "a">>, <<"a", "h">>, <<"h", "b">>, <<"h", "x">>, <<"b", "h">>>>, <<>>)

Several == {
  Program(<<Branches("f"), TwoEnds>>, {}),
  Program(<<Branches("f"), TwoEnds>>, {"f"}),
  Program(<<Branches("f"), TailCall, Straight>>, {}),
  Program(<<Branches("f"), NoReturn>>, {}),
  Program(<<Branches("f"), NoReturn>>, {"f"}),
  Program(<<CallInLoop("f"), WithLoop>>, {}),
  Program(<<CallInLoop("f"), TailCall, Straight>>, {}),
  Program(<<CallInLoop("f"), FirstCall, Straight>>, {}),
  Program(<<ReturnFromLoop>>, {})}

Categorised == {WithLine(Program(<<g>>, {}), "b1", cat, h) :
                  g \in Small(2), cat \in Categories, h \in {"b1", "b2", None}}

MCPrograms == OneFunction \cup Lines \cup FirstMisses \cup Several \cup Categorised

=============================================================================
