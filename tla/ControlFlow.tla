----------------------------- MODULE ControlFlow -----------------------------
(***************************************************************************)
(* Control-flow graphs as OTAWA hands them to the extractor of control-flow *)
(* trees: blocks and edges in the order of its iterators, the dominance    *)
(* relation and the loop information (loop headers, enclosing headers and  *)
(* the edges that leave loops).  OTAWA is not part of the repository; this  *)
(* module states what CFTree.cpp relies on.                                *)
(*                                                                         *)
(* A graph is [name, blocks, edges, calls]: blocks is a sequence that       *)
(* starts with the virtual entry and ends with the virtual exit, edges a    *)
(* sequence of pairs, calls maps the synthetic blocks to the names of the   *)
(* functions they call.  Analysed adds what OTAWA computes.                *)
(***************************************************************************)
EXTENDS Naturals, Sequences, FiniteSets, SequencesExt, FiniteSetsExt

None == "none"

BlocksOf(g) == Range(g.blocks)
EntryOf(g) == g.blocks[1]
ExitOf(g) == g.blocks[Len(g.blocks)]
IsSynth(g, b) == b \in DOMAIN g.calls
IsBasic(g, b) == b \notin {EntryOf(g), ExitOf(g)} \cup DOMAIN g.calls

EdgeIds(g) == [i \in DOMAIN g.edges |-> i]
Source(g, i) == g.edges[i][1]
Sink(g, i) == g.edges[i][2]
Outs(g, b) == SelectSeq(EdgeIds(g), LAMBDA i : Source(g, i) = b)
Ins(g, b) == SelectSeq(EdgeIds(g), LAMBDA i : Sink(g, i) = b)

\* The blocks reached from block b by the edges of a set, in paths that avoid
\* one block.
Reached(g, es, b, avoid) ==
  LET within[n \in 0..Len(g.blocks)] ==
        IF n = 0 THEN {b} \ {avoid}
        ELSE LET near == within[n - 1]
             IN  near \cup {e[2] : e \in {x \in es : x[1] \in near /\ x[2] # avoid}}
  IN  within[Len(g.blocks)]

Analysed(g) ==
  LET es == Range(g.edges)
      dom == [b \in BlocksOf(g) |->
                {d \in BlocksOf(g) : b \notin Reached(g, es, EntryOf(g), d)}]
      back == {e \in es : e[2] \in dom[e[1]]}
      headers == {e[2] : e \in back}
      reversed == {<<e[2], e[1]>> : e \in es}
      loop == [h \in headers |->
                 {h} \cup UNION {Reached(g, reversed, e[1], h) : e \in {x \in back : x[2] = h}}]
      around(b) == {h \in headers : b \in loop[h] /\ h # b}
      inner(hs) == IF hs = {} THEN None
                   ELSE CHOOSE h \in hs : \A k \in hs : h \in loop[k]
      outer(hs) == IF hs = {} THEN None
                   ELSE CHOOSE h \in hs : \A k \in hs : k \in loop[h]
  IN  [name |-> g.name, blocks |-> g.blocks, edges |-> g.edges, calls |-> g.calls,
       dom |-> dom, loop |-> loop,
       enclosing |-> [b \in BlocksOf(g) |-> inner(around(b))],
       exitOf |-> [i \in DOMAIN g.edges |->
                     outer({h \in headers : /\ Source(g, i) \in loop[h]
                                            /\ Sink(g, i) \notin loop[h]})]]

Headers(g) == DOMAIN g.loop
IsHeader(g, b) == b \in Headers(g)
Dominates(g, b1, b2) == b1 \in g.dom[b2]
IsBackEdge(g, i) == Dominates(g, Sink(g, i), Source(g, i))

\* Every block is on a path from the entry to some exit of a path, and the
\* graph without its back edges has no cycle.
Reducible(g) ==
  LET forward == {<<Source(g, i), Sink(g, i)>> : i \in {k \in DOMAIN g.edges : ~IsBackEdge(g, k)}}
  IN  \A e \in forward : e[1] \notin Reached(g, forward, e[2], None)

=============================================================================
