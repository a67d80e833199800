-------------------------------- MODULE Trees --------------------------------
(***************************************************************************)
(* Control-flow trees: leaves, alternatives, alternatives with conditions, *)
(* sequences and loops with a body and an exit tree.  A leaf stands for a  *)
(* block of a function, for nothing, for the pipeline effect of an edge    *)
(* or for the memory accesses of a cache line.                             *)
(***************************************************************************)
EXTENDS ControlFlow

Leaf(b) == [kind |-> "LEAF", type |-> "BLOCK", block |-> b]
NoLeaf == [kind |-> "LEAF", type |-> "NONE"]
\* The fake block made for an empty branch; edge is its EDGE_ALIAS.
PipelineLeaf(edge) == [kind |-> "LEAF", type |-> "PIPELINE", edge |-> edge]
CacheLeaf(hit, cat, loop) ==
  [kind |-> "LEAF", type |-> "CACHE", hit |-> hit, cat |-> cat, loop |-> loop]
Alt(ch) == [kind |-> "ALT", ch |-> ch]
ConditionalAlt(ch, conds) == [kind |-> "COND_ALT", ch |-> ch, conds |-> conds]
Seqn(ch) == [kind |-> "SEQ", ch |-> ch]
\* bound: None for a loop whose bound is a number of the flow facts.
Loop(h, bound, body, exit) ==
  [kind |-> "LOOP", header |-> h, bound |-> bound, body |-> body, exit |-> exit]

IsBlockLeaf(t) == t.kind = "LEAF" /\ t.type = "BLOCK"
IsNone(t) == t.kind = "LEAF" /\ t.type = "NONE"

-----------------------------------------------------------------------------
(* What a tree means: the sequences of blocks of its executions, with up to *)
(* k iterations of a loop each time it is reached.                          *)

Concat(P, Q) == {p \o q : p \in P, q \in Q}

RECURSIVE TreePaths(_, _)
TreePaths(t, k) ==
  LET times[n \in 0..k] ==
        IF n = 0 THEN {<<>>} ELSE {<<>>} \cup Concat(TreePaths(t.body, k), times[n - 1])
      upto[n \in 0..Len(t.ch)] ==
        IF n = 0 THEN {<<>>} ELSE Concat(upto[n - 1], TreePaths(t.ch[n], k))
  IN  CASE IsBlockLeaf(t) -> {<<t.block>>}
        [] t.kind = "LEAF" /\ ~IsBlockLeaf(t) -> {<<>>}
        [] t.kind \in {"ALT", "COND_ALT"} -> UNION {TreePaths(t.ch[i], k) : i \in DOMAIN t.ch}
        [] t.kind = "SEQ" -> upto[Len(t.ch)]
        [] t.kind = "LOOP" -> Concat(times[k], TreePaths(t.exit, k))

\* The same of a control-flow graph: the sequences of edges from the entry
\* to the exit that take the back edges of a loop at most k times per entry.
RECURSIVE EdgesFrom(_, _, _, _)
EdgesFrom(g, b, turns, k) ==
  LET next(i) ==
        LET h == Sink(g, i)
            \* loops that are left start again from no iteration
            kept == [l \in DOMAIN turns |-> IF h \in g.loop[l] THEN turns[l] ELSE 0]
        IN  IF ~IsBackEdge(g, i) THEN EdgesFrom(g, h, kept, k)
            ELSE IF turns[h] = k THEN {}
            ELSE EdgesFrom(g, h, [kept EXCEPT ![h] = turns[h] + 1], k)
  IN  IF b = ExitOf(g) THEN {<<>>}
      ELSE UNION {{<<i>> \o p : p \in next(i)} : i \in Range(Outs(g, b))}

EdgePaths(g, k) == EdgesFrom(g, EntryOf(g), [l \in Headers(g) |-> 0], k)

=============================================================================
