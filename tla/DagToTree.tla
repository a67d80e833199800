------------------------------- MODULE DagToTree -------------------------------
(***************************************************************************)
(* toCFT of the extractor: the tree of the paths between two nodes of an   *)
(* acyclic graph.  The nodes that every such path goes through make a      *)
(* sequence; an alternative is put before each of them that has several    *)
(* predecessors.                                                           *)
(*                                                                         *)
(* The construction also marks blocks, for the export of pipeline effects: *)
(* it returns the tree and the marks in the order in which they are made,  *)
(*   LAST b      IS_LAST_IN_ALT(b)                                          *)
(*   AFTER b     IS_AFTER_ALT(b)                                            *)
(*   AALOOP b    IS_AA_LOOPEXIT(b)                                          *)
(*   ALIAS b e   EDGE_ALIAS(b) = e                                          *)
(*   EXITS f     IS_LAST_IN_ALT of the blocks before the exit of f, found   *)
(*               by a work list (see TreeConstruction)                     *)
(*   ABORT       an ASSERT does not hold                                    *)
(***************************************************************************)
EXTENDS CfgToDag, Trees

Mark(op, b) == [op |-> op, of |-> b, edge |-> <<None, 0>>]
AliasMark(b, e) == [op |-> "ALIAS", of |-> b, edge |-> e]
Built(t, marks) == [tree |-> t, marks |-> marks]

\* DAGNodeDominate: a virtual node is dominated by what dominates each of
\* its predecessors, by every block when it has none.
NodeDominates(g, d, n1, n2) ==
  \/ n1 = n2
  \/ /\ n1.kind # "V"
     /\ IF n2.kind = "V"
        THEN \A p \in Range(Preds(d, n2)) : Dominates(g, n1.of, p.of)
        ELSE Dominates(g, n1.of, n2.of)

ForcedPassedNodes(g, d, start, end) ==
  {n \in d.nodes \ {start} : NodeDominates(g, d, start, n) /\ NodeDominates(g, d, n, end)}

\* getDominated, which asserts that every other node dominates the result.
Ordered(g, d, ns) ==
  \A m, n \in ns : NodeDominates(g, d, m, n) \/ NodeDominates(g, d, n, m)
Chain(g, d, ns) ==
  LET rank(n) == Cardinality({m \in ns : NodeDominates(g, d, m, n)})
  IN  [k \in 1..Cardinality(ns) |-> CHOOSE n \in ns : rank(n) = k]

\* Mutant: the search does not stop at an alternative.
RECURSIVE FindConditionOfBranch_Through(_, _)
FindConditionOfBranch_Through(t, cond) ==
  LET found == {FindConditionOfBranch_Through(t.ch[i], cond) : i \in DOMAIN t.ch} \ {None}
  IN  CASE IsBlockLeaf(t) -> cond[t.block]
        [] t.kind = "LEAF" /\ ~IsBlockLeaf(t) -> None
        [] t.kind = "LOOP" -> FindConditionOfBranch_Through(t.body, cond)
        [] OTHER -> IF found = {} THEN None ELSE CHOOSE c \in found : TRUE

\* ConditionParser::findConditionOfBranch: the last condition before the
\* first alternative of the branch; cond maps blocks to conditions.
RECURSIVE FindConditionOfBranch(_, _)
FindConditionOfBranch(t, cond) ==
  LET isAlt(x) == x.kind \in {"ALT", "COND_ALT"}
      last[n \in 0..Len(t.ch)] ==
        IF n = 0 THEN None
        ELSE LET c == FindConditionOfBranch(t.ch[n], cond)
             IN  IF (\E i \in 1..n : isAlt(t.ch[i])) \/ c = None THEN last[n - 1] ELSE c
  IN  IF IsBlockLeaf(t) THEN cond[t.block]
      ELSE IF t.kind = "SEQ" THEN last[Len(t.ch)]
      ELSE IF t.kind = "LOOP" THEN FindConditionOfBranch(t.body, cond)
      ELSE None

IsParam(prog, g, b) == IsSynth(g, b) /\ g.calls[b] \in prog.params

\* Mutant: a call at the end of a branch is marked as a block.
PredMarks_Call(prog, g, c, p) ==
  IF c.kind = "V" THEN <<>> ELSE <<Mark("LAST", p.of)>>

\* The marks on predecessor p of the end c of an alternative.
PredMarks(prog, g, c, p) ==
  IF c.kind = "V" \/ (c.kind = "B" /\ IsParam(prog, g, c.of)) THEN <<>>
  ELSE IF p.kind = "B"
  THEN IF IsSynth(g, p.of) THEN <<Mark("EXITS", g.calls[p.of])>> ELSE <<Mark("LAST", p.of)>>
  ELSE LET to == SelectSeq(Outs(g, p.of), LAMBDA i : c.kind = "B" /\ Sink(g, i) = c.of)
       IN  <<Mark("LAST", p.of)>>
           \o (IF to = <<>> THEN <<>> ELSE <<AliasMark(p.of, <<g.name, to[1]>>)>>)

\* The branch for an edge that skips the alternative before c: the n-th
\* predecessor in the acyclic graph takes the n-th edge into the block.
NullBranch(prog, g, c, n) ==
  IF c.kind = "V" \/ IsParam(prog, g, c.of) THEN Built(NoLeaf, <<>>)
  ELSE Built(PipelineLeaf(<<g.name, Ins(g, c.of)[n]>>),
             IF c.kind = "H" THEN <<Mark("AFTER", c.of), Mark("AALOOP", c.of)>> ELSE <<>>)

\* Mutant: the virtual nodes are not excluded.
AfterMarks_Virtual(prog, g, c) ==
  IF c.kind # "H" /\ ~IsParam(prog, g, c.of) THEN <<Mark("AFTER", c.of)>> ELSE <<>>
AfterMarks(prog, g, c) ==
  IF c.kind = "B" /\ ~IsParam(prog, g, c.of) THEN <<Mark("AFTER", c.of)>> ELSE <<>>

\* An empty condition where the branch has none.
Conditions(prog, trees) ==
  [k \in DOMAIN trees |-> FindConditionOfBranch(trees[k], prog.cond)]

RECURSIVE ToCFT(_, _, _, _, _, _)

LoopTree(prog, g, d) ==
  LET body == ToCFT(prog, g, d, d.start, VNext, TRUE)
      exit == ToCFT(prog, g, d, d.start, VExit, TRUE)
  IN  Built(Loop(d.header, prog.bounds[d.header], body.tree, exit.tree),
            body.marks \o exit.marks)

\* Mutant: every branch starts at the start of the acyclic graph.
AltTree_FromStart(prog, g, d, ncd, c) ==
  LET preds == Preds(d, c)
      br == [n \in DOMAIN preds |-> ToCFT(prog, g, d, d.start, preds[n], FALSE)]
      trees == [n \in DOMAIN br |-> br[n].tree]
  IN  Built(ConditionalAlt(trees, Conditions(prog, trees)), <<>>)

\* The alternative before c, the paths from ncd to c.
AltTree(prog, g, d, ncd, c) ==
  LET preds == Preds(d, c)
      branch(n) ==
        IF preds[n] = ncd THEN NullBranch(prog, g, c, n)
        ELSE LET b == ToCFT(prog, g, d, ncd, preds[n], FALSE)
             IN  Built(b.tree, PredMarks(prog, g, c, preds[n]) \o b.marks)
      br == [n \in DOMAIN preds |-> branch(n)]
      trees == [n \in DOMAIN br |-> br[n].tree]
  IN  Built(ConditionalAlt(trees, Conditions(prog, trees)),
            FlattenSeq([n \in DOMAIN br |-> br[n].marks]) \o AfterMarks(prog, g, c))

ToCFT(prog, g, d, start, end, all) ==
  LET forced == ForcedPassedNodes(g, d, start, end)
      chain == Chain(g, d, forced)
      node(c) == IF c.kind = "H" THEN <<LoopTree(prog, g, d.sub[c.of])>>
                 ELSE IF c.kind = "B" THEN <<Built(Leaf(c.of), <<>>)>> ELSE <<>>
      before(k) ==
        IF Len(Preds(d, chain[k])) > 1
        THEN <<AltTree(prog, g, d, IF k = 1 THEN start ELSE chain[k - 1], chain[k])>>
        ELSE <<>>
      parts == [k \in DOMAIN chain |-> [alt |-> before(k), node |-> node(chain[k])]]
      \* the sequence is built from its end
      marks == FlattenSeq([i \in DOMAIN chain |->
                 LET p == parts[Len(chain) + 1 - i] IN
                 FlattenSeq([j \in DOMAIN p.node |-> p.node[j].marks])
                 \o FlattenSeq([j \in DOMAIN p.alt |-> p.alt[j].marks])])
      built == FlattenSeq([k \in DOMAIN chain |-> parts[k].alt \o parts[k].node])
      ch == (IF all THEN <<Leaf(start.of)>> ELSE <<>>) \o [k \in DOMAIN built |-> built[k].tree]
  IN  IF start = end THEN Built(Leaf(start.of), <<>>)
      ELSE IF ~Ordered(g, d, forced) THEN Built(NoLeaf, <<Mark("ABORT", None)>>)
      ELSE Built(IF Len(ch) = 1 THEN ch[1] ELSE Seqn(ch), marks)

=============================================================================
