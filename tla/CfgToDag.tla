------------------------------- MODULE CfgToDag -------------------------------
(***************************************************************************)
(* toDAG of the extractor: the control-flow graph of a function, or of the *)
(* body of a loop, as an acyclic graph in which an inner loop is one       *)
(* hierarchical node.  Each graph has two virtual nodes: a path to NEXT    *)
(* starts another iteration (or ends the function), a path to EXIT leaves  *)
(* the loop.                                                               *)
(*                                                                         *)
(* A node is [kind, of]: block nodes "B" and loop nodes "H" of a block,     *)
(* virtual nodes "V".  A graph is [header, start, edges, sub, failed]:     *)
(* edges in the order in which the code adds predecessors, sub the graphs   *)
(* of the inner loops, failed when an ASSERT of the code does not hold.     *)
(***************************************************************************)
EXTENDS ControlFlow

BNode(b) == [kind |-> "B", of |-> b]
HNode(b) == [kind |-> "H", of |-> b]
VNext == [kind |-> "V", of |-> "NEXT"]
VExit == [kind |-> "V", of |-> "EXIT"]

\* getAllBlocksLoop: the blocks directly in loop l, None for the function.
Direct(g, l) ==
  SelectSeq(g.blocks, LAMBDA b : /\ IsBasic(g, b) \/ IsSynth(g, b)
                                 /\ g.enclosing[b] = l \/ b = l)
Plain(g, l) == SelectSeq(Direct(g, l), LAMBDA b : b = l \/ ~IsHeader(g, b))
Inner(g, l) == SelectSeq(Direct(g, l), LAMBDA b : b # l /\ IsHeader(g, b))

BlockEdges(g, b) ==
  LET kept == SelectSeq(Outs(g, b), LAMBDA i :
                /\ g.exitOf[i] = None
                /\ Sink(g, i) # ExitOf(g)
                /\ ~IsHeader(g, Sink(g, i)))
  IN  [k \in DOMAIN kept |-> <<BNode(b), BNode(Sink(g, kept[k]))>>]

\* addEdgesNext; its ASSERT fails on a return inside of a loop.
AddEdgesNext(g, l, b) ==
  LET kept == SelectSeq(Outs(g, b), LAMBDA i :
                Sink(g, i) = (IF l = None THEN ExitOf(g) ELSE l))
  IN  [k \in DOMAIN kept |-> <<BNode(b), VNext>>]
\* Mutant: without the ASSERT.
ReturnsInLoop_Ignored(g, l, b) == FALSE
ReturnsInLoop(g, l, b) ==
  l # None /\ \E i \in Range(Outs(g, b)) : Sink(g, i) = ExitOf(g)

AddEdgesExit(g, l, b) ==
  LET kept == SelectSeq(Outs(g, b), LAMBDA i :
                \/ g.exitOf[i] # None
                \/ l = None /\ Sink(g, i) = ExitOf(g))
  IN  [k \in DOMAIN kept |-> <<BNode(b), VExit>>]

\* DAG::visit with recursive = true, the block nodes only.
RECURSIVE BlocksInside(_, _)
BlocksInside(g, h) ==
  Plain(g, h) \o FlattenSeq([k \in DOMAIN Inner(g, h) |-> BlocksInside(g, Inner(g, h)[k])])

\* contains, not recursive: the block nodes of the graph of loop h itself.
DagContains(g, h, b) == b \in Range(Plain(g, h))

\* loop_contains compares the enclosing headers of b with b, never with h.
LoopContains(g, h, b) == b = h

\* The edges of the blocks in inner loop h to the virtual nodes of loop l.
InnerToVirtual(g, l, h) ==
  LET to(b, i) ==
        IF l = None
        THEN IF Sink(g, i) = ExitOf(g) THEN <<<<BNode(b), VNext>>, <<BNode(b), VExit>>>>
                                       ELSE <<>>
        ELSE (IF Sink(g, i) = l THEN <<<<BNode(b), VNext>>>> ELSE <<>>)
             \o (IF LoopContains(g, g.exitOf[i], l) THEN <<<<BNode(b), VExit>>>> ELSE <<>>)
      from(b) == FlattenSeq([k \in DOMAIN Outs(g, b) |-> to(b, Outs(g, b)[k])])
      inside == BlocksInside(g, h)
  IN  FlattenSeq([k \in DOMAIN inside |-> from(inside[k])])

\* Mutant: only the blocks directly in the inner loop, visit not recursive.
FromInner_Direct(g, l, h) ==
  LET plain == Range(Plain(g, l))
      kept(b) == SelectSeq(Outs(g, b), LAMBDA i : Sink(g, i) \in plain)
      to(b) == [k \in DOMAIN kept(b) |-> <<HNode(h), BNode(Sink(g, kept(b)[k]))>>]
  IN  FlattenSeq([k \in DOMAIN Plain(g, h) |-> to(Plain(g, h)[k])])

\* The edges that leave the node of inner loop h, from any block in it.
FromInner(g, l, h) ==
  LET others == SelectSeq(Inner(g, l), LAMBDA k : k # h)
      plain == Range(Plain(g, l))
      to(i) ==
        (IF Sink(g, i) \in plain THEN <<<<HNode(h), BNode(Sink(g, i))>>>> ELSE <<>>)
        \o LET hit == SelectSeq(others, LAMBDA k : DagContains(g, k, Sink(g, i)))
           IN  [k \in DOMAIN hit |-> <<HNode(h), HNode(hit[k])>>]
      inside == BlocksInside(g, h)
  IN  FlattenSeq([k \in DOMAIN inside |->
        FlattenSeq([j \in DOMAIN Outs(g, inside[k]) |-> to(Outs(g, inside[k])[j])])])

\* The edges that reach the header of inner loop h.
ToInner(g, l, h) ==
  LET others == SelectSeq(Inner(g, l), LAMBDA k : k # h)
      from(i) ==
        (IF DagContains(g, l, Source(g, i)) THEN <<<<BNode(Source(g, i)), HNode(h)>>>> ELSE <<>>)
        \o LET hit == SelectSeq(others, LAMBDA k : DagContains(g, k, Source(g, i)))
           IN  [k \in DOMAIN hit |-> <<HNode(hit[k]), HNode(h)>>]
  IN  FlattenSeq([k \in DOMAIN Ins(g, h) |-> from(Ins(g, h)[k])])

\* setEntryDAG: the node of the block behind the entry, in whichever graph.
SetEntryDAG(g) == BNode(Sink(g, Last(Outs(g, EntryOf(g)))))

RECURSIVE ToDAG(_, _)
ToDAG(g, l) ==
  LET plain == Plain(g, l)
      inner == Inner(g, l)
      each(seq, Op(_)) == FlattenSeq([k \in DOMAIN seq |-> Op(seq[k])])
      sub == [h \in Range(inner) |-> ToDAG(g, h)]
      added == each(plain, LAMBDA b : BlockEdges(g, b))
               \o each(plain, LAMBDA b : AddEdgesNext(g, l, b) \o AddEdgesExit(g, l, b))
               \o each(inner, LAMBDA h : InnerToVirtual(g, l, h))
               \o each(inner, LAMBDA h : FromInner(g, l, h) \o ToInner(g, l, h))
  IN  [header |-> l,
       start |-> IF l = None THEN SetEntryDAG(g) ELSE BNode(l),
       nodes |-> {VNext, VExit} \cup {BNode(b) : b \in Range(plain)}
                 \cup {HNode(b) : b \in Range(inner)},
       edges |-> added,
       sub |-> sub,
       failed |-> \/ \E b \in Range(plain) : ReturnsInLoop(g, l, b)
                  \/ \E h \in Range(inner) : sub[h].failed]

\* addPred keeps the first of equal predecessors.
Preds(d, n) ==
  LET into == SelectSeq(d.edges, LAMBDA e : e[2] = n)
      first == SelectSeq([k \in DOMAIN into |-> k],
                         LAMBDA k : \A j \in 1..(k - 1) : into[j][1] # into[k][1])
  IN  [k \in DOMAIN first |-> into[first[k]][1]]

=============================================================================
