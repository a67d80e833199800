------------------------------ MODULE TreeExport ------------------------------
(***************************************************************************)
(* CFTree::exportToAWCET without constraints: a control-flow tree as a     *)
(* formula of abstract WCETs, with the pipeline effects that otawa::etime  *)
(* puts on edges; writePWF: what the printed formula says; and the loop     *)
(* hierarchy that dumpcft prints behind it.                                *)
(*                                                                         *)
(* A context c holds what the export reads: prog, graph (by function name), *)
(* tree (CFTREE of the functions, None without one), and the marks last,   *)
(* after, aaloop (sets of blocks) and alias (block to edge).               *)
(* prog.time and prog.edgeTime are the times of blocks and of edges,       *)
(* prog.penalty is the cost of a miss.                                     *)
(***************************************************************************)
EXTENDS CacheMutator

\* The formulas of PWCET.h.  A formula that was allocated and not filled in
\* has kind 0, an alternative of nothing.
FConst(loop, eta, others) == [kind |-> "CONST", loop |-> loop, eta |-> eta, others |-> others]
FParam(f) == [kind |-> "AWCET", param |-> f]
FNary(kind, ch) == [kind |-> kind, ch |-> ch]
FUnset == FNary("ALT", <<>>)
FLoop(h, bound, f) == [kind |-> "LOOP", header |-> h, bound |-> bound, ch |-> <<f>>]
FBoolMult(cond, f) == [kind |-> "BOOLMULT", cond |-> cond, ch |-> <<f>>]
\* The export calls a method of a null tree.
FFault == [kind |-> "FAULT", ch |-> <<>>]

Largest(S) == Max(S \cup {0})

EdgeTimes(c, g, is) == {c.prog.edgeTime[<<g.name, i>>] : i \in Range(is)}

\* The callers of a function, as pairs <<graph, synthetic block>>.
Callers(c, f) ==
  {<<h, b>> \in UNION {{c.graph[n]} \X DOMAIN c.graph[n].calls : n \in DOMAIN c.graph} :
     h.calls[b] = f}

\* Behind a call the effect is on the edges to the exit of the function that
\* was called, at the start of a function on the edges to its callers.
IndirectTimes(c, g, b) ==
  LET of(s) ==
        IF IsSynth(g, s)
        THEN IF g.calls[s] \in c.prog.params THEN {}
             ELSE LET f == c.graph[g.calls[s]] IN EdgeTimes(c, f, Ins(f, ExitOf(f)))
        ELSE UNION {EdgeTimes(c, h[1], Ins(h[1], h[2])) : h \in Callers(c, g.name)}
  IN  UNION {of(Source(g, i)) : i \in {k \in Range(Ins(g, b)) : ~IsBasic(g, Source(g, k))}}

CountsEntry(c, g, b) == b \notin c.after \/ IsHeader(g, b)
HasNonBasic(c, g, b) ==
  CountsEntry(c, g, b) /\ \E i \in Range(Ins(g, b)) : ~IsBasic(g, Source(g, i))

EntryEffect(c, g, b) ==
  LET direct == Largest(EdgeTimes(c, g, Ins(g, b)))
  IN  IF ~CountsEntry(c, g, b) THEN 0
      ELSE IF direct = 0 \/ HasNonBasic(c, g, b)
           THEN Largest({direct} \cup IndirectTimes(c, g, b))
           ELSE direct

LastEffect(c, g, b, lastBlock) ==
  IF b \in c.last /\ ~IsHeader(g, b) /\ lastBlock
  THEN Largest(EdgeTimes(c, g, Outs(g, b))) ELSE 0

\* A header whose predecessors are basic: in the exit tree the edge that
\* enters the loop and the edge that leaves it, in the body the back edge.
HeaderEffect(c, g, h, loopexit) ==
  LET times(back) ==
        EdgeTimes(c, g, SelectSeq(Ins(g, h), LAMBDA i : IsBackEdge(g, i) = back))
      leaving == IF h \in c.last /\ c.alias[h] # <<None, 0>>
                 THEN Largest({c.prog.edgeTime[c.alias[h]]}) ELSE 0
  IN  IF loopexit THEN (IF h \in c.aaloop THEN 0 ELSE Max(times(FALSE))) + leaving
      ELSE Max(times(TRUE))

BlockTime(c, g, b, loopexit, lastBlock) ==
  c.prog.time[b]
  + IF IsHeader(g, b) /\ ~HasNonBasic(c, g, b) THEN HeaderEffect(c, g, b, loopexit)
    ELSE EntryEffect(c, g, b) + LastEffect(c, g, b, lastBlock)

ExportCache(c, t) ==
  CASE t.hit \/ t.cat = "ALWAYS_HIT" -> FConst(t.loop, <<>>, 0)
    [] ~t.hit /\ t.cat = "FIRST_MISS" -> FConst(t.loop, <<c.prog.penalty>>, 0)
    [] OTHER -> FConst(t.loop, <<>>, c.prog.penalty)

RECURSIVE ExportToAWCET(_, _, _, _, _)
ExportLeaf(c, g, t, loopexit, lastBlock) ==
  CASE t.type = "NONE" -> FUnset
    [] t.type = "CACHE" -> ExportCache(c, t)
    [] t.type = "PIPELINE" -> FConst(None, <<>>, IF lastBlock THEN c.prog.edgeTime[t.edge] ELSE 0)
    [] t.type = "BLOCK" /\ IsSynth(g, t.block) ->
         LET f == g.calls[t.block]
         IN  IF f \in c.prog.params THEN FParam(f)
             ELSE ExportToAWCET(c, c.graph[f], c.tree[f], loopexit, TRUE)
    [] OTHER -> FConst(None, <<>>, BlockTime(c, g, t.block, loopexit, lastBlock))

\* An empty alternative keeps the unset formula of calloc.
ExportChoice(c, g, t, loopexit) ==
  LET child(i) ==
        LET f == ExportToAWCET(c, g, t.ch[i], loopexit, TRUE)
        IN  IF IsNone(t.ch[i]) THEN FUnset
            ELSE IF t.kind = "COND_ALT" /\ t.conds[i] # None THEN FBoolMult(t.conds[i], f)
            ELSE f
  IN  FNary("ALT", [i \in DOMAIN t.ch |-> child(i)])

\* Mutant: the exit tree is left out.
ExportLoop_NoExit(c, g, t, loopexit) ==
  FLoop(t.header, t.bound, ExportToAWCET(c, g, t.body, loopexit, FALSE))

\* The test for PARAM_FLAG never holds: the bound is the condition of a
\* parametric loop or the flow fact.
ExportLoop(c, g, t, loopexit) ==
  FNary("SEQ", <<FLoop(t.header, t.bound, ExportToAWCET(c, g, t.body, loopexit, FALSE)),
                 ExportToAWCET(c, g, t.exit, TRUE, FALSE)>>)

ExportToAWCET(c, g, t, loopexit, lastBlock) ==
  CASE t.kind = "NULL" -> FFault
    [] t.kind = "LEAF" -> ExportLeaf(c, g, t, loopexit, lastBlock)
    [] t.kind \in {"ALT", "COND_ALT"} -> ExportChoice(c, g, t, loopexit)
    [] t.kind = "LOOP" -> ExportLoop(c, g, t, loopexit)
    [] t.kind = "SEQ" ->
         FNary("SEQ", [i \in DOMAIN t.ch |->
                         ExportToAWCET(c, g, t.ch[i], loopexit, i = Len(t.ch))])

RECURSIVE Faults(_)
Faults(f) ==
  \/ f.kind = "FAULT"
  \/ f.kind \notin {"CONST", "AWCET"} /\ \E i \in DOMAIN f.ch : Faults(f.ch[i])

-----------------------------------------------------------------------------
(* writePWF and the reader of its text: a constant relative to no loop is   *)
(* printed relative to l:0, which is not __top.                            *)

LZero == "l:0"
LTop == "__top"
W(hier) == INSTANCE AbstractWcet WITH LTop <- LTop, Hier <- hier

WritePWF_Loop(l) == IF l = None THEN LZero ELSE l

\* The abstract WCET of the printed formula; parameters are 0, conditions
\* true; iters gives the numbers of iterations of the loops.
RECURSIVE WritePWF(_, _, _)
WritePWF(f, hier, iters) ==
  LET val(i) == WritePWF(f.ch[i], hier, iters)
      sum[n \in 1..Len(f.ch)] ==
        IF n = 1 THEN val(1) ELSE W(hier)!Sum(sum[n - 1], val(n))
      union[n \in 1..Len(f.ch)] ==
        IF n = 1 THEN val(1) ELSE W(hier)!Union(union[n - 1], val(n))
  IN  CASE f.kind = "CONST" ->
             W(hier)!AWcet(WritePWF_Loop(f.loop), W(hier)!MWcet(f.eta, f.others))
        [] f.kind \in {"SEQ", "ALT"} /\ f.ch = <<>> -> W(hier)!Bot
        [] f.kind = "SEQ" /\ f.ch # <<>> -> sum[Len(f.ch)]
        [] f.kind = "ALT" /\ f.ch # <<>> -> union[Len(f.ch)]
        [] f.kind = "LOOP" -> W(hier)!Pow(val(1), W(hier)!Bot, f.header, iters[f.header])
        [] f.kind = "BOOLMULT" -> val(1)
        [] OTHER -> W(hier)!Bot

-----------------------------------------------------------------------------
(* dumpcft: the loop hierarchy of the whole program                         *)

\* Mutant: a call passes on the loop of its function, not its own.
RECURSIVE FixVirtualizedLoopinfo_Outer(_, _, _)
FixVirtualizedLoopinfo_Outer(graph, g, loop) ==
  LET own == [b \in BlocksOf(g) |-> IF g.enclosing[b] = None THEN loop ELSE g.enclosing[b]]
  IN  FoldFunction(LAMBDA x, y : x @@ y, own,
        [b \in DOMAIN g.calls |-> FixVirtualizedLoopinfo_Outer(graph, graph[g.calls[b]], loop)])

\* fix_virtualized_loopinfo: the enclosing header of each block, through
\* the calls; loop is that of the call.
RECURSIVE FixVirtualizedLoopinfo(_, _, _)
FixVirtualizedLoopinfo(graph, g, loop) ==
  LET own == [b \in BlocksOf(g) |-> IF g.enclosing[b] = None THEN loop ELSE g.enclosing[b]]
  IN  FoldFunction(LAMBDA x, y : x @@ y, own,
        [b \in DOMAIN g.calls |-> FixVirtualizedLoopinfo(graph, graph[g.calls[b]], own[b])])

IsStrictlyIn(enclosing, inner, outer) ==
  LET up[n \in 0..Cardinality(DOMAIN enclosing)] ==
        IF n = 0 THEN inner
        ELSE LET l == up[n - 1] IN IF l = None THEN None ELSE enclosing[l]
  IN  \E n \in DOMAIN up \ {0} : up[n] = outer

LoopTable(graph, entry) ==
  LET enclosing == FixVirtualizedLoopinfo(graph, graph[entry], None)
      headers == UNION {Headers(graph[f]) : f \in DOMAIN graph}
  IN  {p \in headers \X headers : p[1] \in DOMAIN enclosing
                                  /\ IsStrictlyIn(enclosing, p[1], p[2])}

=============================================================================
