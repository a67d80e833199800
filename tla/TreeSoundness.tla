---------------------------- MODULE TreeSoundness ----------------------------
(***************************************************************************)
(* What the trees and the formula of a program must be: the paths of a      *)
(* tree are those of its graph, the conditions of branches are necessary,   *)
(* the texts say what the trees say, and the formula counts every block,    *)
(* every pipeline effect and every miss as often as an execution can meet   *)
(* them.  The exceptions in the statements are the cases in which the code  *)
(* does otherwise; each is a condition on the control-flow graph.           *)
(***************************************************************************)
EXTENDS TreeConstruction, TreeTexts

Turns == prog.turns

Graphs == Range(prog.cfgs)
HasTree(g) == cftree[g.name].kind # "NULL"
Ended == {"done", "aborted", "fault"}

LoopsLeft(g, i) == {h \in Headers(g) : Source(g, i) \in g.loop[h] /\ Sink(g, i) \notin g.loop[h]}

\* The marks are on blocks, never on virtual nodes, and the work list holds
\* edges of the program.
TypeOK ==
  /\ pc \in Ended \cup {"cfg", "tree", "marks", "worklist", "export"}
  /\ cur \in 1..(Len(prog.cfgs) + 1)
  /\ last \cup after \cup aaloop \subseteq ProgramBlocks(prog)
  /\ DOMAIN alias = ProgramBlocks(prog)
  /\ DOMAIN cftree = {g.name : g \in Graphs}
  /\ wl \cup nextWl \subseteq DOMAIN prog.edgeTime

-----------------------------------------------------------------------------
(* Trees                                                                   *)

\* An edge that leaves three loops at once is lost: loop_contains compares
\* the enclosing headers with the wrong block.
DeepExit(g, i) == Cardinality(LoopsLeft(g, i)) > 2
HasDeepExit == \E g \in Graphs : \E i \in DOMAIN g.edges : DeepExit(g, i)

\* When a function begins with a loop, setEntryDAG takes the header in the
\* graph of the loop for the start: it is put once more before the loop.
FirstBlock(g) == Sink(g, Last(Outs(g, EntryOf(g))))
Repeated(g) == IF IsHeader(g, FirstBlock(g)) THEN <<FirstBlock(g)>> ELSE <<>>
Expected(g, paths) ==
  {Repeated(g) \o [j \in 1..(Len(p) - 1) |-> Sink(g, p[j])] : p \in paths}

\* Every path from the entry of a function to its exit, but by an edge that
\* leaves three loops at once, is a path of its tree.
PathsCovered ==
  pc = "export" => \A g \in {x \in Graphs : HasTree(x)} :
    Expected(g, {p \in EdgePaths(g, Turns) : \A j \in DOMAIN p : ~DeepExit(g, p[j])})
      \subseteq TreePaths(cftree[g.name], Turns)

\* When the edges that leave a loop all have one target, the tree has no
\* other path: an alternative never joins halves of different executions.
OneTarget(g) ==
  \A h \in Headers(g) :
    Cardinality({Sink(g, i) : i \in {k \in DOMAIN g.edges : h \in LoopsLeft(g, k)}}) <= 1
NoExtraPath ==
  pc = "export" => \A g \in {x \in Graphs : HasTree(x) /\ OneTarget(x)} :
    TreePaths(cftree[g.name], Turns) \subseteq Expected(g, EdgePaths(g, Turns))

ReturnInLoop(g) ==
  \E i \in DOMAIN g.edges : Sink(g, i) = ExitOf(g) /\ LoopsLeft(g, i) # {}
Endless(g) == Ins(g, ExitOf(g)) = <<>>

\* The construction stops at an ASSERT for a return inside of a loop, and
\* only there; the export meets a null tree when a function it reaches has no
\* path to its exit, and only then.
StopsOnlyThere ==
  /\ pc = "aborted" => ReturnInLoop(Current)
  /\ pc = "export" => \A g \in Graphs : ~Endless(g) => ~ReturnInLoop(g) /\ HasTree(g)
  /\ pc = "fault" => \E g \in Graphs : Endless(g)
  /\ pc = "done" => \A g \in Graphs : Endless(g) => g.name \in prog.params

RECURSIVE Subtrees(_)
Subtrees(t) ==
  {t} \cup CASE t.kind = "LEAF" -> {}
             [] t.kind = "LOOP" -> Subtrees(t.body) \cup Subtrees(t.exit)
             [] OTHER -> UNION {Subtrees(t.ch[i]) : i \in DOMAIN t.ch}
InLoopBody(t, cond) ==
  \E l \in Subtrees(t) : l.kind = "LOOP" /\ \E s \in Subtrees(l.body) :
    IsBlockLeaf(s) /\ prog.cond[s.block] = cond

\* The branch of an alternative is dropped when its condition is false: the
\* block that carries the condition is on every path of the branch, unless
\* the condition was found in the body of a loop.
ConditionOnEveryPath ==
  pc = "export" => \A g \in {x \in Graphs : HasTree(x)} :
    \A t \in {s \in Subtrees(cftree[g.name]) : s.kind = "COND_ALT"} : \A i \in DOMAIN t.ch :
      t.conds[i] # None /\ ~InLoopBody(t.ch[i], t.conds[i]) =>
        \A p \in TreePaths(t.ch[i], Turns) : \E b \in Range(p) : prog.cond[b] = t.conds[i]

TextOf(t) ==
  /\ ReadDot(ExportToDot(t), 0) = WithoutBounds(t)
  /\ ReadCode(WriteCode(t), 1, Turns).paths = TreePaths(t, Turns)

\* The graph in the dot language is the tree, node by node, and the C code
\* has the paths of the tree, before the cache mutator (a build without
\* ICACHE writes that tree) and behind it.
TextsAgree ==
  /\ pc = "marks" => TextOf(built.tree)
  /\ pc = "export" => \A g \in {x \in Graphs : HasTree(x)} : TextOf(cftree[g.name])

-----------------------------------------------------------------------------
(* Termination                                                             *)

\* A call that ends a branch of an alternative, to a function that ends in a
\* call itself: the work list of toCFT is never emptied.
EndsBranch(g, s) ==
  \E i \in Range(Outs(g, s)) : LET c == Sink(g, i) IN
    /\ c # ExitOf(g) /\ g.exitOf[i] = None /\ ~IsParam(prog, g, c)
    /\ ~Dominates(g, s, c) /\ ~IsBackEdge(g, i)
EndsInCall(g) == \E i \in Range(Ins(g, ExitOf(g))) : IsSynth(g, Source(g, i))
Hangs ==
  \E g \in Graphs : \E s \in DOMAIN g.calls :
    EndsBranch(g, s) /\ EndsInCall(Graph(prog)[g.calls[s]])

\* The processing of a program ends, unless that case occurs; then it never
\* comes to the export.
ProcessingEnds ==
  /\ ~Hangs => <>(pc \in Ended)
  /\ Hangs => [](pc \notin {"export", "done", "fault"})

-----------------------------------------------------------------------------
(* The formula                                                             *)

\* The largest time of a run of a function under the times of a program p,
\* with Turns iterations of each loop.
RECURSIVE Worst(_, _)
Worst(p, g) ==
  LET time == [b \in BlocksOf(g) |->
                 IF ~IsSynth(g, b) THEN p.time[b]
                 ELSE IF g.calls[b] \in p.params THEN 0
                 ELSE Worst(p, Graph(p)[g.calls[b]])]
      spent(i) == p.edgeTime[<<g.name, i>>] + time[Sink(g, i)]
  IN  Max({FoldLeft(LAMBDA acc, i : acc + spent(i), 0, path) : path \in EdgePaths(g, Turns)})

\* The first value of the formula printed for the times of p.
Exported(p) ==
  LET f == ExportToAWCET([Context EXCEPT !.prog = p], Graph(p)[p.main], cftree[p.main],
                         FALSE, FALSE)
      hier == LoopTable(Graph(p), p.main)
      m == WritePWF(f, hier, [h \in UNION {Headers(g) : g \in Graphs} |-> Turns]).m
  IN  W(hier)!Value(m, 1)

Unit(f, x) == [y \in DOMAIN f |-> IF y = x THEN 1 ELSE 0]
OnlyBlock(b) == [prog EXCEPT !.time = Unit(prog.time, b), !.penalty = 0]
OnlyEdge(e) == [prog EXCEPT !.edgeTime = Unit(prog.edgeTime, e), !.penalty = 0]
Counted(p) == Exported(p) >= Worst(p, Graph(p)[p.main])

BasicBlocks(g) == {b \in BlocksOf(g) : IsBasic(g, b)}

\* The formula counts each block as often as the worst path executes it; not
\* more often, when loops have one way out and no function begins with one.
BlocksCounted ==
  pc = "done" /\ ~HasDeepExit => \A b \in UNION {BasicBlocks(g) : g \in Graphs} :
    LET p == OnlyBlock(b) IN
      /\ Counted(p)
      /\ (\A g \in Graphs : OneTarget(g) /\ Repeated(g) = <<>>)
           => Exported(p) = Worst(p, Graph(p)[p.main])

LostAtExit(g, i) == LoopsLeft(g, i) # {} /\ Sink(g, i) \in after
LostAtEntry(g, i) == Sink(g, i) \in aaloop /\ ~IsBackEdge(g, i)
LostInExitTree(g, i) == IsBackEdge(g, i) /\ g.enclosing[Sink(g, i)] # None
LostThroughCalls(g, i) ==
  \/ /\ Sink(g, i) = ExitOf(g)
     /\ \E f \in Graphs : \E k \in Range(Ins(f, ExitOf(f))) :
          IsSynth(f, Source(f, k)) /\ f.calls[Source(f, k)] = g.name
  \/ /\ IsSynth(g, Sink(g, i))
     /\ LET f == Graph(prog)[g.calls[Sink(g, i)]] IN IsSynth(f, FirstBlock(f))

\* The effects of edges between blocks of the program; what a parametric
\* function costs, from its first block on, is given at instantiation.
Effects == {e \in DOMAIN prog.edgeTime : LET g == Graph(prog)[e[1]] IN
              /\ IsBasic(g, Source(g, e[2]))
              /\ ~IsParam(prog, g, Sink(g, e[2]))
              /\ g.name = prog.main => Sink(g, e[2]) # ExitOf(g)}

\* The effect of an edge may be lost in four cases: it leaves a loop for a
\* block or a loop behind an alternative, it enters a loop behind an
\* alternative, it is the back edge of a loop in a loop, whose exit tree
\* takes the effect of the entry for that of the iterations, or two calls are
\* between its ends, of which one is looked through.
EffectsCounted ==
  pc = "done" /\ ~HasDeepExit => \A e \in Effects : LET g == Graph(prog)[e[1]] IN
    \/ LostAtExit(g, e[2]) \/ LostAtEntry(g, e[2]) \/ LostInExitTree(g, e[2])
    \/ LostThroughCalls(g, e[2]) \/ Counted(OnlyEdge(e))

\* The misses of a cache line of block b in a path.  A first miss happens
\* once each time its loop is entered, once in all outside of loops.
Executions(g, path, b) == {j \in DOMAIN path : Sink(g, path[j]) = b}
MissesIn(g, path, b, line) ==
  LET into == IF IsHeader(g, line.header)
              THEN {j \in DOMAIN path : /\ Sink(g, path[j]) = line.header
                                        /\ Source(g, path[j]) \notin g.loop[line.header]}
              ELSE {1}
      within(j, k) == IsHeader(g, line.header) =>
                        \A i \in j..k : Sink(g, path[i]) \in g.loop[line.header]
  IN  CASE line.cat = "ALWAYS_HIT" -> 0
        [] line.cat = "FIRST_MISS" ->
             Cardinality({j \in into : \E k \in Executions(g, path, b) : j <= k /\ within(j, k)})
        [] OTHER -> Cardinality(Executions(g, path, b))
Misses(g, path) ==
  LET lines == {<<b, i>> \in BlocksOf(g) \X (1..2) : i \in DOMAIN prog.lines[b]}
  IN  MapThenSumSet(LAMBDA l : MissesIn(g, path, l[1], prog.lines[l[1]][l[2]]), lines)

\* A first miss in a loop in a loop is lost when a block without lines comes
\* before its block: the sum is then relative to l:0.
LostMiss(g, b) == \E i \in DOMAIN prog.lines[b] : LET line == prog.lines[b][i] IN
  /\ line.cat = "FIRST_MISS" /\ IsHeader(g, line.header)
  /\ b # line.header /\ g.enclosing[line.header] # None

\* The formula counts the misses of a function without calls as often as they
\* happen, first misses once per entry of their loop.
MissesCounted ==
  LET g == prog.cfgs[1] IN
  pc = "done" /\ Len(prog.cfgs) = 1 /\ ~HasDeepExit /\ (\A b \in BlocksOf(g) : ~LostMiss(g, b))
    => Exported(prog) >= prog.penalty * Max({Misses(g, path) : path \in EdgePaths(g, Turns)})

RECURSIVE LoopsOfBlocks(_, _)
LoopsOfBlocks(g, bs) ==
  (bs \cap Headers(g)) \cup
  UNION {LET f == Graph(prog)[g.calls[s]] IN LoopsOfBlocks(f, BlocksOf(f)) :
           s \in bs \cap DOMAIN g.calls}

\* The loop hierarchy printed behind the formula is the nesting of the loops
\* of the program, through its calls.
LoopTableNests ==
  pc = "done" =>
    LoopTable(Graph(prog), prog.main) =
      UNION {{<<l, h>> : l \in LoopsOfBlocks(g, g.loop[h]) \ {h}} :
               <<g, h>> \in {x \in UNION {{f} \X Headers(f) : f \in Graphs} : TRUE}}

=============================================================================
