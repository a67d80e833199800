--------------------------- MODULE TreeConstruction ---------------------------
(***************************************************************************)
(* What dumpcft does with a program: the extractor turns the control-flow  *)
(* graph of each function into a tree (processWorkSpace, processCFG),      *)
(* the texts are written, and the tree of the entry is exported as a        *)
(* formula.  The marks the construction leaves on blocks, in the function  *)
(* itself and in the functions it calls, are read by the export only.      *)
(*                                                                         *)
(* A program is [main, cfgs, params, cond, bounds, lines, time, edgeTime,   *)
(* penalty, turns]; cfgs is the sequence of analysed graphs                 *)
(* (INVOLVED_CFGS), turns the bound of every loop when the formula is       *)
(* evaluated.                                                              *)
(***************************************************************************)
EXTENDS DagToTree, TreeExport

CONSTANT Programs

VARIABLES
  prog,     \* the program
  pc,       \* cfg, tree, marks, worklist, export, done, aborted or fault
  cur,      \* the function processed
  dag,      \* its acyclic graph
  built,    \* its tree, and the marks that are still to be made
  wl,       \* the edges of the work list of toCFT
  nextWl,   \* the list for the next round, which is never emptied
  cftree,   \* CFTREE of the functions, by name
  last,     \* IS_LAST_IN_ALT
  after,    \* IS_AFTER_ALT
  aaloop,   \* IS_AA_LOOPEXIT
  alias,    \* EDGE_ALIAS
  formula   \* the formula exported

marks == <<last, after, aaloop, alias>>
vars == <<prog, pc, cur, dag, built, wl, nextWl, cftree, marks, formula>>

NullTree == [kind |-> "NULL"]
Graph(p) == [f \in {p.cfgs[i].name : i \in DOMAIN p.cfgs} |->
               p.cfgs[CHOOSE i \in DOMAIN p.cfgs : p.cfgs[i].name = f]]
ProgramBlocks(p) == UNION {BlocksOf(p.cfgs[i]) : i \in DOMAIN p.cfgs}
Current == prog.cfgs[cur]

Init ==
  /\ prog \in Programs
  /\ pc = "cfg"
  /\ cur = 1
  /\ dag = NullTree
  /\ built = Built(NullTree, <<>>)
  /\ wl = {} /\ nextWl = {}
  /\ cftree = [f \in DOMAIN Graph(prog) |-> NullTree]
  /\ last = {} /\ after = {} /\ aaloop = {}
  /\ alias = [b \in ProgramBlocks(prog) |-> <<None, 0>>]
  /\ formula = FUnset

NextCfg ==
  /\ cur' = cur + 1
  /\ pc' = IF cur = Len(prog.cfgs) THEN "export" ELSE "cfg"

\* processCFG of a function whose exit has no edge.
SkipCFG ==
  /\ pc = "cfg"
  /\ Ins(Current, ExitOf(Current)) = <<>>
  /\ NextCfg
  /\ UNCHANGED <<prog, dag, built, wl, nextWl, cftree, marks, formula>>

ProcessCFG ==
  /\ pc = "cfg"
  /\ Ins(Current, ExitOf(Current)) # <<>>
  /\ dag' = ToDAG(Current, None)
  /\ pc' = IF dag'.failed THEN "aborted" ELSE "tree"
  /\ UNCHANGED <<prog, cur, built, wl, nextWl, cftree, marks, formula>>

BuildTree ==
  /\ pc = "tree"
  /\ built' = ToCFT(prog, Current, dag, dag.start, VExit, TRUE)
  /\ pc' = "marks"
  /\ UNCHANGED <<prog, cur, dag, wl, nextWl, cftree, marks, formula>>

\* One mark; the edges to the exit of a function that is called last in an
\* alternative start the work list.
MakeMark ==
  /\ pc = "marks"
  /\ built.marks # <<>>
  /\ LET m == Head(built.marks) IN
       /\ pc' = CASE m.op = "ABORT" -> "aborted"
                  [] m.op = "EXITS" -> "worklist"
                  [] OTHER -> "marks"
       /\ wl' = IF m.op # "EXITS" THEN {}
                ELSE LET f == Graph(prog)[m.of]
                     IN  {<<f.name, i>> : i \in Range(Ins(f, ExitOf(f)))}
       /\ nextWl' = {}
       /\ last' = IF m.op = "LAST" THEN last \cup {m.of} ELSE last
       /\ after' = IF m.op = "AFTER" THEN after \cup {m.of} ELSE after
       /\ aaloop' = IF m.op = "AALOOP" THEN aaloop \cup {m.of} ELSE aaloop
       /\ alias' = IF m.op = "ALIAS" THEN [alias EXCEPT ![m.of] = m.edge] ELSE alias
  /\ built' = [built EXCEPT !.marks = Tail(built.marks)]
  /\ UNCHANGED <<prog, cur, dag, cftree, formula>>

\* Mutant: the edges into blocks that were marked are gathered as well.
MarkCallee_All ==
  /\ pc = "worklist"
  /\ LET source(e) == Source(Graph(prog)[e[1]], e[2])
         edges(e) == LET f == Graph(prog)[e[1]]
                     IN  {<<f.name, i>> : i \in Range(Ins(f, source(e)))}
     IN  /\ last' = last \cup {source(e) : e \in wl}
         /\ nextWl' = nextWl \cup UNION {edges(e) : e \in wl}
  /\ wl' = nextWl'
  /\ pc' = IF wl' = {} THEN "marks" ELSE "worklist"
  /\ UNCHANGED <<prog, cur, dag, built, cftree, after, aaloop, alias, formula>>

\* A round of the work list: the blocks before the exit are marked, the
\* edges to other blocks are gathered for the next round.
MarkCallee ==
  /\ pc = "worklist"
  /\ LET source(e) == Source(Graph(prog)[e[1]], e[2])
         basic == {e \in wl : IsBasic(Graph(prog)[e[1]], source(e))}
         edges(e) == LET f == Graph(prog)[e[1]]
                     IN  {<<f.name, i>> : i \in Range(Ins(f, source(e)))}
     IN  /\ last' = last \cup {source(e) : e \in basic}
         /\ nextWl' = nextWl \cup UNION {edges(e) : e \in wl \ basic}
  /\ wl' = nextWl'
  /\ pc' = IF wl' = {} THEN "marks" ELSE "worklist"
  /\ UNCHANGED <<prog, cur, dag, built, cftree, after, aaloop, alias, formula>>

\* The cache mutator, and the tree becomes that of the function.
FinishTree ==
  /\ pc = "marks"
  /\ built.marks = <<>>
  /\ cftree' = [cftree EXCEPT ![Current.name] = Transform(prog, Current, built.tree)]
  /\ NextCfg
  /\ UNCHANGED <<prog, dag, built, wl, nextWl, marks, formula>>

Context == [prog |-> prog, graph |-> Graph(prog), tree |-> cftree,
            last |-> last, after |-> after, aaloop |-> aaloop, alias |-> alias]

Export ==
  /\ pc = "export"
  /\ formula' = ExportToAWCET(Context, Graph(prog)[prog.main], cftree[prog.main], FALSE, FALSE)
  /\ pc' = IF Faults(formula') THEN "fault" ELSE "done"
  /\ UNCHANGED <<prog, cur, dag, built, wl, nextWl, cftree, marks>>

Next ==
  \/ SkipCFG \/ ProcessCFG \/ BuildTree \/ MakeMark \/ MarkCallee \/ FinishTree \/ Export

Spec == Init /\ [][Next]_vars
\* One thread: as long as it has a step to make it makes it.  The second part
\* is weak fairness of ProcessCFG, BuildTree and Export with ENABLED written
\* out: in each of these phases Next is enabled, and leaves the phase.
FairSpec ==
  /\ Spec
  /\ WF_vars(SkipCFG \/ MakeMark \/ MarkCallee \/ FinishTree)
  /\ \/ []<>(pc \notin {"cfg", "tree", "export"})
     \/ []<><<Next>>_vars

=============================================================================
