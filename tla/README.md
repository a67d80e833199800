# WSymb in TLA+

WSymb computes symbolic worst-case execution times. `dumpcft` turns a binary
into a control-flow tree and the tree into a formula over *abstract WCETs*
(`.pwf`); `swymplify` simplifies the formula and prints it as C; the C program
is linked with a small runtime and *instantiated*, as often as one likes, with
the values of its parameters (loop bounds, WCETs of procedures, procedure
arguments). A formula that is instantiated too low is an unsafe time bound;
this directory models the parts of the tools that decide it.

    ELF --OTAWA--> CFG -> DAG -> CFTree -> formula_t -> .pwf
                    (CFTree.cpp, include/CFTree.h)        |
                                     simplify/*.ml  <-----+
                                          |
              +---------------------------+------------------+
           to_c.ml                     to_it.ml          to_py.ml
        tables + PWCET.c           libpwcet/pwcet.c   compiler/compiler.py

## 1. Inventory

| Component | State it keeps | Operations | Hard behaviour | What makes it correct |
|---|---|---|---|---|
| Instantiation runtime (`PWCET.c`) | the header (`loop_id`, `eta_count`, `eta`, `others`) and the array of every node of a static formula, which outlive a call; the static cursor table of alternatives | `evaluate`, `compute_node`, one `awcet_` function per kind | everything is computed in place: a call starts from what the previous call left; headers are copied so that nodes share arrays; arrays are replaced by `NULL` or `malloc` | the answer is at least the WCET of the valuation, in every call; no access out of an array |
| Algebra (`abstract_wcet.ml`, `loops.ml`) | none, immutable values; the loop hierarchy table | `sum`, `union`, `prod`, `annot`, `pow` and their helpers | lists are kept decreasing by every operation because the next one needs it | k iterations cost exactly the first k values; the innermost loop is kept |
| C generator (`to_c.ml`, `wcet_formula.ml`) | none | `c_formula_rec`, `multi_wcet_size_bound` | the size of an array is fixed before any valuation is known | the size is an upper bound |
| Simplifier (`simplify.ml`) | none | sort, merge, distributivity, opposed conditions, powers | rewriting relies on an order of formulas; merges compare results to see what happened | a simplified formula has the WCET of the original for every valuation |
| Parallel pseudo trees (`CFTree.cpp`, infeasible paths on) | map from pseudo path to tree, its mutex; per tree a cache of pseudo paths without a lock | `parallelPTrees`, `buildPTrees`, `putPPath`, `getPPaths` | up to eight threads over one tree | every path gets its tree once; no unlocked access races |
| Pseudo paths and LCA (`CFTree.cpp`) | constraints per tree, cached pseudo paths, arrays of the LCA finder | `getSeqPaths`, `getAltPaths`, `removeIPaths`, `pseudoTree`, `LCAFinder` | the cache ignores which constraints it was filled for | the pseudo paths are those that satisfy the constraints |
| CFG → DAG → CFTree (`CFTree.cpp`) | DAG nodes and edges, dominance, forced nodes; marks on blocks for the export | `toDAG`, `toCFT`, `forcedPassedNodes`, `getDominated`, `exportToDot`, `exportToHuman` | loops become nodes, back, exit and entry edges are rewired; a work list | the paths of the tree are those of the CFG |
| Export (`CFTree.cpp`) | the `formula_t` being filled | `exportToAWCET`, `exportToFeasibleWCET`, `writePWF`, the loop table of `dumpcft` | fields of one structure filled in by several branches; marks left on blocks by the construction | the formula counts every block, pipeline effect and miss |
| Branch conditions (`CFTree.cpp`) | conditions per branch address, used up as blocks are visited | `pushConditionsOnCFGs`, `filterCdts`, `findConditionOfBranch`, parsers | two-level work list over CFGs and calls | it ends; a branch gets the conditions of its own call |
| Cache mutator (`CFTree.cpp`) | a tree rebuilt with penalties | `transform`, `transformLeaf`, `transformLBlock` | categories relative to a loop header that may not be one | every miss is counted |
| Embedded library (`libpwcet`, `to_it.ml`) | abstract WCETs updated in place, results alias operands | `sum`, `max`, `iterate`, `int_multiply`, `annot`, `prune` | operand that is used twice is already changed | as the runtime's |
| Python compiler (`compiler.py`, `to_py.ml`) | text being generated | `Seq`, `Alt`, `Loop`, `Conditional`, `Constant` | emitted variables are shared and not always assigned | as the runtime's |
| Parser and command lines | tables of loops and bounds | grammar, options | none to speak of | – |

Components meet in three data structures: the tree (`CFTree` and its
constraints), the formula (`formula_t` in C, `Wcet_formula.t` in OCaml) and the
abstract WCET. There is concurrency in one place only, the construction of
pseudo trees. Nothing is persisted and there are no messages; the other
difficulties are state that survives a call, aliasing, and boundaries (bounds
0, empty lists, sizes).

## 2. Plan

Written, in this order, because the last word on a time bound is spoken by the
runtime and by the algebra it implements:

1. `AbstractWcet`, then `WcetIterations`: the algebra and its meaning.
2. `PwcetRuntime`, `PwcetSoundness`, `WcetService`: the runtime, the algebra as
   its oracle, and the service it implements.
3. `ParallelTrees`: the one concurrent part.
4. `BranchConditions`: the work lists of `pushConditionsOnCFGs`.
5. `Libpwcet`, `LibpwcetSoundness`: the second runtime, with the same algebra as
   its oracle.
6. The front end: `ControlFlow`, `CfgToDag`, `Trees`, `DagToTree`, `CacheMutator`,
   `TreeExport`, `TreeTexts`, composed by `TreeConstruction`, with the paths of the
   control-flow graph as the abstract specification (`TreeSoundness`).
7. `Simplify`, `SimplifySoundness`: the rewriting rules against the meaning of
   formulas, with the algebra of 1.
8. `PyCompiler`: the code `compiler.py` emits, run on the simplified formulas of 7.
9. Proofs about 1, 2, 3, 4 and 5, over `Induction`, which states induction and recursion
   in a form the provers can instantiate.

Left: in the proofs about `PWCET.c`, products and the annotations `Plain` leaves out
(section 5); pseudo paths, once a build with `IP` can process an alternative (see section 6);
`ParallelTrees` would then be composed with them.

## 3. What is modelled

### AbstractWcet (constants `LTop`, `Hier`)

One operator per function of `abstract_wcet.ml`; `MWcet(wl, last)` is the pair
of the source and `AWcet(loop, m)` the abstract WCET. The recursive functions of
the source are recursive functions of the position they have reached.
`ImmContained` and `Glb` are those of `loops.ml`. `SumAll` and `UnionAll` combine several
parts from the left, `Sums` and `Unions` are what they have after each part.

### WcetIterations

What the algebra means. A behaviour starts with an operand and applies
operations to it; `w` is the abstract WCET, `time[k]` the worst time that k
iterations of the loop it is relative to spend in it, computed from the
operations as statements about programs: `Sequence` adds, `Alternative` shares k
iterations out among the two branches in every way and takes the worst,
`Annotate` runs in at most so many of them, `CloseLoop` is a loop that is run once
per iteration of what surrounds it, `InnerLoop` one in the body of the loop the
operands are relative to. `inner` is the set of loops the operands are relative
to since the last loop was closed. `OperandAssumption` is the comment of the source
on its lists (`abstract_wcet.ml:29-31`: sorted decreasingly, the last value the least)
and the numbers the lexer reads, which have no sign (`lexer.mll:66`).

### PwcetRuntime

State and code:

| Variable | Code |
|---|---|
| `formula` | the static fields of the generated `formula_t` table, which nests (`Tree`), as C initializers do; `cap` is the length of the array of `c_aw_placeholder`, or a bound on what the header of a node without one counts |
| `aw`, `mem` | `f->aw` of every node, and the arrays; `eta` is the name of an array or `NULL` |
| `stack`, `loc` | the activations of `compute_node`, and the locals (`i`, `j`, `bound`, `loop_wcet`, `tab`) of the `awcet_` function that runs; `loc.ph` is the place in it |
| `val` | what the callbacks answer during this call |
| `status`, `result`, `calls` | outside of `evaluate`, in it, or past an undefined access; the last answer; calls made |

A step is an iteration of a loop of the code that accumulates into a header, an
array or a local, or a straight piece between two. `Visit`/`Enter`/`Leave` are
the recursion; `SeqScan`, `SeqClear`, `SeqSum` are `awcet_seq` (its last double
loop goes through the array row by row, the model adds column by column);
`AltScan` ... `AltTake`, `AltAbort` are `awcet_alt`; `Loop...` are `awcet_loop` and
`awcet_paramloop`, which differ in the bound and in the `malloc`; `IntMult`,
`BoolTrue`, `BoolFalse`, `LeaveCopy`, `AnnKeep`, `AnnCut` the rest. `AccessOk` says
that what the next step reads and writes exists; if it does not, the behaviour
goes to `fault`, which stands for anything. `Cleared` keeps the width of the two
types: `memset(eta, 0, sizeof(int) * n)` clears half of n cells of `long long`.

A valuation answers all the callbacks of a call: loop bounds and annotations of any
sign, for the code takes them as they come, and for a procedure a whole `awcet_t`
(`pwcet-runtime.h:105`), with a loop and a list. The list is an array of the program that
makes the calls (`Lists`), whose contents (`ListValues`) the callback does not change;
nor does the evaluation of a formula that fits. `header` tells whether the callback sets
`loop_id` and `eta_count` too or, like the one of the example, only `eta` and `others`.
`Quotient` is the division of C, which rounds towards 0, for a bound below 0. A condition names the linear combination of
boolean parameters it is about, and the valuation gives the value of the
combination; how its terms are added up is left out.

### PwcetSoundness, WcetService

`Denotation(frm, v)` gives each node of a formula the abstract WCET of
`AbstractWcet`, computed by `Meaning` from those of its operands. `Plain` are the
formulas the theorems are about (section 5). `WcetService` is the abstract specification: a question, then an
answer that is at least the WCET. `Service` is the refinement mapping: `val` is
the question, `result` the answer, and everything within a call is `busy`.
`WithArrays` sizes the arrays as `multi_wcet_size_bound` does, and gives the nodes that
have none of their own the bound on what they may count.

### ParallelTrees

`main`, `i`, `beg` are the exporting thread in `exportToAWCET` and
`parallelPTrees`; `pc`, `todo`, `at`, `seen` the threads in `buildPTrees`. Paths are
numbered in the order of their `std::set`. A thread goes through the subtrees
for each of its paths (`Look`), finds the pseudo paths cached (`Reuse`) or computes
and writes them (`Compute`, `Keep`), locks, inserts and unlocks. `emplace` is two
steps, one that finds the map as it is and one that puts the key into what it
found, so that two threads in it at a time lose one. `Barren` subtrees have an
empty set of pseudo paths, which the test of the cache takes for a missing one.
The order in which subtrees are visited is fixed; the number of constraints,
the contents of the trees and the heuristics are left out.

### BranchConditions

`prog` is the set of CFGs, one per call, with their edges, the addresses of their
branches, and the rows of the two files in the order in which calls are met;
`table` is `conditionsMap` as `filterCdts` builds it. `stack` holds the activations of
`pushConditionsOnCFGs`: `now` is `workingList`, `next` is `nextWL`, `seen` is
`potenatialLoopHeaders`. Taking a block from `now` is `Branch`, `Call`, `NullCallee` or
`Pass`, whole: the bound, the conditions of the successors, the entry used up and
the successors added; `Call` leaves the block before it enters the callee, whose
lists are its own. The order of a `std::set` of pointers is the order of
addresses, so any block of `now` may be next. Reading the files is left out.

### Libpwcet, LibpwcetSoundness

A formula is the sequence of its nodes in the order in which `f_to_c` prints their
statements, `w` the pointers in the variables `w<n>`, `heap` the `awcet` objects they
point to: compound literals and temporaries are objects of their own, parameters
objects of the program the statements are linked with. `eta` holds the values that
count: no operation but `annot` reads behind them. A statement is one step; it
changes an object in place wherever the library does. `prune` is a statement that
is written by hand, for the generator prints none. Two of the statements it does
print do not compile (the one of a product lacks its semicolon, the one of an
annotation passes an array that is declared under another name and no `li`); they
are modelled as the calls they stand for. `max` goes in rounds over the cursors of its
operands, `Taken` is one of them; `sum`, `iterate` and `__idiv` are the values they leave.
`Denotation` is the algebra's, as in `PwcetSoundness`; `TotalOf` (module `Totals`) adds up a
list; `Live` are the nodes whose result is
still to be read. Lists of parameters and constants decrease (`Decreases`), as the
algebra assumes, and their values are natural numbers.

The library and the algebra do not always keep the same loop. What follows is then
relative to different loops, and a later `iterate` packs one list and sums up the other:
the lists are not comparable. There are three cases, and `SameLoop` says of a statement,
when it is executed, that it is none of them; the history variable `sameLoops` of
`SoundSpec` is true as long as every statement so far was not:

- `iterate` forgets the loop of what it iterates 0 times (`pwcet.c:157-162`), where `pow`
  keeps it; this matters if that is another loop than the one that is iterated;
- `annot` leaves a list alone that is relative to a loop around the annotation's and is
  not longer than the limit, and so drops the loop of the annotation (`pwcet.c:247-253`),
  where the algebra takes the inner one;
- `annot` gives a list without values the loop of the annotation, be it inside or outside
  of the list's (`pwcet.c:277-278`), where the algebra takes the inner one.

An annotation of an outer loop on a list of an inner one, and one of an inner loop that
takes a longer list over (`pwcet.c:248-249`), are compared. `Comparable` adds that no
parameter occurs twice.

### ControlFlow, CfgToDag, Trees, DagToTree

`ControlFlow` is external: a control-flow graph as OTAWA gives it, blocks and edges
in their order, with the loop information its analyses put on them (`Analysed`
computes headers, enclosing loops, and for an edge that leaves loops the outermost
one left). `CfgToDag` is `toDAG`: `Plain` and `Inner` are the blocks and inner loops
`getAllBlocksLoop` collects for one loop, `BlockEdges` to `ToInner` the edges in the order in
which the code adds predecessors, because that order numbers the branches of an
alternative. An `ASSERT` that does not hold makes a graph `failed`. `LoopContains` is as
narrow as the code's. `Trees` has the four kinds of tree and the paths they stand
for. `DagToTree` is `toCFT`: `Chain` the order `getDominated` takes the forced nodes in,
`AltTree` the alternative before a node with several predecessors, and the marks on
blocks (`IS_LAST_IN_ALT`, `IS_AFTER_ALT`, `IS_AA_LOOPEXIT`, `EDGE_ALIAS`) in the order in
which they are made. `FindConditionOfBranch` gives the branches of an alternative their
conditions; as in the code every alternative is a conditional one, with empty
conditions where there is none.

### CacheMutator, TreeExport, TreeTexts

`CacheMutator` splits the leaf of a block into the block and its cache lines;
`TransformLBlock` gives a line its category and its loop. `TreeExport` is `exportToAWCET`
as the default build compiles it (`PIPELINE` and `ICACHE` on, `IP` off):
`EntryEffect`, `LastEffect` and `HeaderEffect` are the three ways in which the pipeline effect
of an edge gets into the constant of a block, `lastBlock` and `loopexit` the
parameters of the recursion. `WritePWF` is what the printed formula is worth when it
is read back, constants relative to no loop being printed relative to `l:0`.
`FixVirtualizedLoopinfo` and `LoopTable` are the loop table of `dumpcft`. `TreeTexts` has the
two texts written of a tree, as sequences of lines or tokens; `ReadDot` and `ReadCode`
say what they mean.

### TreeConstruction, TreeSoundness

`prog` is a program: its graphs, the functions that are parameters, conditions,
cache lines and times of blocks and edges. `pc` and `cur` are the place in
`processWorkSpace`, `dag` and `built` what `processCFG` has made of the current function,
`wl` and `nextWl` the work list by which a call at the end of a branch marks the
last blocks of its callee, `last`, `after`, `aaloop`, `alias` the marks, `cftree` the trees,
`formula` what is exported. `SkipCFG`, `ProcessCFG`, `BuildTree`, `MakeMark`, `MarkCallee`,
`FinishTree`, `Export` are the steps; a round of the work list is one of them. Marks are
made after the tree and not while it is built: nothing reads them in between.
`TreeSoundness` compares with the paths of the graph, `EdgePaths`, each loop being run
`turns` times. Times are chosen by the property: a formula that counts each block,
edge and miss for its own unit of time often enough is large enough for all times
of that one kind.

### Simplify, SimplifySoundness

One operator per rule of `simplify.ml`; `simplify_sum` and `simplify_union`, which are the
same text but for two rules, are `Simp`, `Rec`, `Merge` and `Pair` with the operator as a
parameter (`Distribute` and `Factor` differ). An internal error is a formula, `FError`,
that takes over whatever it is part of. A behaviour of `SimplifySoundness` reads a formula
(`f`), one production of the grammar at a time, and has it simplified
(`simplified`). `Eval` is what a formula is worth under a valuation.

### PyCompiler

`Generate` is `generate` of `compiler.py` over the expressions `f_to_py` prints: the
variables an expression returns and, since statements are emitted in the order they
run in, what they hold. Names are the positions of expressions, for loops the number
of the loop, as in the source; so two loops of one number share their variables, as
there. A variable that was never assigned holds `v.content`, for which the valuations
have several values. `Supported` are the formulas `f_to_py` has a case for.
`PyCompiler` extends `SimplifySoundness`, whose behaviours make the simplified formulas.

## 4. Runs

| Run | Bounds | Shows |
|---|---|---|
| `runtime_family` | 195 formulas of at most six nodes, `MaxCalls` 3, three valuations, in one of which the procedure answers a list; two cursors; 144,409 states | `SoundList`, `FirstCallExact`, `NoFault`, `ImplementsService` |
| `runtime_undefined` | 146 formulas, `MaxCalls` 2, three valuations, one with bound 0, one with bound -2 and annotation -3, one with a callback that leaves `eta_count` alone; 29,845 states | `TypeOK`, `FitsIsSafe`, `CallsEnd` |
| `algebra_iterations` | three nested loops, lists up to two values, `MaxOps` 3, `Horizon` 6 iterations; 8,897 states | `IterationTimes`, `Decreasing`, `InnermostLoop` |
| `parallel_trees` | up to 5 paths, 3 threads, 2 subtrees of which one is barren; 22,706 states | `TypeOK`, `NoPathLost`, `BuiltOnce`, `MapQuiet`, `NoTornPaths`, `ExportEnds` |
| `branch_conditions` | 140 programs: 7 shapes of main that call 7 shapes of function once, and two calls in a row; 9,622 states | `TypeOK`, `BoundsPushed`, `OwnConditions`, `PushEnds` |
| `tree_construction` | 1,192 programs: every reducible graph of up to three blocks with one or two successors each, without and with a first miss; graphs of four blocks in a line with jumps; a line of each category; programs of several functions; loops run 2 times (1 with four blocks); 7,736 states | `TypeOK`, `PathsCovered`, `NoExtraPath`, `StopsOnlyThere`, `ConditionOnEveryPath`, `TextsAgree`, `BlocksCounted`, `EffectsCounted`, `MissesCounted`, `LoopTableNests`, `ProcessingEnds` |
| `simplify_formulas` | formulas of up to `MaxOps` 2 operations over eleven operands, three conditions, four valuations; 116,811 states | `WcetKept`, `ErrorsOnlyNested`, `Canonical` |
| `py_formulas` | formulas of up to `MaxOps` 2 operations over seven operands, arguments -1 to 3; 60,613 states | `ReturnsWcet` |
| `libpwcet_lists` | 3,412 formulas of up to six statements, half of them with annotations and `prune`, three valuations, no limit and `MaxSize` 3 on lists of up to four values; 129,372 states | `LiveExact`, `OneOwner`, `LiveSound`, `LiveDecreasing` |

Why the bounds are enough. Six nodes are two wrappers of any kind above an
operation with two operands, one of which may be a conditional: every kind
stands above and below every other kind that the runtime treats differently.
The valuations change every bound, condition and list length, of the procedure too, between two
calls, a third call starts from what a changed second one left. Loop 1 in loop
2 is what makes packing by the bound happen, with list lengths that are and are
not multiples of it. Three operations and three loops are what a comparison of
loops needs to go wrong; a horizon of 6 passes the longest list and its last
value after packing. Five paths on three threads give chunks of 1 and a rest of
3, fewer paths than threads give chunks of 1 and idle threads, 0 paths the
exception. `HalfWord` is larger than every value; `Heap` has a block more than
the nodes that can hold one. `MaxCalls`, `MaxOps` and `MaxPaths` bound the runs:
a run stops there, which is why they do not check for deadlock. The shapes of
`branch_conditions` have every way in which a block can be met again: a join, a
loop with its exit at either end, one with two exits; calls stand before, in and
behind each. Programs end, so that there is no deadlock to look for. Statements
are straight-line code, and two wrappers around an operation of two operands
again put every kind above and below every other; bounds are below, equal to, a
divisor of, and above the length of lists; three is the least `MaxSize` at which
a list is cut in its middle.

Three blocks are the least for a loop in a loop with a way out of both, for a loop
behind an alternative and an alternative in a loop, and four in a line for an edge
that leaves three loops; with all graphs of that size, the exceptions in the
properties are all there are among them. Two turns tell a first iteration from the others.
Calls stand in a branch, in a loop, first and last in a function. Two operations
over operands that are sums, unions, loops, annotated and conditional parts
themselves put every rule above and below every other; the valuations make a
condition and the one opposed to it hold alone or both, parameters worth one value
or several, relative to an inner or an outer loop. The lists of `py_formulas` have one, two
and four values, its loops bounds below and above their lengths, and packs that do
not come out even. `MaxOps` stops a behaviour, and
programs end: none of these runs checks for deadlock.

Runs that show a disagreement, each on the smallest formula:

| Run | Property violated | What happens |
|---|---|---|
| `runtime_successive` | `EveryCallExact` | the array of a sequence is cleared by half, and its count never shrinks: a later call answers too much (`PWCET.c:151-156`) |
| `branch_several_calls` | `OwnConditions` | a branch reached over two paths of different length is met twice and takes the conditions of the next call (`CFTree.cpp:3652`) |
| `libpwcet_shared` | `AnswerSound` | a parameter that occurs twice is changed by the first operation on it (`pwcet.c:157-162`, `to_it.ml:240`) |

`branch_conditions` has two calls in a row only of functions without the shape
`branch_several_calls` is about. The annotations of `libpwcet_lists` for the inner
loop stand on lists of the inner loop and of the outer one: what `annot` takes over is
compared, what it leaves alone with its outer loop is not, nor is a loop of bound 0
over a list of another loop. Nine in ten of the formulas, each with each valuation, stay
comparable to their end, annotated or not: `LiveExact` and `LiveSound` are about them.
Without a size limit, annotations go to `fault`, so that `LiveExact` is never about them.

More disagreements were met and have no run of their own. Most of them are exceptions in a
property that passes, which then says that nothing else goes wrong within the bounds; the
hazards in question are not covered beyond that. In the runtimes:

- a loop whose parametric bound was 0 has a `NULL` array in the next call, which
  stores through it when the bound is above 0 again (`PWCET.c:230`, `257`): in
  `LoopParam(1, 2)` over a list of loop 2, instantiated from 0 on as in the example. With the
  callback of the example, a procedure keeps the count 1 of its placeholder over a
  `NULL` array, and a sequence around it reads the array (`PWCET.c:91`, `161`). Both cases are
  in `runtime_undefined`, as faults of formulas that do not fit;
- `multi_wcet_size_bound` divides the size of a loop's body by the size of its exit
  part, which is 0 once simplified, so that an array gets one cell where a loop of
  bound 2 over three values counts two (`wcet_formula.ml:74-78`);
- a product keeps the `eta_count` 1 of its placeholder, so that its first value is 0
  where the operand counts none (`PWCET.c:311-319`);
- the comment on `union_mwcet` says point-by-point maximum, the code merges, which is
  what `IterationTimes` needs (`abstract_wcet.ml:74-89`);
- a loop of bound 0 is relative to no loop in `libpwcet`, while the algebra keeps the loop
  of its body. In `(2, [7,5,3], 1)` plus a loop of bound 0 over `(1, [4,2], 0)`, with loop 1
  in loop 2, the algebra has a list relative to loop 1 and the library one relative to
  loop 2: iterating it twice in loop 2 the one is packed, the other summed up
  (`pwcet.c:157-162`, `abstract_wcet.ml:149-153`);
- with `MAX_WCET_SIZE` 0, which is no limit for `prune` and `max`, `annot` counts -1
  values and reads `eta[-1]` (`libpwcet/pwcet.c:239-270`).

In the trees, each an exception in a property of `TreeSoundness`:

- an edge that leaves three loops at once is lost (`DeepExit`, `CFTree.cpp:1067`);
- the header of a loop that begins a function is put before the loop once more
  (`Repeated`, `CFTree.cpp:966-983`): too much, not too little;
- a return inside of a loop fails an `ASSERT` (`CFTree.cpp:1007`); a call of a function
  without a way to its exit is exported through a null pointer (`StopsOnlyThere`);
- a call that ends a branch, to a function that ends in a call itself, is never
  done with (`Hangs`, `CFTree.cpp:1420-1441`);
- a pipeline effect may be lost in four cases (`EffectsCounted`). The comment at
  `CFTree.cpp:2173-2174` says that the exit tree of a loop counts the effects of entry
  and exit "to be sure to stay safe". It does not if the loop ends a branch of an alternative
  and is left from another block than its header, as in `if (b1) do b2 while (b3);`, because the
  edge to the block behind is looked for among those of the header only (`CFTree.cpp:1453`). Nor
  is the effect counted of an edge that enters a loop behind an alternative, of the back edge
  of a loop in a loop, whose exit tree takes the effect of the entry for that of the
  iterations, and of an edge with two calls between its ends;
- a first miss in a loop in a loop is lost behind a block without lines, whose
  constant is printed relative to `l:0` (`LostMiss`, `PWCET.c:540`);
- a condition found in the body of a loop is given to a branch that need not run the
  body (`ConditionOnEveryPath`, `CFTree.cpp:3729`).

In the simplifier, each an exception in a property of `SimplifySoundness`:

- a loop with a sum behind it, as a part of a sum, ends in the internal error "wrong
  list size" of `merge_sums`, the case that is meant not to occur (`simplify.ml:423`):
  `simplify_power` gives back a sum it has not simplified (lines 545-546), and the
  nested sum is merged with the next part into three. `(p:1, (c + p:1), l:1)^2 + p:2`
  is enough (`ErrorsOnlyNested`);
- a union of operands with a common part that is worth several values keeps the
  part once, and so fewer values (`simplify.ml:483-489`);
- a union of sums of three parts or more that differ in their constants at most loses the
  constants: that of `1 + p1 + p2` with itself is `p1 + p2` (`simplify.ml:448`; the comment at
  line 470, "There is a bug here ... something goes wrong and removes a part of the
  formula", may be about this);
- `opposed` does not look at left-hand sides: `0 <= p` and `0 <= -p` are taken for a
  case distinction although both hold for 0 (`simplify.ml:335-343`);
- "This effectively groups like-formulas" (`simplify.ml:31`) is not so for
  `p1 + p2 + 2.p2`: products sort before parameters, and it stays in three parts.

In the C function `compiler.py` emits, exceptions in `ReturnsWcet`:

- a parametric loop whose body has one value, relative to that loop, is assigned no
  result unless its bound is 0: the last statement, for all larger bounds, is emitted
  from two values on (`compiler.py:150-156`);
- no loop assigns its result for a negative bound, which counts as 0 elsewhere;
- a loop that occurs twice in a formula, with different bodies, has its variables
  overwritten before they are added up (`compiler.py:138`, `149`, `229`).

`py_formulas` numbers loops from the outside, as the comment at `compiler.py:51` assumes.

`runtime_family` leaves out the formulas these are about where the result is known to be
wrong: its products stand over operands with one counted
value, its loops have no parametric bound 0 or below, annotations are on the outer loop, its
callbacks set the whole `awcet_t`, its arrays happen to be large enough. What remains holds
although the arrays of sequences are never cleared: the leftover values only add to the
answer (`ImplementsService`), which is also why `EveryCallExact` is not one of its
properties.

### Fairness

`PwcetRuntime!FairSpec` asks for weak fairness of a step of the call in progress:
`evaluate` is sequential and goes on by itself. Starting a call is not fair; the
caller may stop. `ParallelTrees!FairSpec` asks for weak fairness of the exporting
thread and of each thread: the operating system schedules threads that can run,
and a thread that is waiting for the mutex needs no more, because it is the
only state in which a thread waits and each thread has finitely many paths.
`BranchConditions!FairSpec` asks for weak fairness of the one thread there is, and so
does `TreeConstruction!FairSpec` (the second of its parts is weak fairness of the steps
that build a graph, a tree or a formula, with `ENABLED` written out, so that it need
not be evaluated by building them once more).
The refinement and the liveness properties use these; the others need none.

## 5. Proofs

| Module | Theorem | From |
|---|---|---|
| `PwcetRuntime_proofs` | `Types`: `Spec => []TypeOK`; `FittingFormulasAreSafe`: `Spec => []FitsIsSafe` | `RuntimeAssumption`, `FormulasAssumption` |
| `PwcetSoundness_proofs` | `ListIsSound`: `SoundList` and `FirstCallIsExact`: `FirstCallExact` in every plain formula; `RuntimeImplementsService`: `Spec => ImplementsService` if all formulas are plain | the same |
| `ParallelTrees_proofs` | `Types`, `PathsBuiltOnce`, `QuietMap`, `PathsNotTorn`, `AllPathsBuilt`, `NoParallelizationException` | `ParallelAssumption` |
| `BranchConditions_proofs` | `Types`: `Spec => []TypeOK`; `EveryBoundIsPushed`: `BoundsPushed` in every connected program; `ConditionsAreOwn`: `OwnConditions` in every connected program whose branches have addresses of their own | `ProgramsAssumption` |
| `Induction` | `SetInduction`, `StrongSetInduction`, `RankInduction`, `RankRecursion`, `ChainRecursion`, `PrefixRecursion` | – |
| `AbstractWcet_proofs` | what each function of the algebra computes: `InsertFront`, `SumValues`, `UnionValues`, `ProdValues`, `KeepFirstValues`, `PackValues`, and the totals of their first k values, `SumTotal`, `ProdTotal`, `KeepFirstTotal`, `PackTotal` | – |
| `WcetIterations_proofs` | `RelativeToInnermost`: `Spec => []InnermostLoop`; `ListsDecrease`: `Spec => []Decreasing`; `TimesAreExact`: `Spec => []IterationTimes` | `NestAssumption`, `OperandAssumption` |
| `Libpwcet_proofs` | `LiveObjectsAreDistinct`: `Spec => []OneOwner`; `ListsDecrease`: `Spec => []LiveDecreasing`; `ListsAreExact`: `SoundSpec => []LiveExact`; `ListsAreSound`: `SoundSpec => []LiveSound`; `AnswersAreSound`: `AnswerSound` in every comparable execution | `LibpwcetAssumption` |

*Induction over data.* The induction theorems of the library take the predicate as
an operator, which the provers cannot instantiate. `Induction` states them for sets:
a set of naturals that has 0 and the successor of each of its members has all
naturals. A lemma defines the set of the n for which its claim holds and cites the
theorem. That a recursive function exists and satisfies its equation is
`RankRecursion`, for a function each of whose values is computed from values of
smaller rank: `ChainRecursion` (of one value) and `PrefixRecursion` (from 0 to n)
are the forms the models need.

*Runtime types.* `TypeOK` is not inductive: that a step of `awcet_alt` finds its
cursors, or that a loop does not divide by 0, depends on the place. `TInv` adds
`Control`: which phases belong to which kind, that `stack` is not empty during a
call, and that every activation but the innermost has visited a child.

*Fitting formulas.* `Fits` is a condition on the table alone: the array of a
sequence is as long as its operands', the one of an alternative as long as theirs
together, the one of a loop times the bound as long as the body's, and bounds of loops
are above 0. The callback fills in whole WCETs, whose arrays have the values they count,
and no more than the node is taken to count. An annotation asks for -1 values (all of
them) or more. It asks for no more values than its own array holds, and, if it may
ever copy the header of its operand (`MayShare`), than the operand's own array holds
(`Room`): `awcet_ann` leaves `eta` at what it copied, and the next call that cuts the
list writes there. This array is the operand's own only if its function never sets
`eta`; under a condition, a parametric loop or another annotation an annotation that may
share fits if it asks for no values. `FitsIsSafe` needs a stronger invariant, `Safe`: every header, in the tables
and in the copies `awcet_boolmult` saved, counts at most `cap` of the node it
belongs to and points to that node's array, to one of at least that length, or to
none with nothing to count (`HeaderInv`); an annotation points to its own array or to
the one of its operand (`Points`), and the operand it starts from has no values if it
is a callee (`Asked`); arrays of nodes keep their length; the stack is a chain
of operands; and the cursors of a running alternative together have taken as many
values as it counts. That last part is a cardinality: each step of `AltTake` adds
one pair (operand, position) to a finite set whose size `Fits` bounds. `IInv == TInv
/\ (Fits(formula) => Safe)` was checked by TLC before it was proved, one lemma per
action.

*Lists of the runtime.* `SoundList`, `FirstCallExact` and `ImplementsService` follow from
one invariant, `Sound`. Its relation is `Good`: a header with its array has the loop of
an abstract WCET, and each position *covers* the algebra's: it is not below it, and
equal to it in the first call. Both theorems are one proof this way, for the
functions are the same and only what they find in the arrays differs. `Sound` says
of the place a call has reached:

- `Places`: the header of a node points to its own array, to that of a node below it
  (a conditional), to a block of `malloc` (a parametric loop) or to an array of the
  callback (a procedure); constants are as they were printed, the arrays of the callback as
  it filled them; no cell in the array of a sequence is negative;
- `Untouched`: in the first call, the arrays of the sequences that have not been
  entered are zero. `awcet_seq` clears half an array and adds to all of it, so that
  this, and that arrays are never negative afterwards, is all that can be said;
- `Guarded`: a condition whose operand is evaluated holds;
- `Computed`: the operands that have been evaluated are `Good`, those of the nodes
  further down the stack included;
- `Working`: what the `awcet_` function has in its header, its array and its locals after
  so many rounds of its loops (`SeqWork`, `AltWork`, `LoopWork`);
- `Ending`: between two calls the root is `Good` and the answer is its first value.

The rounds are laws of headers and arrays alone, without stack or formula. Of a
sequence: columns added so far are those of the algebra's partial sums (`Sums`),
the others are covered by zero. Of an alternative: what was taken off the operands so far
is the greatest of it in decreasing order, and is not exceeded by what is left. Of
a loop: the packs up to here are `PackValues`. These laws meet the algebra in the
lemmas `libpwcet` needs too (`SumAllLaw`, `UnionAllLaw`, `PowLaw`, in
`AbstractWcet_proofs`). That a step disturbs nothing else is `Tree`: the operands of
different nodes are apart (`Below`), and the stack is a path from the root (`Nested`),
so that the node at work writes where no evaluated operand lies. The one exception is
an annotation that cuts into the array it shares with its operand: what it writes to the
positions the operand counts is what they hold (`Rewritten`), so that the operand is as
it was. Where `Answered`
holds, `Ending` is the two properties; for the refinement, `Return` is the answer of the
service and all other steps of a call stutter.

`Plain` is the condition, on the table and the valuations alone, and no part of it
can go. `Fits` keeps the behaviour defined. A product keeps the loop and the count of its
placeholder (section 4). A parametric loop that is left out is relative to no loop
in the C code (`PWCET.c:227-233`, `LOOP_TOP`) and to the loop of its values in the
algebra, as in `libpwcet`. An annotation is of the loop its operand is relative to, or of
any loop inside of it if the operand is a single number: `awcet_ann` keeps the header of
a list whose loop is around the annotation's and which is not longer (`PWCET.c:433-447`),
where the algebra cuts it. The lists that constants and callbacks give decrease (`Decreasing`), as the
algebra assumes. Of the 195 formulas of `runtime_family` 179 fit and 136 are
plain, 20 of them annotated. What does not fit there is 16 annotations over conditions,
parametric loops and other annotations. Of the 146 formulas
of `runtime_undefined` 25 fit under the valuations of that run, and 85 would under those
of `runtime_family`.

*Threads.* The invariant of `ParallelTrees` says where `beg` is after `i` chunks,
that the chunks handed out are disjoint intervals and what is left begins at `beg`;
that the holder of the mutex is the one thread in `emplace` and has seen the map as
it is; that the union of what is left to do and what is done is everything handed
out; and that all subtrees that are not barren are cached before the first thread
starts. The theorems follow from it for every number of paths, threads and subtrees.
The proof of the chunks is arithmetic about `size * nb_threads <= npaths`.

*Working lists.* `BoundsPushed` and `OwnConditions` speak of the end; the invariant
`VisitInv` says what holds on the way. There is a set `V` of blocks dealt with such
that no edge or call leads out of `V` but to a block of a working list (`Covers`),
every bounded block of `V` has its bound, and, if no two branches share an address,
the queue of a branch has all its rows as long as the branch is not in `V` and is
empty afterwards (`Queued`), the blocks behind a branch of `V` have their conditions
(`Served`) and no block has one of another branch (`CondsPlaced`). Leaving out the
branches met before is right because they are in `V` already. At the end the lists
are empty, so that `V` is closed under edges and calls, and `Connected` makes it the
whole program. `Connected` is how OTAWA finds blocks; the run checks it of its
programs. `OwnAddresses` is what a function called twice does not have:
`branch_several_calls` shows that it cannot be left out. The table that `filterCdts`
builds is a recursion over the rows, and `FilterOwn` an induction over it: each
address gets one map, with all rows of its branch.

*Innermost loop.* `glb` compares two loops and gives back the first unless the
second is in it. On a nest, however deep, that keeps a result relative to the
innermost loop of all its parts (`GlbOfNest`); the invariant adds that this loop is
one of those met, without which an inner loop might be taken for the one that is
closed.

*Times of iterations.* `TimesInv` adds that `w.m` is a decreasing list of naturals,
and that `time[k]` is its first k values summed up as far as `time` goes. One lemma
per operation leads this back to the functions of `AbstractWcet`: `sum_mwcet` adds
at each position; `pack` sums up the next `it` values, so that k packs are k * it
values; `keep_first` takes the first values, so that more iterations than its limit
cost no more. For `union_mwcet` the claim is not about positions: its first k values
are the worst of all ways to share k out among the two lists (`UnionValues`), proved
from `SplitStep`, the same for the list without its first value. `Horizon` and
`MaxOps` bound the run, not the theorems, which hold for any.

*In place operations.* That no two results which are still needed are one object is
not inductive: a statement may leave the object of a parameter or one of its own,
and nothing in `OneOwner` tells that no live result has it already. `Names` adds how
objects and statements are related: an object that is a number is not greater than
the statements that point to it, and one that is a parameter was put there by a
statement for this parameter before. With a formula that is a tree (`WellFormed`)
and without a parameter that occurs twice (`Linear`) the invariant is preserved
whichever object the statement leaves.

*Lists in place.* `SoundInv` has four parts: the invariant about owners; `AllLists`,
every object is a list that decreases (this alone gives `ListsDecrease`, without any
condition on the formula); `Untouched`, the object of a parameter no statement has
named is as it was; `LiveMatch`, each live object has the loop of the algebra's
abstract WCET, values not below its, and the same ones if `MaxSize` is 0.
`LiveExact` says nothing of loops, so that it is not inductive: what `iterate` does
depends on them. A step changes one object; the owners make that object's node the
only live one that is affected. For that node the proof goes from the C function to
the algebra in two steps. What the function computes, position by position:
`SumOfLists`, `MaxOfLists`, `IteratedHere`, `IteratedAround`, `PrunedLists`,
`AnnotatedLists`. For `max` this is an invariant of its rounds (`NextRound`): what
was taken so far is the greatest of what the cursors have passed, and is not
exceeded by what they stand on; `Pigeonhole` ends it, since k + 1 values of several
lists pass the cursors of one of them. Then the same of the algebra: `SumAllLaw`,
`UnionAllLaw` from `SumValues` and `UnionValues` by induction over the operands,
`PowLaw` from `PackValues`. That `__idiv` is one too small for a multiple and
`iterate` makes up for it is `PacksCover`. `Denotation` is a recursion over the
nodes; that it has a value is `DenotedLaw`, from `RankRecursion`. `Comparable` is
the only condition: of the formula, that no parameter occurs twice, and of the execution,
that no statement so far was one of the three of section 3. What a statement finds in the
list it changes depends on the limit as well as on formula and valuation, and the list is
gone afterwards, so that this is judged step by step (`sameLoops`); the invariant implies
that the loops of live objects are the algebra's as long as it is true.
`libpwcet_shared` and the example in section 4 show that neither half can be left out.
TLC checked `Untouched` and `LiveMatch` on the formulas of `libpwcet_lists` first: of 4443
executions without annotations 4031 are comparable at the end, of 5790 with annotations
and limit 3 it is 5346.

Only model-checked:

- liveness (`CallsEnd`, `ExportEnds`, `PushEnds`, `ProcessingEnds`), which needs
  `ENABLED`;
- `NoFault`, `SoundList`, `FirstCallExact` and `ImplementsService` of the instantiation
  runtime in formulas that are not plain (`NoFault` of those that fit is
  `FittingFormulasAreSafe`);
- the properties of `TreeSoundness`, `SimplifySoundness` and `PyCompiler`: trees,
  the simplifier and the emitted code are written with `RECURSIVE` operators over
  trees of any shape, for which the prover has no SMT backend.

## 6. Not modelled

- OTAWA and the analyses it runs (its results are `ControlFlow`); the binary and the
  source annotations; option handling, files, logging.
- *Pseudo paths, constraints, LCA and* `exportToFeasibleWCET`. They are compiled with `IP`,
  which the build does not define, and do not fit the trees of this version:
  `toCFT` makes every alternative a `CFTreeConditionalAlt`, which `fillNodeParents` skips and
  `getPPaths` takes for a loop (`CFTree.cpp:2975`), so that any program with a branch
  ends in a null dereference. `ParallelTrees` models the threads, whose scheme does
  not depend on what the paths are.
- `writeC` and `compute_eta_count` of `PWCET.c`, which nothing calls; the values of
  `ANN_COUNT`, which nothing sets.
- `max_size.ml`, whose only calls are commented out.
- The list of arguments `compiler.py` declares: it looks for `param_0` to `param_3` in
  the text of conditions and bounds, so that `param_12` declares `param_1` and a
  parameter above 3 nothing; such code does not compile.
- Callbacks that answer a procedure's WCET with a new list in each call, or a negative
  one: a list is one of the arrays `Lists`, `others` a natural number.
- The text of `.pwf`, of the generated C and of the files of conditions and bounds,
  beyond what the readers of section 3 say of it.
- Exact machine words (values are integers, apart from the two widths that meet in
  `memset`) and heap exhaustion.

What the models assume of their inputs: block numbers are unique in a program and
each call has a graph of its own (virtualized CFGs), graphs are reducible and every
block reaches the exit unless a property is about that, edges have the times
`otawa::etime` gives them, never negative. The properties about the formula give each
kind of time to one block or edge at a time.

## 7. Running

    tlc -config runtime_family.cfg MCPwcetRuntime
    tlapm PwcetSoundness_proofs.tla

Each configuration is for the module `PROJECT.json` names with it.
