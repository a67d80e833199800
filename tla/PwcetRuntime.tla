---------------------------- MODULE PwcetRuntime ----------------------------
(***************************************************************************)
(* The instantiation runtime of PWCET.c: evaluate(f, li, pv, bpv, data)    *)
(* walks a formula tree depth first and computes at each node an abstract  *)
(* WCET, *in place*: the awcet_t header of a node and the array its eta    *)
(* pointer designates survive from one call of evaluate to the next.       *)
(*                                                                         *)
(* The model has one step per iteration of the C loops that accumulate     *)
(* into a header or an array, and keeps the header fields, the arrays, and *)
(* the pointers between them (shared arrays, NULL) as the code does.  A    *)
(* step that would touch a cell outside of an array, or through NULL,      *)
(* leads to the status "fault" instead: what the C program does from there *)
(* is undefined.                                                           *)
(***************************************************************************)
EXTENDS Integers, Sequences, FiniteSets

CONSTANTS
  Nodes,       \* formula_t structures
  Root,        \* the outermost one, f in the generated header
  Formulas,    \* formulas a program may be generated for, see FormulaFields
  Heap,        \* names of the blocks malloc can return
  Lists,       \* names of the arrays the callback can hand out
  ListValues,  \* what the program that owns them has put there
  NULL,
  Loops,       \* loop identifiers
  Params,      \* identifiers of the parameters the callbacks are asked for
  Forms,       \* linear combinations of boolean parameters
  Hier,        \* li->hier: pairs <<inner, outer>>
  LoopBounds,  \* li->bnd
  Valuations,  \* what the two callbacks answer during one call of evaluate,
               \* see Valuation
  HalfWord,    \* 2^(8 * sizeof(int)): a long long holds two of them
  AltMax,      \* ALT_MAX
  MaxCalls     \* bound of the model on the number of calls of evaluate

LOOP_TOP == -1
IDENT_NONE == 0
Kinds == {"SEQ", "ALT", "LOOP", "PARAM_LOOP", "ANN", "INTMULT", "BOOLMULT",
          "AWCET", "CONST"}
LoopIds == Loops \cup {LOOP_TOP}

\* A condition names the linear combination of boolean parameters it compares
\* left with.
Conditions == [kind : {"LEQ", "EQ"}, left : Int, form : Forms]

\* Static fields of a formula_t; cap is the length of the array c_aw_placeholder
\* gives it, or how many values its header may count if it is given none.
FormulaFields ==
  [kind : Kinds, kids : Seq(Nodes), param : Params \cup {IDENT_NONE}, loop : LoopIds,
   count : Nat \cup {-1}, coef : Nat, conds : SUBSET Conditions, form : Forms,
   eta : Seq(Int), others : Int, cap : Nat]

\* Operands of each kind.
Arity(f) ==
  /\ f.kind \in {"SEQ", "ALT"} => f.kids # <<>>
  /\ f.kind \in {"LOOP", "PARAM_LOOP", "ANN", "INTMULT", "BOOLMULT"} => Len(f.kids) = 1
  /\ f.kind \in {"AWCET", "CONST"} => f.kids = <<>>
  /\ f.kind = "AWCET" => f.param \in Params
  /\ f.kind = "LOOP" => f.loop \in Loops

\* param_valuation answers a loop bound, an annotation or a WCET, which is a whole
\* awcet_t; header tells whether the callback writes its loop_id and eta_count too.
Valuation ==
  [bound : [Params -> Int],
   ann : [Params -> [loop : LoopIds, count : Int]],
   aw : [Params -> [loop : LoopIds, cnt : Nat, eta : Lists \cup {NULL}, others : Nat,
                    header : BOOLEAN]],
   form : [Forms -> Int]]

\* The tables of a formula nest: no node is an operand twice, and some node of
\* any set of nodes has no operand in it.
Tree(frm) ==
  /\ \A n, m \in Nodes : \A i \in DOMAIN frm[n].kids, j \in DOMAIN frm[m].kids :
       frm[n].kids[i] = frm[m].kids[j] => n = m /\ i = j
  /\ \A S \in SUBSET Nodes :
       S # {} => \E n \in S : \A i \in DOMAIN frm[n].kids : frm[n].kids[i] \notin S

ASSUME RuntimeAssumption ==
  /\ Root \in Nodes
  /\ IsFiniteSet(Nodes)
  /\ NULL \notin Nodes \cup Heap \cup Lists
  /\ Nodes \cap (Heap \cup Lists) = {}
  /\ Heap \cap Lists = {}
  /\ ListValues \in [Lists -> Seq(Int)]
  /\ IDENT_NONE \notin Params
  /\ LOOP_TOP \notin Loops
  /\ Loops \subseteq Int
  /\ LoopBounds \in [Loops -> Nat]
  /\ Valuations \subseteq Valuation
  /\ HalfWord \in Nat \ {0}
  /\ AltMax \in Nat
  /\ MaxCalls \in Nat

ASSUME FormulasAssumption ==
  /\ Formulas \subseteq [Nodes -> FormulaFields]
  /\ \A frm \in Formulas : Tree(frm) /\ \A n \in Nodes : Arity(frm[n])

Buffers == Nodes \cup Heap \cup Lists
Pointers == Buffers \cup {NULL}
Header == [loop : Int, cnt : Int, eta : Pointers, others : Int]

\* The kinds whose header starts as a placeholder of c_aw_placeholder.
Placeholders == {"SEQ", "ALT", "LOOP", "ANN", "INTMULT", "AWCET"}

VARIABLES
  formula,  \* the static fields of the formula this program evaluates
  status,   \* "idle" between calls, "run" inside of evaluate, "fault"
  val,      \* answers of the callbacks during this call
  stack,    \* activations of compute_node, the innermost first
  loc,      \* local variables of the awcet_ function being executed
  aw,       \* the awcet_t header of each node
  mem,      \* contents of the eta arrays, index j of C at position j + 1
  result,   \* what the last finished call returned
  calls     \* number of calls made so far

vars == <<formula, status, val, stack, loc, aw, mem, result, calls>>

-----------------------------------------------------------------------------
\* hdr is the header at entry: awcet_boolmult evaluates a copy of its child.
Frame(n) == [node |-> n, i |-> 0, hdr |-> aw[n]]
Start == [ph |-> "visit", k |-> 0, j |-> 0, bound |-> 0, acc |-> 0, tab |-> <<>>]
Finished == [Start EXCEPT !.ph = "done"]

Top == Head(stack)
self == Top.node
F == formula[self]
dest == aw[self]
Source(i) == aw[F.kids[i]]     \* source[i - 1].aw
In(kind, ph) == status = "run" /\ F.kind = kind /\ loc.ph = ph
AtLoop(ph) == In("LOOP", ph) \/ In("PARAM_LOOP", ph)
Visited == Top.i = Len(F.kids)

\* a.eta[j], and the same where the header has that many values, a.others behind them.
Cell(a, j) == mem[a.eta][j + 1]
Elem(a, j) == IF j < a.cnt THEN Cell(a, j) ELSE a.others

\* loop_inner(li, inner, outer)
LoopInner(inner, outer) ==
  /\ inner # outer
  /\ inner # LOOP_TOP
  /\ outer = LOOP_TOP \/ <<inner, outer>> \in Hier

Innermost_Outer(l1, l2) == IF l2 = LOOP_TOP \/ LoopInner(l1, l2) THEN l2 ELSE l1
Innermost(l1, l2) == IF l2 = LOOP_TOP \/ LoopInner(l1, l2) THEN l1 ELSE l2

CheckCondition_Strict ==
  \A c \in F.conds : c.kind = "LEQ" /\ c.left < val.form[c.form]

CheckCondition ==
  \A c \in F.conds : IF c.kind = "LEQ" THEN c.left <= val.form[c.form]
                                       ELSE c.left = val.form[c.form]

Bound_Short ==
  IF F.kind = "LOOP" /\ F.param = IDENT_NONE THEN LoopBounds[F.loop] - 1 ELSE 1

Bound_Signed ==
  IF F.kind = "LOOP"
  THEN IF F.param # IDENT_NONE THEN val.bound[F.param] ELSE LoopBounds[F.loop]
  ELSE val.form[F.form]

\* The bound awcet_loop reads, of any sign, and the one compute_loop_bound computes.
Bound ==
  IF F.kind = "LOOP"
  THEN IF F.param # IDENT_NONE THEN val.bound[F.param] ELSE LoopBounds[F.loop]
  ELSE IF val.form[F.form] < 0 THEN 0 ELSE val.form[F.form]

\* cnt / Bound in C, which rounds towards 0.
Magnitude(x) == IF x < 0 THEN -x ELSE x
Quotient(cnt) ==
  LET q == Magnitude(cnt) \div Magnitude(Bound)
  IN  IF (cnt < 0) = (Bound < 0) THEN q ELSE -q

\* How many packs of Bound values cnt values make.
Packed_Extra(cnt) == Quotient(cnt) + 1
Packed(cnt) == Quotient(cnt) + IF Magnitude(cnt) % Magnitude(Bound) = 0 THEN 0 ELSE 1

\* The annotation of the node f, which the callback may give.
AnnOf(v, f) ==
  IF f.param # IDENT_NONE THEN v.ann[f.param]
                          ELSE [loop |-> f.loop, count |-> f.count]
Ann == AnnOf(val, F)

\* memset(eta, 0, sizeof(int) * cnt) over an array of long long: the cells
\* that lie in the first half are cleared, and half of the middle one.
Cleared(x, j, cnt) ==
  IF 2 * (j + 1) <= cnt THEN 0
  ELSE IF 2 * j + 1 = cnt THEN x - (x % HalfWord)
  ELSE x

\* ann->loop_id is inside of the source's loop: the annotations conflict.
Conflict ==
  Source(1).cnt # 0 /\ LoopInner(Ann.loop, Source(1).loop)

\* ANN_CONFLICT_PRIORITY is ANN_INNER.
AnnKept ==
  \/ Ann.count = -1
  \/ Conflict /\ Ann.count >= Source(1).cnt

\* The sources awcet_alt may take its next value from; it takes the first of
\* those with the greatest value.
Candidates ==
  {i \in DOMAIN loc.tab : /\ loc.tab[i] # Source(i).cnt
                          /\ Cell(Source(i), loc.tab[i]) > dest.others}
Greatest(i) ==
  \A o \in Candidates :
    LET x == Cell(Source(i), loc.tab[i])
        y == Cell(Source(o), loc.tab[o])
    IN  x > y \/ (x = y /\ i <= o)

\* The first n cells at b exist; the cell j and the value j of the header a can be
\* read.
Spans(b, n) == n <= 0 \/ (b # NULL /\ n <= Len(mem[b]))
Exists(a, j) == a.eta # NULL /\ j < Len(mem[a.eta])
Readable(a, j) == j < a.cnt => Exists(a, j)

\* What the next step of the code reads and writes lies inside of the arrays.
AccessOk ==
  /\ In("SEQ", "clear") => Spans(dest.eta, (dest.cnt + 1) \div 2)
  /\ In("SEQ", "sum") => /\ Spans(dest.eta, dest.cnt)
                        /\ Spans(Source(loc.k + 1).eta, Source(loc.k + 1).cnt)
  /\ In("ALT", "merge") => \A i \in DOMAIN loc.tab :
       loc.tab[i] # Source(i).cnt => Exists(Source(i), loc.tab[i])
  /\ In("ALT", "take") => /\ Exists(Source(loc.k), loc.tab[loc.k])
                         /\ Spans(dest.eta, dest.cnt + 1)
  /\ AtLoop("first") /\ loc.k < loc.bound => Readable(Source(1), loc.k)
  /\ AtLoop("pack") /\ loc.k < dest.cnt =>
       /\ loc.bound > 0 => Readable(Source(1), loc.j + loc.k * loc.bound)
       /\ Spans(dest.eta, loc.k + 1)
  /\ In("INTMULT", "visit") /\ Visited => /\ Spans(Source(1).eta, Source(1).cnt)
                                         /\ Spans(dest.eta, Source(1).cnt)
  /\ In("ANN", "visit") /\ Visited /\ ~AnnKept =>
       /\ \A j \in 0..(Ann.count - 1) : Readable(Source(1), j)
       /\ Spans(dest.eta, Ann.count)
  /\ loc.ph = "done" /\ Len(stack) = 1 /\ dest.cnt # 0 => Exists(dest, 0)

-----------------------------------------------------------------------------
(* Initial state: the tables c_formula_rec prints.                         *)

InitHeader(n) ==
  LET f == formula[n] IN
  CASE f.kind = "CONST" ->
         [loop |-> f.loop, cnt |-> Len(f.eta),
          eta |-> IF f.eta = <<>> THEN NULL ELSE n, others |-> f.others]
    [] f.kind \in Placeholders ->
         [loop |-> LOOP_TOP, cnt |-> formula[n].cap, eta |-> n, others |-> 0]
    [] OTHER -> [loop |-> 0, cnt |-> 0, eta |-> NULL, others |-> 0]

InitArray(b) ==
  IF b \in Nodes
  THEN IF formula[b].kind = "CONST" THEN formula[b].eta
       ELSE [j \in 1..formula[b].cap |-> 0]
  ELSE IF b \in Lists THEN ListValues[b] ELSE <<>>

Init ==
  /\ formula \in Formulas
  /\ status = "idle"
  /\ val \in Valuations
  /\ stack = <<>>
  /\ loc = Start
  /\ aw = [n \in Nodes |-> InitHeader(n)]
  /\ mem = [b \in Buffers |-> InitArray(b)]
  /\ result = 0
  /\ calls = 0

-----------------------------------------------------------------------------
(* evaluate and the recursion of compute_node                              *)

Call(v) ==
  /\ status = "idle"
  /\ calls < MaxCalls
  /\ status' = "run"
  /\ val' = v
  /\ stack' = <<Frame(Root)>>
  /\ calls' = calls + 1
  /\ UNCHANGED <<formula, loc, aw, mem, result>>

Enter_Again ==
  /\ stack' = <<Frame(F.kids[Top.i + 1])>> \o stack
  /\ UNCHANGED <<formula, status, val, loc, aw, mem, result, calls>>

\* compute_node(ctx, &f->children[i])
Enter ==
  /\ stack' = <<Frame(F.kids[Top.i + 1]), [Top EXCEPT !.i = @ + 1]>> \o Tail(stack)
  /\ UNCHANGED <<formula, status, val, loc, aw, mem, result, calls>>

Visit ==
  /\ status = "run" /\ loc.ph = "visit"
  /\ F.kind # "BOOLMULT"
  /\ ~Visited
  /\ Enter

Leave ==
  /\ status = "run" /\ loc.ph = "done"
  /\ Len(stack) > 1
  /\ formula[stack[2].node].kind # "BOOLMULT"
  /\ stack' = Tail(stack)
  /\ loc' = Start
  /\ UNCHANGED <<formula, status, val, aw, mem, result, calls>>

Return ==
  /\ status = "run" /\ loc.ph = "done"
  /\ Len(stack) = 1
  /\ status' = "idle"
  /\ stack' = <<>>
  /\ loc' = Start
  /\ result' = IF dest.cnt = 0 THEN dest.others ELSE Cell(dest, 0)
  /\ UNCHANGED <<formula, val, aw, mem, calls>>

\* A leaf function writes the header of the node, and may go on with l.
Put(h, l) ==
  /\ aw' = [aw EXCEPT ![self] = h]
  /\ loc' = l
  /\ UNCHANGED <<formula, status, val, stack, result, calls>>

Store(b, j, x) == mem' = [mem EXCEPT ![b][j + 1] = x]

\* A step of a loop that only changes locals.
Go(l) ==
  /\ loc' = l
  /\ UNCHANGED <<formula, status, val, stack, aw, result, calls>>

-----------------------------------------------------------------------------
(* Leaves                                                                  *)

ConstNode ==
  /\ In("CONST", "visit")
  /\ Go(Finished)
  /\ UNCHANGED mem

\* The callback stores through a union laid over the header: it sets eta, to an
\* array of its own, and others, and may leave loop_id and eta_count as they are.
AwcetNode ==
  /\ In("AWCET", "visit")
  /\ LET p == val.aw[F.param] IN
     Put([loop |-> IF p.header THEN p.loop ELSE dest.loop,
          cnt |-> IF p.header THEN p.cnt ELSE dest.cnt,
          eta |-> p.eta, others |-> p.others], Finished)
  /\ UNCHANGED mem

-----------------------------------------------------------------------------
(* awcet_seq                                                               *)

SeqScan ==
  /\ In("SEQ", "visit") /\ Visited
  /\ loc.k < Len(F.kids)
  /\ LET s == Source(loc.k + 1) IN
     Put([loop |-> IF loc.k = 0 THEN s.loop ELSE Innermost(s.loop, dest.loop),
          cnt |-> IF dest.cnt < s.cnt THEN s.cnt ELSE dest.cnt,
          eta |-> dest.eta,
          others |-> (IF loc.k = 0 THEN 0 ELSE dest.others) + s.others],
         [loc EXCEPT !.k = @ + 1, !.ph = IF loc.k + 1 = Len(F.kids) THEN "clear" ELSE @])
  /\ UNCHANGED mem

SeqClear ==
  /\ In("SEQ", "clear")
  /\ mem' = IF dest.cnt = 0 THEN mem ELSE
       [mem EXCEPT ![dest.eta] =
          [j \in DOMAIN @ |-> Cleared(@[j], j - 1, dest.cnt)]]
  /\ Go([Start EXCEPT !.ph = "sum"])

\* One child's column of the double loop (the code iterates it row by row).
SeqSum ==
  /\ In("SEQ", "sum")
  /\ LET s == Source(loc.k + 1) IN
     mem' = IF dest.cnt = 0 THEN mem ELSE
       [mem EXCEPT ![dest.eta] =
          [j \in DOMAIN @ |-> IF j <= dest.cnt THEN @[j] + Elem(s, j - 1) ELSE @[j]]]
  /\ Go(IF loc.k + 1 = Len(F.kids) THEN Finished ELSE [loc EXCEPT !.k = @ + 1])

-----------------------------------------------------------------------------
(* awcet_alt                                                               *)

AltScan ==
  /\ In("ALT", "visit") /\ Visited
  /\ loc.k < Len(F.kids)
  /\ LET s == Source(loc.k + 1)
         o == IF loc.k = 0 THEN -1 ELSE dest.others
     IN
     Put([loop |-> IF loc.k = 0 THEN s.loop ELSE Innermost(s.loop, dest.loop),
          cnt |-> 0, eta |-> dest.eta,
          others |-> IF o < s.others THEN s.others ELSE o],
         IF loc.k + 1 = Len(F.kids) /\ Len(F.kids) <= AltMax
         THEN [Start EXCEPT !.ph = "merge", !.tab = [i \in DOMAIN F.kids |-> 0]]
         ELSE [loc EXCEPT !.k = @ + 1])
  /\ UNCHANGED mem

AltSelect ==
  /\ In("ALT", "merge")
  /\ \E i \in Candidates : Greatest(i) /\ Go([loc EXCEPT !.ph = "take", !.k = i])
  /\ UNCHANGED mem

AltEnd ==
  /\ In("ALT", "merge")
  /\ Candidates = {}
  /\ Go(Finished)
  /\ UNCHANGED mem

AltTake ==
  /\ In("ALT", "take")
  /\ Store(dest.eta, dest.cnt, Cell(Source(loc.k), loc.tab[loc.k]))
  /\ Put([dest EXCEPT !.cnt = @ + 1], [loc EXCEPT !.ph = "merge", !.tab[loc.k] = @ + 1])

-----------------------------------------------------------------------------
(* awcet_loop and awcet_paramloop                                          *)

LoopZero ==
  /\ AtLoop("visit") /\ Visited
  /\ Bound = 0
  /\ Put([loop |-> LOOP_TOP, cnt |-> 0, eta |-> NULL, others |-> 0], Finished)
  /\ UNCHANGED mem

\* The values of the body are relative to this very loop.
LoopHeader ==
  /\ AtLoop("visit") /\ Visited
  /\ Bound # 0 /\ Source(1).loop = F.loop
  /\ Go([Start EXCEPT !.ph = "first", !.bound = Bound])
  /\ UNCHANGED mem

LoopSumFirst ==
  /\ AtLoop("first")
  /\ loc.k < loc.bound /\ loc.k < Source(1).cnt
  /\ Go([loc EXCEPT !.k = @ + 1, !.acc = @ + Elem(Source(1), loc.k)])
  /\ UNCHANGED mem

LoopSumOthers ==
  /\ AtLoop("first")
  /\ ~(loc.k < loc.bound /\ loc.k < Source(1).cnt)
  /\ LET left == IF loc.k < loc.bound THEN loc.bound - loc.k ELSE 0 IN
     Put([loop |-> LOOP_TOP, cnt |-> 0, eta |-> dest.eta,
          others |-> loc.acc + left * Source(1).others], Finished)
  /\ UNCHANGED mem

\* The values are relative to another loop: pack them by Bound.  Only
\* awcet_paramloop allocates the array it fills.
LoopOuter ==
  /\ AtLoop("visit") /\ Visited
  /\ Bound # 0 /\ Source(1).loop # F.loop
  /\ LET s == Source(1)
         cnt == Packed(s.cnt)
         put(e) == Put([loop |-> s.loop, cnt |-> cnt, eta |-> e,
                        others |-> s.others * Bound],
                       [Start EXCEPT !.ph = "pack", !.bound = Bound])
     IN  \/ F.kind = "LOOP" /\ put(dest.eta) /\ UNCHANGED mem
         \/ /\ F.kind = "PARAM_LOOP"
            /\ \E b \in Heap \ {h.eta : h \in {aw[n] : n \in Nodes}
                                      \cup {stack[d].hdr : d \in DOMAIN stack}} :
                 /\ put(b)
                 /\ mem' = [mem EXCEPT ![b] = [j \in 1..cnt |-> 0]]

LoopPack ==
  /\ AtLoop("pack")
  /\ loc.k < dest.cnt
  /\ LET sum == IF loc.bound > 0
                THEN loc.acc + Elem(Source(1), loc.j + loc.k * loc.bound)
                ELSE 0
     IN
     IF loc.j + 1 < loc.bound
     THEN Go([loc EXCEPT !.j = @ + 1, !.acc = sum]) /\ UNCHANGED mem
     ELSE /\ Store(dest.eta, loc.k, sum)
          /\ Go([loc EXCEPT !.k = @ + 1, !.j = 0, !.acc = 0])

LoopPacked ==
  /\ AtLoop("pack")
  /\ loc.k >= dest.cnt
  /\ Go(Finished)
  /\ UNCHANGED mem

-----------------------------------------------------------------------------
(* awcet_intmult, awcet_boolmult, awcet_ann                                *)

IntMult ==
  /\ In("INTMULT", "visit") /\ Visited
  /\ mem' = IF Source(1).cnt <= 0 THEN mem ELSE
       [mem EXCEPT ![dest.eta] =
          [j \in DOMAIN @ |-> IF j <= Source(1).cnt
                              THEN Elem(Source(1), j - 1) * F.coef ELSE @[j]]]
  /\ Put([dest EXCEPT !.others = Source(1).others * F.coef], Finished)

BoolTrue ==
  /\ In("BOOLMULT", "visit")
  /\ CheckCondition
  /\ Enter

BoolFalse ==
  /\ In("BOOLMULT", "visit")
  /\ ~CheckCondition
  /\ Put([loop |-> LOOP_TOP, cnt |-> 0, eta |-> NULL, others |-> 0], Finished)
  /\ UNCHANGED mem

\* The child was evaluated in a local copy of its formula_t: its header goes to
\* the parent and the child itself keeps the header it had.
LeaveCopy ==
  /\ status = "run" /\ loc.ph = "done"
  /\ Len(stack) > 1
  /\ formula[stack[2].node].kind = "BOOLMULT"
  /\ aw' = [aw EXCEPT ![stack[2].node] = dest, ![self] = Top.hdr]
  /\ stack' = Tail(stack)
  /\ loc' = Finished
  /\ UNCHANGED <<formula, status, val, mem, result, calls>>

\* memcpy of the whole header: both nodes then share one array.
AnnKeep ==
  /\ In("ANN", "visit") /\ Visited
  /\ AnnKept
  /\ Put(Source(1), Finished)
  /\ UNCHANGED mem

AnnCut ==
  /\ In("ANN", "visit") /\ Visited
  /\ ~AnnKept
  /\ Put([loop |-> IF Source(1).cnt = 0 \/ Conflict THEN Ann.loop ELSE Source(1).loop,
          cnt |-> Ann.count, eta |-> dest.eta, others |-> 0], Finished)
  /\ mem' = IF Ann.count <= 0 THEN mem ELSE
       [mem EXCEPT ![dest.eta] =
          [j \in DOMAIN @ |-> IF j <= Ann.count THEN Elem(Source(1), j - 1) ELSE @[j]]]

-----------------------------------------------------------------------------
Step ==
  \/ Visit \/ Leave \/ LeaveCopy \/ Return
  \/ ConstNode \/ AwcetNode
  \/ SeqScan \/ SeqClear \/ SeqSum
  \/ AltScan \/ AltSelect \/ AltEnd \/ AltTake
  \/ LoopZero \/ LoopHeader \/ LoopSumFirst \/ LoopSumOthers
  \/ LoopOuter \/ LoopPack \/ LoopPacked
  \/ IntMult \/ BoolTrue \/ BoolFalse \/ AnnKeep \/ AnnCut

\* abort() of awcet_alt when it has more sources than its cursor table.
AltAbort ==
  In("ALT", "visit") /\ Visited /\ loc.k = Len(F.kids) /\ Len(F.kids) > AltMax

Fault ==
  /\ status = "run"
  /\ ~AccessOk \/ AltAbort
  /\ status' = "fault"
  /\ UNCHANGED <<formula, val, stack, loc, aw, mem, result, calls>>

Next ==
  \/ \E v \in Valuations : Call(v)
  \/ status = "run" /\ AccessOk /\ Step
  \/ Fault

Spec == Init /\ [][Next]_vars
FairSpec == Spec /\ WF_vars((status = "run" /\ AccessOk /\ Step) \/ Fault)

-----------------------------------------------------------------------------
(* Type invariant: the headers, arrays and locals of every reachable state  *)
(* of the evaluation have the types the C declarations give them, no cursor  *)
(* is negative, and neither is the bound of a parametric loop                *)
(* (compute_loop_bound).                                                     *)
TypeOK ==
  /\ formula \in [Nodes -> FormulaFields]
  /\ status \in {"idle", "run", "fault"}
  /\ val \in Valuations
  /\ stack \in Seq([node : Nodes, i : Nat, hdr : Header])
  /\ loc \in [ph : {"visit", "clear", "sum", "merge", "take", "first", "pack", "done"},
              k : Nat, j : Nat, bound : Int, acc : Int, tab : Seq(Nat)]
  /\ In("PARAM_LOOP", "first") \/ In("PARAM_LOOP", "pack") => loc.bound \in Nat
  /\ aw \in [Nodes -> Header]
  /\ mem \in [Buffers -> Seq(Int)]
  /\ result \in Int
  /\ calls \in 0..MaxCalls

\* The kinds whose function fills the array c_aw_placeholder gave the node.
Owners == {"SEQ", "ALT", "LOOP", "INTMULT"}

\* The cells of the array of node n that a header copied from n gives access to.
Room(frm, n) ==
  CASE frm[n].kind \in Owners -> frm[n].cap
    [] frm[n].kind = "CONST" -> Len(frm[n].eta)
    [] OTHER -> 0

\* The header of n never has values, so no annotation conflicts with it.
Scalar(frm, n) ==
  \/ frm[n].kind = "AWCET" /\ \A v \in Valuations : v.aw[frm[n].param].cnt = 0
  \/ frm[n].kind = "CONST" /\ frm[n].eta = <<>>

\* awcet_ann may copy the header of the operand, and with it the pointer to the
\* array that a later call cuts its values into.
MayShare(frm, n) ==
  \/ ~Scalar(frm, frm[n].kids[1])
  \/ \E v \in Valuations : AnnOf(v, frm[n]).count = -1

\* The array of every node is long enough for what its operands can hold, the
\* cursor table for the operands of an alternative, no loop can have the bound
\* 0 that makes awcet_loop drop its array, nor a negative one, the callback fills in
\* whole WCETs, with arrays that have the values they count and no more than the
\* node is taken to have, and an annotation asks for no more values than any array
\* it may write them to has.
Fits(frm) ==
  \A n \in Nodes :
    LET f == frm[n]
        kid(i) == frm[f.kids[i]].cap
        fills(v) == LET b == IF f.param # IDENT_NONE THEN v.bound[f.param]
                             ELSE LoopBounds[f.loop]
                    IN  b > 0 /\ kid(1) <= f.cap * b
        gives(p) == /\ p.header /\ p.cnt <= f.cap
                    /\ p.cnt = 0 \/ (p.eta # NULL /\ p.cnt <= Len(ListValues[p.eta]))
        cuts(v) == LET c == AnnOf(v, f).count
                   IN  /\ -1 <= c /\ c <= f.cap
                       /\ c = -1 => kid(1) <= f.cap
                       /\ MayShare(frm, n) => c <= Room(frm, f.kids[1])
    IN
    /\ f.kind = "CONST" => Len(f.eta) <= f.cap
    /\ f.kind = "AWCET" => \A v \in Valuations : gives(v.aw[f.param])
    /\ f.kind = "LOOP" => \A v \in Valuations : fills(v)
    /\ f.kind = "ANN" => \A v \in Valuations : cuts(v)
    /\ f.kind \notin {"CONST", "AWCET", "LOOP", "ANN"} =>
         \A i \in DOMAIN f.kids : kid(i) <= f.cap
    /\ f.kind = "ALT" =>
         /\ Len(f.kids) <= AltMax
         /\ Cardinality({s \in (DOMAIN f.kids) \X (0..f.cap) : s[2] < kid(s[1])}) <= f.cap

(* Evaluating a formula whose arrays fit, as often as one likes and for any   *)
(* valuations, never reads or writes outside of an eta array or through a     *)
(* NULL eta pointer, and awcet_alt never runs out of cursors.                 *)
FitsIsSafe == Fits(formula) => status # "fault"

=============================================================================
