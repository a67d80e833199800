------------------------------ MODULE Libpwcet ------------------------------
(***************************************************************************)
(* The operations of libpwcet/pwcet.c and the straight-line program that   *)
(* to_it.ml prints for a formula: one statement per node, operands first,  *)
(* each of which leaves a pointer to an abstract WCET in a variable.       *)
(*                                                                         *)
(* The operations work in place: the result of most of them is one of the  *)
(* operands, changed.  A pointer is the name of the object it points to.   *)
(***************************************************************************)
EXTENDS Totals, SequencesExt

CONSTANTS
  Formulas,    \* sequences of nodes, see WellFormed
  Valuations,  \* what the parameters stand for, see Valuation
  Params,      \* WCETs the program defines as variables
  Bounds,      \* parametric loop bounds
  Forms,       \* linear combinations of procedure arguments
  Conds,       \* predicates over procedure arguments
  Hier,        \* loop_hierarchy: pairs <<inner, outer>>
  MaxSizes,    \* what MAX_WCET_SIZE may be, 0 for no limit
  AltMax,      \* ALT_MAX
  None         \* no parameter

LOOP_TOP == -1

Elem(o, i) == IF i <= Len(o.eta) THEN o.eta[i] ELSE o.others

\* An awcet object, and whether its values, the last of which is repeated, decrease.
Objects == [loop : Int, eta : Seq(Nat), others : Nat]
Decreases(o) == \A i \in DOMAIN o.eta : o.eta[i] >= Elem(o, i + 1)

\* Nodes in the order of their statements: operands come before their operation,
\* and no node is an operand twice.  k is a bound, a coefficient or a limit.
WellFormed(f) ==
  /\ f \in Seq(Range(f)) /\ f # <<>>
  /\ \A n \in DOMAIN f :
       /\ DOMAIN f[n] = {"kind", "kids", "loop", "eta", "others", "k", "param", "conds"}
       /\ f[n].kids \in Seq(1..(n - 1))
       /\ f[n].loop \in Int /\ f[n].k \in Int
       /\ f[n].kind = "annot" => f[n].k >= -1
       /\ f[n].kind = "product" => f[n].k >= 0
       /\ f[n].kind = "param" => f[n].param \in Params
       /\ f[n].kind = "power" => f[n].param \in Bounds \cup {None}
       /\ f[n].kind = "powerparam" => f[n].param \in Forms
       /\ f[n].kind = "const" =>
            f[n].kids = <<>> /\ f[n].eta \in Seq(Nat) /\ f[n].others \in Nat /\ Decreases(f[n])
       /\ f[n].kind \notin {"const", "param"} => f[n].kids # <<>>
  /\ \A m, n \in DOMAIN f : \A i \in DOMAIN f[m].kids, j \in DOMAIN f[n].kids :
       f[m].kids[i] = f[n].kids[j] => m = n /\ i = j

Valuation(v) ==
  /\ v.aw \in [Params -> Objects] /\ \A p \in Params : Decreases(v.aw[p])
  /\ v.bound \in [Bounds -> Int] /\ v.form \in [Forms -> Int]
  /\ v.holds \subseteq Conds

ASSUME LibpwcetAssumption ==
  /\ \A f \in Formulas : WellFormed(f)
  /\ \A v \in Valuations : Valuation(v)
  /\ Params \cap Nat = {} /\ None \notin Bounds
  /\ MaxSizes \subseteq Nat
  /\ AltMax \in Nat

VARIABLES
  MaxSize,  \* the MAX_WCET_SIZE it was compiled with
  formula,  \* what the program is printed for
  val,      \* what its parameters stand for
  heap,     \* the awcet objects; eta holds the eta_count values that count
  w,        \* the variables w<n> of the statements that were executed
  status    \* "run", "done", or "fault": an access outside of an array

vars == <<MaxSize, formula, val, heap, w, status>>

\* The statement to be executed, its node and its operands.
pc == Len(w) + 1
Node == formula[pc]
Ws == [i \in DOMAIN Node.kids |-> w[Node.kids[i]]]
W1 == heap[Ws[1]]

-----------------------------------------------------------------------------
(* The operations                                                          *)

LoopInner(inner, outer) ==
  /\ inner # outer /\ inner # LOOP_TOP
  /\ outer = LOOP_TOP \/ <<inner, outer>> \in Hier

Innermost(ws) ==
  LET in[i \in 0..Len(ws)] ==
        IF i = 0 THEN LOOP_TOP
        ELSE IF in[i - 1] = LOOP_TOP \/ LoopInner(heap[ws[i]].loop, in[i - 1])
        THEN heap[ws[i]].loop ELSE in[i - 1]
  IN  in[Len(ws)]

\* Operand i is the first with the longest list: sum stores its result there.
Widest(ws, i) ==
  /\ \A j \in DOMAIN ws : Len(heap[ws[j]].eta) <= Len(heap[ws[i]].eta)
  /\ \A j \in 1..(i - 1) : Len(heap[ws[j]].eta) < Len(heap[ws[i]].eta)

SumOf(ws, widest) ==
  [loop |-> Innermost(ws),
   eta |-> [i \in DOMAIN heap[widest].eta |-> TotalOf([j \in DOMAIN ws |-> Elem(heap[ws[j]], i)])],
   others |-> TotalOf([j \in DOMAIN ws |-> heap[ws[j]].others])]

\* max takes the greatest value under the cursors, the first of equals, until none
\* exceeds others or the result is full: then others takes the value that is left.
Most(ws) ==
  CHOOSE m \in {heap[ws[i]].others : i \in DOMAIN ws} :
    \A i \in DOMAIN ws : heap[ws[i]].others <= m
Under(ws, tab, i) == heap[ws[i]].eta[tab[i] + 1]
Open(ws, tab) ==
  {i \in DOMAIN ws : tab[i] < Len(heap[ws[i]].eta) /\ Under(ws, tab, i) > Most(ws)}
First(ws, tab) ==
  CHOOSE i \in Open(ws, tab) : \A j \in Open(ws, tab) :
    \/ Under(ws, tab, j) < Under(ws, tab, i)
    \/ Under(ws, tab, j) = Under(ws, tab, i) /\ i <= j
Taken(ws, r) ==
  LET first == First(ws, r.tab) IN
  IF r.full \/ Open(ws, r.tab) = {} THEN r
  ELSE IF MaxSize > 0 /\ Len(r.eta) >= MaxSize - 1
  THEN [tab |-> r.tab, eta |-> r.eta, others |-> Under(ws, r.tab, first), full |-> TRUE]
  ELSE [r EXCEPT !.eta = Append(@, Under(ws, r.tab, first)), !.tab[first] = @ + 1]
MaxOf(ws) ==
  LET rounds == TotalOf([i \in DOMAIN ws |-> Len(heap[ws[i]].eta)])
      take[n \in 0..rounds] ==
        IF n = 0 THEN [tab |-> [i \in DOMAIN ws |-> 0], eta |-> <<>>, others |-> Most(ws), full |-> FALSE]
        ELSE Taken(ws, take[n - 1])
  IN  [loop |-> Innermost(ws), eta |-> take[rounds].eta, others |-> take[rounds].others]

\* __idiv stops at a rest of d: the quotient of a multiple is one too small.
Idiv(n, d) == IF n = 0 THEN 0 ELSE (n - 1) \div d

Packs_Down(n, d) == n \div d
Packs(n, d) == IF n - d * Idiv(n, d) # 0 THEN Idiv(n, d) + 1 ELSE Idiv(n, d)

\* The sum of the values from the (first)th on, n of them.
Run_Listed(o, first, n) ==
  LET upto[i \in 0..n] ==
        IF i = 0 THEN 0
        ELSE upto[i - 1] + (IF first + i - 1 \in DOMAIN o.eta THEN o.eta[first + i - 1] ELSE 0)
  IN  upto[n]
Run(o, first, n) ==
  LET upto[i \in 0..n] == IF i = 0 THEN 0 ELSE upto[i - 1] + Elem(o, first + i - 1)
  IN  upto[n]

Iterated(o, loop, bound) ==
  IF bound <= 0 THEN [loop |-> LOOP_TOP, eta |-> <<>>, others |-> 0]
  ELSE IF loop = o.loop
  THEN [loop |-> LOOP_TOP, eta |-> <<>>, others |-> Run(o, 1, bound)]
  ELSE [loop |-> o.loop,
        eta |-> [i \in 1..Packs(Len(o.eta), bound) |-> Run(o, (i - 1) * bound + 1, bound)],
        others |-> o.others * bound]

Multiplied(o, coef) ==
  [loop |-> o.loop, eta |-> [i \in DOMAIN o.eta |-> o.eta[i] * coef], others |-> o.others * coef]

Pruned(o) ==
  IF MaxSize > 0 /\ Len(o.eta) >= MaxSize
  THEN [loop |-> o.loop, eta |-> SubSeq(o.eta, 1, MaxSize - 1), others |-> o.eta[MaxSize]]
  ELSE o

\* annot: the list is cut to limit values, or to what MaxSize leaves of it, in
\* which case what lies behind is still counted.
AnnotLimit(limit) == IF limit > MaxSize - 1 THEN MaxSize - 1 ELSE limit
Kept(o, loop, limit) ==
  \/ limit = -1
  \/ o.eta # <<>> /\ LoopInner(loop, o.loop) /\ AnnotLimit(limit) >= Len(o.eta)
OthersKept_Cut(o, limit) == 0
OthersKept(o, limit) ==
  IF limit = AnnotLimit(limit) THEN 0
  ELSE IF Len(o.eta) >= MaxSize THEN o.eta[MaxSize] ELSE o.others
Annotated(o, loop, limit) ==
  [loop |-> IF o.eta = <<>> \/ LoopInner(loop, o.loop) THEN loop ELSE o.loop,
   eta |-> [i \in 1..AnnotLimit(limit) |-> Elem(o, i)],
   others |-> OthersKept(o, limit)]

-----------------------------------------------------------------------------
(* The printed program                                                     *)

Init ==
  /\ MaxSize \in MaxSizes
  /\ formula \in Formulas
  /\ val \in Valuations
  /\ heap = val.aw
  /\ w = <<>>
  /\ status = "run"

\* The statement leaves a pointer to object o, which now is x.
Assign(o, x) ==
  /\ heap' = [p \in DOMAIN heap \cup {o} |-> IF p = o THEN x ELSE heap[p]]
  /\ w' = Append(w, o)
  /\ status' = IF pc = Len(formula) THEN "done" ELSE "run"
  /\ UNCHANGED <<MaxSize, formula, val>>

\* A compound literal, or a temporary, is an object of its own, numbered as its
\* statement is.
NewObject_Same == 1
NewObject == pc

FConst ==
  /\ Node.kind = "const"
  /\ Assign(NewObject, [loop |-> Node.loop, eta |-> Node.eta, others |-> Node.others])
FParam == Node.kind = "param" /\ Assign(Node.param, heap[Node.param])
FPlus ==
  /\ Node.kind = "plus"
  /\ \E i \in DOMAIN Ws : Widest(Ws, i) /\ Assign(Ws[i], SumOf(Ws, Ws[i]))
FUnion == Node.kind = "union" /\ Len(Ws) <= AltMax /\ Assign(NewObject, MaxOf(Ws))
FPower ==
  /\ Node.kind = "power"
  /\ Assign(Ws[1], Iterated(W1, Node.loop,
                            IF Node.param = None THEN Node.k ELSE val.bound[Node.param]))

Clamp(b) == IF b >= 0 THEN b ELSE 0
FPowerParam ==
  /\ Node.kind = "powerparam"
  /\ Assign(Ws[1], Iterated(W1, Node.loop, Clamp(val.form[Node.param])))

FBProduct ==
  /\ Node.kind = "bproduct"
  /\ IF Node.conds \subseteq val.holds
     THEN Assign(Ws[1], W1)
     ELSE Assign(NewObject, [loop |-> LOOP_TOP, eta |-> <<>>, others |-> 0])

FProduct == Node.kind = "product" /\ Assign(Ws[1], Multiplied(W1, Node.k))
Prune == Node.kind = "prune" /\ Assign(Ws[1], Pruned(W1))

FAnnot ==
  /\ Node.kind = "annot"
  /\ \/ Kept(W1, Node.loop, Node.k) /\ Assign(Ws[1], W1)
     \/ /\ ~Kept(W1, Node.loop, Node.k) /\ AnnotLimit(Node.k) >= 0
        /\ Assign(Ws[1], Annotated(W1, Node.loop, Node.k))

\* max has no more than AltMax cursors, annot reads eta[MaxSize - 1].
Fault ==
  /\ \/ Node.kind = "union" /\ Len(Ws) > AltMax
     \/ Node.kind = "annot" /\ ~Kept(W1, Node.loop, Node.k) /\ AnnotLimit(Node.k) < 0
  /\ status' = "fault"
  /\ UNCHANGED <<MaxSize, formula, val, heap, w>>

Next ==
  /\ status = "run"
  /\ \/ FConst \/ FParam \/ FPlus \/ FUnion \/ FPower \/ FPowerParam
     \/ FBProduct \/ FProduct \/ Prune \/ FAnnot \/ Fault

Spec == Init /\ [][Next]_vars

-----------------------------------------------------------------------------
\* The nodes whose result a later statement, or the caller, still reads.
Live == {n \in DOMAIN w : \A m \in DOMAIN w : \A i \in DOMAIN formula[m].kids :
                              formula[m].kids[i] # n}

\* No parameter occurs twice.
Linear(f) ==
  \A m, n \in DOMAIN f :
    f[m].kind = "param" /\ f[n].kind = "param" /\ f[m].param = f[n].param => m = n

(* Operations change their operands, and yet never a value that is still to be *)
(* read: the objects of results that are still needed are different ones, as   *)
(* long as no parameter occurs twice in the formula.                           *)
OneOwner == Linear(formula) => \A m, n \in Live : w[m] = w[n] => m = n
=============================================================================
