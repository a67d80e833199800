--------------------------- MODULE WcetIterations ---------------------------
(***************************************************************************)
(* What the algebra of abstract WCETs means.  An abstract WCET relative to *)
(* a loop stands for a piece of code in the body of that loop; k iterations *)
(* of the loop spend at most the sum of its first k values in that piece.  *)
(*                                                                         *)
(* A behaviour builds one abstract WCET by a series of operations, the way *)
(* simplify folds the constants of a formula, and computes next to it the  *)
(* time of k iterations, for every k up to a horizon, from the meaning of  *)
(* the operations on programs alone: both parts of a sequence run in each  *)
(* iteration, k iterations are shared out among the branches of an         *)
(* alternative in the worst way, an annotated part runs in so many         *)
(* iterations, an inner loop runs its body it times per iteration.         *)
(***************************************************************************)
EXTENDS AbstractWcet, FiniteSetsExt

CONSTANTS
  Operands,   \* abstract WCETs the operations are applied to
  Exits,      \* abstract WCETs of loop exits
  Factors,    \* factors of products
  Iterations, \* numbers of iterations of loops and in annotations
  Named,      \* loop identifiers
  Horizon,    \* iterations followed
  MaxOps      \* operations of a behaviour

(* Named are the loops around one place of a program: each two of them nest. *)
ASSUME NestAssumption ==
  /\ LTop \notin Named
  /\ \A x \in Operands \cup Exits : x.loop \in Named \cup {LTop}
  /\ \A l \in Named : <<l, l>> \notin Hier
  /\ \A l, o \in Named : l = o \/ <<l, o>> \in Hier \/ <<o, l>> \in Hier
  /\ \A l, o, p \in Named : <<l, o>> \in Hier /\ <<o, p>> \in Hier => <<l, p>> \in Hier

\* The assumption of the source on its multi-WCETs: the list decreases, and
\* last is not greater than any value in it.
Sorted(m) == \A i \in DOMAIN m.wl : Value(m, i) >= Value(m, i + 1)

ASSUME OperandAssumption ==
  /\ \A x \in Operands \cup Exits : x.m \in [wl : Seq(Nat), last : Nat] /\ Sorted(x.m)
  /\ Factors \subseteq Nat
  /\ Iterations \subseteq Nat
  /\ Horizon \in Nat

VARIABLES
  w,     \* the abstract WCET built
  time,  \* time[k]: the worst time of k iterations, as far as it is known
  inner, \* loops the operands are relative to, since the last loop was closed
  ops    \* operations made

vars == <<w, time, inner, ops>>

Known == Cardinality(DOMAIN time) - 1
\* The time of k iterations that spend one value of m each.
Time(m, k) ==
  LET spent[i \in 0..k] == IF i = 0 THEN 0 ELSE spent[i - 1] + Value(m, i)
  IN  spent[k]
LoopsOf(x) == {x.loop} \ {LTop}

Init ==
  /\ w \in Operands
  /\ time = [k \in 0..Horizon |-> Time(w.m, k)]
  /\ inner = LoopsOf(w)
  /\ ops = 0

Operation == ops < MaxOps /\ ops' = ops + 1

Sequence(x) ==
  /\ Operation
  /\ w' = Sum(w, x)
  /\ time' = [k \in DOMAIN time |-> time[k] + Time(x.m, k)]
  /\ inner' = inner \cup LoopsOf(x)

Alternative(x) ==
  /\ Operation
  /\ w' = Union(w, x)
  /\ time' = [k \in DOMAIN time |-> Max({time[i] + Time(x.m, k - i) : i \in 0..k})]
  /\ inner' = inner \cup LoopsOf(x)

Product(c) ==
  /\ Operation
  /\ w' = Prod(c, w)
  /\ time' = [k \in DOMAIN time |-> c * time[k]]
  /\ UNCHANGED inner

Annotate(l, it) ==
  /\ Operation
  /\ w' = Annot(w, l, it)
  /\ time' = [k \in DOMAIN time |-> time[IF k <= it THEN k ELSE it]]
  /\ inner' = inner \cup {l}

\* The loop the operands are relative to: it runs once per iteration of
\* whatever surrounds it.
CloseLoop(x, it) ==
  /\ Operation
  /\ w.loop \in Named /\ it <= Known
  /\ w' = Pow(w, x, w.loop, it)
  /\ time' = [k \in DOMAIN time |-> k * time[it] + Time(x.m, k)]
  /\ inner' = LoopsOf(x)

\* A loop inside of the one the operands are relative to.
InnerLoop(l, x, it) ==
  /\ Operation
  /\ \A o \in inner : <<l, o>> \in Hier
  /\ w' = Pow(w, x, l, it)
  /\ time' = [k \in {n \in DOMAIN time : n * it <= Known} |->
                time[k * it] + Time(x.m, k)]
  /\ inner' = inner \cup LoopsOf(x)

Next ==
  \/ \E x \in Operands : Sequence(x) \/ Alternative(x)
  \/ \E c \in Factors : Product(c)
  \/ \E l \in Named, it \in Iterations : Annotate(l, it)
  \/ \E x \in Exits, it \in Iterations :
       CloseLoop(x, it) \/ \E l \in Named : InnerLoop(l, x, it)

Spec == Init /\ [][Next]_vars

-----------------------------------------------------------------------------
(* However an abstract WCET was put together, k iterations of its loop spend *)
(* in it exactly the sum of its first k values: what pow, and through it the *)
(* WCET of every loop, is computed from.                                     *)
IterationTimes == \A k \in DOMAIN time : Time(w.m, k) = time[k]

(* The assumption the operations make of their operands, kept by all of them: *)
(* the list is decreasing and last is not greater than any value in it.       *)
Decreasing == Sorted(w.m)

(* An abstract WCET is relative to the innermost of the loops of its parts,  *)
(* whatever the order they were combined in (Loops.glb is only a comparison  *)
(* of two loops, and is used for a greatest lower bound).                    *)
InnermostLoop ==
  /\ inner = {} <=> w.loop = LTop
  /\ \A l \in inner : l = w.loop \/ <<w.loop, l>> \in Hier

=============================================================================
