----------------------------- MODULE PyCompiler -----------------------------
(***************************************************************************)
(* The Python route from a formula to C: simplify/to_py.ml prints the       *)
(* simplified formula as expressions of compiler/compiler.py, whose         *)
(* generate emits the C function eval, assignment by assignment.            *)
(*                                                                         *)
(* Statements are emitted in the order they run in, so generating and       *)
(* running them is one recursion over the expression: mem holds what the    *)
(* int variables of eval have been assigned so far.  A variable is a pair   *)
(* of a name and an index.  The name of an expression is its position (the  *)
(* source draws a number for each); that of a loop is its loop, <<0, l>>.   *)
(* A variable that was never assigned holds v.content, whatever that is.    *)
(***************************************************************************)
EXTENDS SimplifySoundness

LOOP_TOP == -1
LoopNumber(l) == IF l = LTop THEN LOOP_TOP ELSE l

\* f_to_py: what it has a case for, and loops bounded by a number.
Supported(g) == \A h \in Subformulas(g) :
  /\ h.kind \notin {"PROD", "PARAM", "ANNOT", "ERROR"}
  /\ h.kind = "POWER" => ~h.it.sym

\* An alternative splits its operands in the middle, down to pairs.
Half(fl) == IF Len(fl) = 1 THEN fl[1] ELSE FUnion(fl)
Halves(fl) ==
  LET middle == Len(fl) \div 2
  IN  IF Len(fl) = 1 THEN <<fl[1], BotF>>
      ELSE <<Half(SubSeq(fl, 1, middle)), Half(SubSeq(fl, middle + 1, Len(fl)))>>

\* The exit of a loop is not printed.
Children(g) ==
  CASE g.kind = "UNION" -> Halves(g.fl)
    [] g.kind \in {"POWER", "POWERPARAM"} -> <<g.body>>
    [] OTHER -> Parts(g)

-----------------------------------------------------------------------------
(* What the emitted code computes from the values of the children          *)

Total(vals) == FoldLeft(+, 0, vals)

SeqValues(children) ==
  [i \in 1..Max({Len(children[k]) : k \in DOMAIN children}) |->
     Total([k \in DOMAIN children |->
              children[k][IF i <= Len(children[k]) THEN i ELSE Len(children[k])]])]

\* Alt.helper: n values are left to assign, last was taken last.
RECURSIVE Helper(_, _, _, _)
Helper(big, small, last, n) ==
  IF big = <<>> \/ small = <<>> THEN [i \in 1..n |-> last]
  ELSE LET fromBig == big[1] > small[1]
           taken == IF fromBig THEN big[1] ELSE small[1]
       IN  <<taken>> \o Helper(IF fromBig THEN Tail(big) ELSE big,
                               IF fromBig THEN small ELSE Tail(small), taken, n - 1)
AltValues(left, right) == Helper(left, right, 0, Len(left) + Len(right) - 1)

\* A loop whose body is relative to it: nothing is assigned for a negative
\* bound, and if the body has one value, for a positive one.
OwnLoopValues(vals, bound) ==
  LET n == Len(vals)
      listed == Min({bound, n - 1})
  IN  CASE bound = 0 -> <<0>>
        [] bound > 0 /\ n > 1 -> <<Total(SubSeq(vals, 1, listed)) + vals[n] * (bound - listed)>>
        [] OTHER -> <<>>

\* Another loop: packs ("paquets") of as many values as the bound says.
PackValues_NoFill(vals, bound) ==
  LET n == Len(vals)
      i == Min({bound, n})
      pack(j) == Total(SubSeq(vals, j + 1, Min({j + i, n})))
                 + vals[n] * (bound - i)
  IN  CASE bound = 0 -> [k \in 1..n |-> 0]
        [] bound > 0 -> [k \in 1..n |-> IF (k - 1) * i < n THEN pack((k - 1) * i)
                                                            ELSE vals[n] * bound]
        [] OTHER -> <<>>
PackValues(vals, bound) ==
  LET n == Len(vals)
      i == Min({bound, n})
      pack(j) == Total(SubSeq(vals, j + 1, Min({j + i, n})))
                 + vals[n] * (Max({j + i - n, 0}) + bound - i)
  IN  CASE bound = 0 -> [k \in 1..n |-> 0]
        [] bound > 0 -> [k \in 1..n |-> IF (k - 1) * i < n THEN pack((k - 1) * i)
                                                            ELSE vals[n] * bound]
        [] OTHER -> <<>>

BoundValue(v, g) == IF g.kind = "POWER" THEN g.it.n ELSE Linear(v, g.terms)

-----------------------------------------------------------------------------
(* generate                                                                *)

Names(at, n) == [i \in 1..n |-> <<at, i>>]
Assign(mem, at, vals) == [x \in {<<at, i>> : i \in DOMAIN vals} |-> vals[x[2]]] @@ mem
Values(v, mem, names) ==
  [i \in DOMAIN names |-> IF names[i] \in DOMAIN mem THEN mem[names[i]] ELSE v.content]

\* g once its children, parts, have been generated and run: the loop and the
\* variables it returns, the memory.
Generated(loop, names, mem) == [loop |-> loop, names |-> names, mem |-> mem]
GenerateOwn(v, g, at, parts, mem) ==
  LET vals == [k \in DOMAIN parts |-> Values(v, mem, parts[k].names)]
      loop == Max({LOOP_TOP} \cup {parts[k].loop : k \in DOMAIN parts})
      fresh(l, new) == Generated(l, Names(at, Len(new)), Assign(mem, at, new))
      bound == BoundValue(v, g)
  IN  CASE g.kind = "CONST" -> fresh(LoopNumber(g.w.loop), Append(g.w.m.wl, g.w.m.last))
        [] g.kind = "PLUS" -> fresh(loop, SeqValues(vals))
        [] g.kind = "UNION" -> fresh(loop, AltValues(vals[1], vals[2]))
        [] g.kind = "BPROD" ->     \* the variables of the child are assigned again
             Generated(loop, parts[1].names,
                       IF AllHold(v, g.conj) THEN mem
                       ELSE [x \in Range(parts[1].names) |-> 0] @@ mem)
        [] g.kind \in {"POWER", "POWERPARAM"} /\ loop = g.l ->
             Generated(LOOP_TOP, Names(<<0, g.l>>, 1),
                       Assign(mem, <<0, g.l>>, OwnLoopValues(vals[1], bound)))
        [] g.kind \in {"POWER", "POWERPARAM"} /\ loop # g.l ->
             Generated(loop, Names(<<0, g.l>>, Len(vals[1])),
                       Assign(mem, <<0, g.l>>, PackValues(vals[1], bound)))

RECURSIVE Generate(_, _, _, _)
Generate(v, g, at, mem) ==
  LET ch == Children(g)
      upto[n \in 0..Len(ch)] ==
        IF n = 0 THEN [parts |-> <<>>, mem |-> mem]
        ELSE LET r == Generate(v, ch[n], Append(at, n), upto[n - 1].mem)
             IN  [parts |-> Append(upto[n - 1].parts, r), mem |-> r.mem]
  IN  GenerateOwn(v, g, at, upto[Len(ch)].parts, upto[Len(ch)].mem)

\* What eval returns for the arguments of v.
Returned(v, g) ==
  LET r == Generate(v, g, <<1>>, <<>>) IN Values(v, r.mem, r.names)[1]

-----------------------------------------------------------------------------
(* Properties                                                              *)

Loops(g) == {h \in Subformulas(g) : h.kind \in {"POWER", "POWERPARAM"}}
RECURSIVE LoopsInOrder(_)
LoopsInOrder(g) ==
  (IF g.kind \in {"POWER", "POWERPARAM"} THEN <<g.l>> ELSE <<>>)
  \o FlattenSeq([i \in DOMAIN Parts(g) |-> LoopsInOrder(Parts(g)[i])])

\* A loop whose body has one value, relative to that loop.
OwnSingle(h) ==
  LET body == Generate(CHOOSE v \in Valuations : TRUE, h.body, <<1>>, <<>>)
  IN  body.loop = h.l /\ Len(body.names) = 1

Wcet(v, g) == Value(Eval(v, g).m, 1)

(* eval returns "The WCET of the procedure depending on its arguments" (the   *)
(* comment generate prints over it), whatever unassigned variables hold: sums, *)
(* merged alternatives, packs and the largest loop number agree with the     *)
(* algebra.  Excepted are loops that occur twice, which share the variables  *)
(* named after the loop, loops of a body of one value relative to the loop,  *)
(* and negative bounds, for both of which a loop assigns nothing.            *)
ReturnsWcet ==
  Supported(simplified) /\ IsInjective(LoopsInOrder(simplified)) =>
    \A v \in Valuations :
      (\A h \in Loops(simplified) : BoundValue(v, h) >= 0 /\ (BoundValue(v, h) > 0 => ~OwnSingle(h)))
        => Returned(v, simplified) = Wcet(v, simplified)

=============================================================================
