------------------------ MODULE MCBranchConditions ------------------------
(***************************************************************************)
(* Small programs for the model checker: a main function of some shape,    *)
(* some blocks of which call a function of some shape.  Block n of CFG c   *)
(* is 10 * c + n; block 0 is the entry, 9 the exit; CFG 0 is main.         *)
(***************************************************************************)
EXTENDS BranchConditions

E(from, to, taken) == [from |-> from, to |-> to, taken |-> taken, back |-> FALSE]
BackTo(from, to, taken) == [E(from, to, taken) EXCEPT !.back = TRUE]
Go(from, to) == E(from, to, FALSE)

Line == [edges |-> {Go(0, 1), Go(1, 2), Go(2, 9)}, headers |-> {}]
IfElse ==
  [edges |-> {Go(0, 1), E(1, 2, FALSE), E(1, 3, TRUE), Go(2, 4), Go(3, 4), Go(4, 5), Go(5, 9)},
   headers |-> {}]
IfThen == 
  [edges |-> {Go(0, 1), E(1, 2, FALSE), E(1, 4, TRUE), Go(2, 4), Go(4, 5), Go(5, 9)},
   headers |-> {}]
\* Two conditionals, the first of which leads right to the second.
IfThenIf ==
  [edges |-> {Go(0, 1), E(1, 2, FALSE), E(1, 3, TRUE), Go(2, 3),
              E(3, 4, FALSE), E(3, 5, TRUE), Go(4, 5), Go(5, 9)},
   headers |-> {}]
While ==
  [edges |-> {Go(0, 1), E(1, 2, FALSE), E(1, 4, TRUE), BackTo(2, 1, FALSE), Go(4, 9)},
   headers |-> {1}]
DoWhile ==
  [edges |-> {Go(0, 1), Go(1, 2), Go(2, 3), BackTo(3, 1, TRUE), E(3, 4, FALSE), Go(4, 9)},
   headers |-> {1}]
WhileBreak ==
  [edges |-> {Go(0, 1), E(1, 2, FALSE), E(1, 5, TRUE), E(2, 3, FALSE), E(2, 4, TRUE),
              BackTo(3, 1, FALSE), Go(4, 5), Go(5, 9)},
   headers |-> {1}]

Shapes == {Line, IfElse, IfThen, IfThenIf, While, DoWhile, WhileBreak}

At(c, b) == 10 * c + b
Place(c, e) == [e EXCEPT !.from = At(c, @), !.to = At(c, @)]
BranchesOf(shape) ==
  {e.from : e \in {o \in shape.edges : \E p \in shape.edges : p.from = o.from /\ p # o}}

\* The rows of one CFG, branch by branch.
RowsOf(c, shape) ==
  FlattenSeq([k \in 1..Cardinality(BranchesOf(shape)) |->
    LET b == SetToSortSeq(BranchesOf(shape), <)[k]
    IN  <<[branch |-> At(c, b), taken |-> TRUE], [branch |-> At(c, b), taken |-> FALSE]>>])

\* main, whose blocks calls[1], calls[2], ... call a function of the shape f.
Prog(main, calls, f) ==
  LET n == Len(calls) IN
  [main |-> 0,
   entry |-> [c \in 0..n |-> At(c, 0)],
   edges |-> main.edges \cup {Place(c, e) : c \in 1..n, e \in f.edges},
   callee |-> [b \in ToSet(calls) |-> CHOOSE c \in 1..n : calls[c] = b],
   addr |-> [b \in BranchesOf(main) \cup {At(c, x) : c \in 1..n, x \in BranchesOf(f)} |->
               IF b < 10 THEN b ELSE 100 + (b % 10)],
   headers |-> main.headers \cup {At(c, x) : c \in 1..n, x \in f.headers},
   rows |-> RowsOf(0, main) \o FlattenSeq([c \in 1..n |-> RowsOf(c, f)]),
   bounds |-> main.headers \cup {At(c, x) : c \in 1..n, x \in f.headers \cup {1}}]

Plain(shape) ==
  {b \in {e.to : e \in shape.edges} : b # 9 /\ b \notin BranchesOf(shape) \cup shape.headers}

\* One call anywhere, or two calls in a row of a function no branch of which is
\* reached over paths of different length: see MCMetTwice.
MCPrograms ==
  UNION {{Prog(main, <<b>>, f) : b \in Plain(main)} : main \in Shapes, f \in Shapes}
  \cup {Prog(Line, <<1, 2>>, f) : f \in Shapes \ {IfThenIf}}
  \cup {[Prog(IfElse, <<2>>, Line) EXCEPT !.callee[2] = None]}

\* Two calls in a row of a function with two conditionals in a row, and two calls
\* in a row behind a conditional.
MCMetTwice == {Prog(Line, <<1, 2>>, IfThenIf), Prog(IfThen, <<4, 5>>, IfElse)}

ASSUME MCConnected == \A p \in Programs : Connected(p)
=============================================================================
