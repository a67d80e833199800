-------------------------- MODULE BranchConditions --------------------------
(***************************************************************************)
(* ConditionParser of CFTree.cpp: the conditions an external analysis      *)
(* found for the branches of a program are read from a file, grouped by    *)
(* the address of the branch, and put on the blocks the branches lead to.  *)
(*                                                                         *)
(* A function that is called several times is a CFG of its own for each    *)
(* call, while its instructions keep their addresses: the conditions of an *)
(* address form a queue, and each call is to find its own in front of it.  *)
(*                                                                         *)
(* A working list is a std::set of pointers: its order is that of the      *)
(* addresses the blocks were allocated at, and any order is possible.      *)
(***************************************************************************)
EXTENDS Integers, Sequences, FiniteSets, SequencesExt, FiniteSetsExt

CONSTANTS
  Programs,  \* sets of CFGs the analysis may be run on, see Program
  None       \* no condition, no CFG

\* A program: its outermost CFG, the entry of each CFG, edges, calls (to None when
\* OTAWA could not tell the callee), addresses of the control instructions,
\* loop headers, rows of the two files.  A row names the branch it is about.
BlocksOf(p) == UNION {{e.from, e.to} : e \in p.edges}
Rows(p) == [branch : DOMAIN p.addr, taken : BOOLEAN]
Program(p) ==
  /\ DOMAIN p = {"main", "entry", "edges", "callee", "addr", "headers", "rows", "bounds"}
  /\ p.main \in DOMAIN p.entry
  /\ \A c \in DOMAIN p.entry : p.entry[c] \in BlocksOf(p)
  /\ \A b \in DOMAIN p.callee : p.callee[b] \in DOMAIN p.entry \cup {None}
  /\ \A e \in p.edges : DOMAIN e = {"from", "to", "taken", "back"}
  /\ \A e, o \in p.edges : e.from = o.from /\ e.to = o.to => e = o
  /\ p.bounds \subseteq BlocksOf(p)
  /\ p.rows \in Seq(Rows(p))
  /\ \A k \in DOMAIN p.rows :
       /\ p.rows[k].branch \notin DOMAIN p.callee
       /\ Cardinality({e \in p.edges : e.from = p.rows[k].branch}) > 1

ASSUME ProgramsAssumption == \A p \in Programs : Program(p)

VARIABLES
  prog,     \* the program
  table,    \* conditionsMap: for each address a sequence of maps from taken
  stack,    \* activations of pushConditionsOnCFGs, the innermost first
  cond,     \* CONDITION of each block
  bounded,  \* blocks that were given a LOOP_BOUND
  status    \* "push", "done", or "error": exit(-1)

vars == <<prog, table, stack, cond, bounded, status>>

-----------------------------------------------------------------------------
(* filterCdts                                                              *)

With(map, row) ==
  [t \in DOMAIN map \cup {row.taken} |-> IF t = row.taken THEN row ELSE map[t]]

\* The last map of an address takes the row, unless it has one for this outcome.
Put(maps, row) ==
  IF maps # <<>> /\ row.taken \notin DOMAIN Last(maps)
  THEN [maps EXCEPT ![Len(maps)] = With(@, row)]
  ELSE Append(maps, With(<<>>, row))

MapsAt(ret, a) == IF a \in DOMAIN ret THEN ret[a] ELSE <<>>

\* The rows are put in one after the other: ret[k] is the table of the first k.
Filter(rows, addr) ==
  LET ret[k \in 0..Len(rows)] ==
        IF k = 0 THEN [a \in {} |-> <<>>]
        ELSE LET a == addr[rows[k].branch]
             IN  [x \in DOMAIN ret[k - 1] \cup {a} |->
                    IF x = a THEN Put(MapsAt(ret[k - 1], a), rows[k]) ELSE ret[k - 1][x]]
  IN  ret[Len(rows)]

-----------------------------------------------------------------------------
(* pushConditionsOnCFGs                                                    *)

Blocks == BlocksOf(prog)
Outs(b) == {e \in prog.edges : e.from = b}
Calls(b) == b \in DOMAIN prog.callee
Branches(b) == ~Calls(b) /\ Cardinality(Outs(b)) > 1

Frame(cfg) == [now |-> {prog.entry[cfg]}, next |-> {}, seen |-> {}]
Top == Head(stack)

\* The successors of b for the next round; seen holds the branches met so far.
Follow_All(b, seen) == {e.to : e \in Outs(b)}
Follow_Headers(b, seen) == {e.to : e \in Outs(b)} \ prog.headers
Follow(b, seen) == {e.to : e \in Outs(b)} \ seen

\* The frame once b has been dealt with.
Leave_SeenAll(b) ==
  [now |-> Top.now \ {b}, next |-> Top.next \cup Follow(b, Top.seen), seen |-> Top.seen \cup {b}]
Leave(b) ==
  LET seen == IF Branches(b) THEN Top.seen \cup {b} ELSE Top.seen
  IN  [now |-> Top.now \ {b}, next |-> Top.next \cup Follow(b, seen), seen |-> seen]

Queue(b) == IF b \in DOMAIN prog.addr THEN MapsAt(table, prog.addr[b]) ELSE <<>>

\* CONDITION of every block once b, with the conditions of map, is dealt with.
Attached(b, map) ==
  [s \in Blocks |->
     IF b \notin prog.headers
        /\ \E e \in Outs(b) : e.to = s /\ ~e.back /\ e.taken \in DOMAIN map
     THEN map[(CHOOSE e \in Outs(b) : e.to = s).taken]
     ELSE cond[s]]

Used_Kept(queue) == queue
Used(queue) == Tail(queue)

Init ==
  /\ prog \in Programs
  /\ table = Filter(prog.rows, prog.addr)
  /\ stack = <<Frame(prog.main)>>
  /\ cond = [b \in Blocks |-> None]
  /\ bounded = {}
  /\ status = "push"

Bounded(b) == bounded' = bounded \cup ({b} \cap prog.bounds)

Branch(b) ==
  /\ b \in Top.now /\ Branches(b)
  /\ IF Queue(b) = <<>> THEN UNCHANGED <<cond, table>>
     ELSE /\ cond' = Attached(b, Head(Queue(b)))
          /\ table' = [table EXCEPT ![prog.addr[b]] = Used(@)]
  /\ stack' = <<Leave(b)>> \o Tail(stack)
  /\ Bounded(b)
  /\ UNCHANGED <<prog, status>>

\* The callee is dealt with before the successors of the call.
Call(b) ==
  /\ b \in Top.now /\ Calls(b)
  /\ prog.callee[b] # None
  /\ stack' = <<Frame(prog.callee[b]), Leave(b)>> \o Tail(stack)
  /\ Bounded(b)
  /\ UNCHANGED <<prog, cond, table, status>>

NullCallee(b) ==
  /\ b \in Top.now /\ Calls(b)
  /\ prog.callee[b] = None
  /\ status' = "error"
  /\ Bounded(b)
  /\ UNCHANGED <<prog, cond, table, stack>>

Pass(b) ==
  /\ b \in Top.now /\ ~Branches(b) /\ ~Calls(b)
  /\ stack' = <<Leave(b)>> \o Tail(stack)
  /\ Bounded(b)
  /\ UNCHANGED <<prog, cond, table, status>>

\* workingList = nextWL
Round ==
  /\ Top.now = {} /\ Top.next # {}
  /\ stack' = <<[Top EXCEPT !.now = Top.next, !.next = {}]>> \o Tail(stack)
  /\ UNCHANGED <<prog, cond, table, bounded, status>>

Return ==
  /\ Top.now = {} /\ Top.next = {}
  /\ stack' = Tail(stack)
  /\ status' = IF Len(stack) = 1 THEN "done" ELSE status
  /\ UNCHANGED <<prog, cond, table, bounded>>

Next ==
  /\ status = "push"
  /\ \/ \E b \in Top.now : Branch(b) \/ Call(b) \/ NullCallee(b) \/ Pass(b)
     \/ Round
     \/ Return

Spec == Init /\ [][Next]_vars
FairSpec == Spec /\ WF_vars(Next)

-----------------------------------------------------------------------------
(* Type invariant: of the queues, the working lists and the blocks' labels.  *)
TypeOK ==
  LET rows == {prog.rows[k] : k \in DOMAIN prog.rows} IN
  /\ \A a \in DOMAIN table : \A k \in DOMAIN table[a] :
       DOMAIN table[a][k] \subseteq BOOLEAN /\ Range(table[a][k]) \subseteq rows
  /\ \A d \in DOMAIN stack :
       /\ stack[d].now \cup stack[d].next \subseteq Blocks
       /\ \A b \in stack[d].seen : Branches(b)
  /\ cond \in [Blocks -> rows \cup {None}]
  /\ bounded \subseteq prog.bounds
  /\ status \in {"push", "done", "error"}
  /\ status = "done" <=> stack = <<>>

\* Blocks among which the flow of control stays, calls included.
Closed(p, set) ==
  /\ p.entry[p.main] \in set
  /\ \A e \in p.edges : e.from \in set => e.to \in set
  /\ \A b \in set \cap DOMAIN p.callee : p.callee[b] # None /\ p.entry[p.callee[b]] \in set

\* Every block is reached from the entry of main: OTAWA finds blocks that way.
Connected(p) == \A set \in SUBSET BlocksOf(p) : Closed(p, set) => set = BlocksOf(p)

\* No address is that of two branches: no function with branches has two calls.
OwnAddresses(p) ==
  /\ \A b, c \in DOMAIN p.addr : p.addr[b] = p.addr[c] => b = c
  /\ \A j, k \in DOMAIN p.rows : p.rows[j] = p.rows[k] => j = k

(* The working list reaches every block of every call, so that each loop gets *)
(* its bound: leaving out the branches met before cuts no path short.         *)
BoundsPushed == status = "done" => bounded = prog.bounds

(* Each block a branch leads to ends up with the condition of that very       *)
(* branch, of its own call of the function, whatever the order blocks are      *)
(* met in and however often: no condition goes to another call.               *)
OwnConditions ==
  status = "done" => \A e \in prog.edges :
    LET given == \E k \in DOMAIN prog.rows :
                   prog.rows[k] = [branch |-> e.from, taken |-> e.taken]
    IN
    /\ given /\ ~e.back /\ e.from \notin prog.headers
         /\ (\A o \in prog.edges : o.to = e.to => o = e)
       => cond[e.to] = [branch |-> e.from, taken |-> e.taken]
    /\ cond[e.to] # None =>
         \E o \in prog.edges :
           o.to = e.to /\ cond[e.to] = [branch |-> o.from, taken |-> o.taken]

(* Going through the blocks ends, loops and calls in loops included: any way  *)
(* round a loop leads through a branch, and a branch is not met for ever.     *)
PushEnds == <>(status # "push")

=============================================================================
