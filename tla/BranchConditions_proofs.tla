---------------------- MODULE BranchConditions_proofs ----------------------
(***************************************************************************)
(* Proofs about BranchConditions: the types of the queues and of the       *)
(* working lists, that every bound is pushed, and that conditions go to    *)
(* their own branches as long as no two branches share an address.         *)
(***************************************************************************)
EXTENDS BranchConditions, Induction, SequenceTheorems

RowSet(p) == {p.rows[k] : k \in DOMAIN p.rows}
Maps(p) == UNION {[T -> RowSet(p)] : T \in SUBSET BOOLEAN}
Addresses(p) == {p.addr[b] : b \in DOMAIN p.addr}
Tables(p) == UNION {[X -> Seq(Maps(p))] : X \in SUBSET Addresses(p)}

-----------------------------------------------------------------------------
(* The table of filterCdts                                                 *)

\* The table once the k-th row is put in.
PutRow(p, t, k) ==
  LET a == p.addr[p.rows[k].branch]
  IN  [x \in DOMAIN t \cup {a} |-> IF x = a THEN Put(MapsAt(t, a), p.rows[k]) ELSE t[x]]

NoTable == [a \in {} |-> <<>>]

IsFilter(p, f) ==
  f = [k \in 0..Len(p.rows) |-> IF k = 0 THEN NoTable ELSE PutRow(p, f[k - 1], k)]

LEMMA RowTypes ==
  ASSUME NEW p, Program(p), NEW k \in 1..Len(p.rows)
  PROVE  /\ Len(p.rows) \in Nat
         /\ p.rows[k] \in RowSet(p)
         /\ p.rows[k].branch \in DOMAIN p.addr
         /\ p.rows[k].taken \in BOOLEAN
         /\ p.rows[k] = [branch |-> p.rows[k].branch, taken |-> p.rows[k].taken]
         /\ p.addr[p.rows[k].branch] \in Addresses(p)
<1>1. p.rows \in Seq(Rows(p))
  BY DEF Program
<1>2. Len(p.rows) \in Nat /\ DOMAIN p.rows = 1..Len(p.rows) /\ p.rows[k] \in Rows(p)
  BY <1>1
<1>3. /\ p.rows[k].branch \in DOMAIN p.addr
      /\ p.rows[k].taken \in BOOLEAN
      /\ p.rows[k] = [branch |-> p.rows[k].branch, taken |-> p.rows[k].taken]
  BY <1>2 DEF Rows
<1> QED
  BY <1>2, <1>3 DEF RowSet, Addresses

LEMMA NoMap == ASSUME NEW row PROVE With(<<>>, row) = [t \in {row.taken} |-> row]
<1>1. DOMAIN <<>> = {}
  OBVIOUS
<1>2. {} \cup {row.taken} = {row.taken}
  OBVIOUS
<1> QED
  BY <1>1, <1>2 DEF With

LEMMA MapType ==
  ASSUME NEW p, NEW row \in RowSet(p), row.taken \in BOOLEAN, NEW map \in Maps(p)
  PROVE  With(map, row) \in Maps(p)
<1>1. PICK T \in SUBSET BOOLEAN : map \in [T -> RowSet(p)]
  BY DEF Maps
<1>2. With(map, row) \in [T \cup {row.taken} -> RowSet(p)]
  BY <1>1 DEF With
<1> QED
  BY <1>2 DEF Maps

LEMMA NoMapType ==
  ASSUME NEW p, NEW row \in RowSet(p), row.taken \in BOOLEAN
  PROVE  With(<<>>, row) \in Maps(p)
<1>1. With(<<>>, row) \in [{row.taken} -> RowSet(p)]
  BY NoMap
<1> QED
  BY <1>1 DEF Maps

LEMMA PutType ==
  ASSUME NEW p, NEW row \in RowSet(p), row.taken \in BOOLEAN, NEW maps \in Seq(Maps(p))
  PROVE  Put(maps, row) \in Seq(Maps(p))
<1>1. CASE maps # <<>> /\ row.taken \notin DOMAIN Last(maps)
  <2>1. Len(maps) \in 1..Len(maps) /\ maps[Len(maps)] \in Maps(p)
    BY <1>1
  <2>2. With(maps[Len(maps)], row) \in Maps(p)
    BY <2>1, MapType
  <2>3. Put(maps, row) = [maps EXCEPT ![Len(maps)] = With(maps[Len(maps)], row)]
    BY <1>1, <2>1 DEF Put
  <2> QED
    BY <2>1, <2>2, <2>3
<1>2. CASE ~ (maps # <<>> /\ row.taken \notin DOMAIN Last(maps))
  <2>1. Put(maps, row) = Append(maps, With(<<>>, row))
    BY <1>2 DEF Put
  <2> QED
    BY <2>1, NoMapType
<1> QED
  BY <1>1, <1>2

LEMMA TableType ==
  ASSUME NEW p, NEW t
  PROVE  t \in Tables(p) <=>
           /\ t = [a \in DOMAIN t |-> t[a]]
           /\ DOMAIN t \subseteq Addresses(p)
           /\ \A a \in DOMAIN t : t[a] \in Seq(Maps(p))
<1>1. ASSUME t \in Tables(p)
      PROVE  /\ t = [a \in DOMAIN t |-> t[a]]
             /\ DOMAIN t \subseteq Addresses(p)
             /\ \A a \in DOMAIN t : t[a] \in Seq(Maps(p))
  <2>1. PICK X \in SUBSET Addresses(p) : t \in [X -> Seq(Maps(p))]
    BY <1>1 DEF Tables
  <2> QED
    BY <2>1
<1>2. ASSUME t = [a \in DOMAIN t |-> t[a]],
             DOMAIN t \subseteq Addresses(p),
             \A a \in DOMAIN t : t[a] \in Seq(Maps(p))
      PROVE  t \in Tables(p)
  <2>1. t \in [DOMAIN t -> Seq(Maps(p))]
    BY <1>2
  <2> QED
    BY <1>2, <2>1 DEF Tables
<1> QED
  BY <1>1, <1>2

LEMMA PutRowType ==
  ASSUME NEW p, Program(p), NEW t \in Tables(p), NEW k \in 1..Len(p.rows)
  PROVE  PutRow(p, t, k) \in Tables(p)
<1> DEFINE a == p.addr[p.rows[k].branch]
<1>1. a \in Addresses(p) /\ p.rows[k] \in RowSet(p) /\ p.rows[k].taken \in BOOLEAN
  BY RowTypes
<1>2. DOMAIN t \subseteq Addresses(p) /\ \A x \in DOMAIN t : t[x] \in Seq(Maps(p))
  BY TableType
<1>3. MapsAt(t, a) \in Seq(Maps(p))
  BY <1>2 DEF MapsAt
<1>4. Put(MapsAt(t, a), p.rows[k]) \in Seq(Maps(p))
  BY <1>1, <1>3, PutType
<1>5. PutRow(p, t, k) = [x \in DOMAIN t \cup {a} |->
                           IF x = a THEN Put(MapsAt(t, a), p.rows[k]) ELSE t[x]]
  BY DEF PutRow
<1> HIDE DEF a
<1>6. PutRow(p, t, k) \in [DOMAIN t \cup {a} -> Seq(Maps(p))]
  BY <1>2, <1>4, <1>5
<1> QED
  BY <1>1, <1>2, <1>6 DEF Tables

LEMMA FilterExists ==
  ASSUME NEW p, Program(p)
  PROVE  \E f : IsFilter(p, f)
<1> DEFINE D == 0..Len(p.rows)
           S == Tables(p)
           rank == [k \in D |-> k]
           base == [k \in D |-> NoTable]
           next == [k \in D \ {0} |-> k - 1]
           step == [q \in (D \ {0}) \X S |-> PutRow(p, q[2], q[1])]
<1>1. Len(p.rows) \in Nat
  BY DEF Program
<1>2. NoTable \in S
  <2>1. NoTable \in [{} -> Seq(Maps(p))]
    BY DEF NoTable
  <2> QED
    BY <2>1 DEF Tables
<1>3. \A k \in D \ {0}, t \in S : PutRow(p, t, k) \in S
  BY <1>1, PutRowType
<1>4. step \in [(D \ {0}) \X S -> S]
  BY <1>3
<1>5. rank \in [D -> Nat] /\ next \in [D \ {0} -> D] /\ base \in [D -> S]
      /\ \A k \in D \ {0} : rank[next[k]] < rank[k]
  BY <1>1, <1>2
<1>6. IsChain(D, S, rank, {0}, base, next, step)
  BY <1>4, <1>5 DEF IsChain
<1>7. PICK f \in [D -> S] : FollowsChain(f, D, {0}, base, next, step)
  <2> HIDE DEF D, S, rank, base, next, step
  <2> QED
    BY <1>6, ChainRecursion
<1>8. ASSUME NEW k \in D
      PROVE  f[k] = IF k = 0 THEN NoTable ELSE PutRow(p, f[k - 1], k)
  <2>1. CASE k = 0
    BY <1>7, <2>1 DEF FollowsChain
  <2>2. CASE k # 0
    <3>1. next[k] = k - 1 /\ k - 1 \in D
      BY <1>1, <2>2
    <3>2. f[k] = step[<<k, f[next[k]]>>]
      <4> HIDE DEF D, next, step, base
      <4> QED
        BY <1>7, <2>2 DEF FollowsChain
    <3>3. f[k] = step[<<k, f[k - 1]>>] /\ f[k - 1] \in S
      BY <1>7, <3>1, <3>2
    <3>4. <<k, f[k - 1]>> \in (D \ {0}) \X S
      BY <2>2, <3>3
    <3>5. step[<<k, f[k - 1]>>] = PutRow(p, f[k - 1], k)
      BY <3>4
    <3> QED
      BY <2>2, <3>3, <3>5
  <2> QED
    BY <2>1, <2>2
<1>9. IsFilter(p, f)
  BY <1>7, <1>8 DEF IsFilter
<1> QED
  BY <1>9

LEMMA FilterIs ==
  ASSUME NEW p, Program(p)
  PROVE  \E f : IsFilter(p, f) /\ Filter(p.rows, p.addr) = f[Len(p.rows)]
<1> DEFINE Made(f) == [k \in 0..Len(p.rows) |->
                         IF k = 0 THEN [a \in {} |-> <<>>]
                         ELSE LET a == p.addr[p.rows[k].branch]
                              IN  [x \in DOMAIN f[k - 1] \cup {a} |->
                                     IF x = a THEN Put(MapsAt(f[k - 1], a), p.rows[k])
                                     ELSE f[k - 1][x]]]
           g == CHOOSE f : f = Made(f)
<1>1. \A f : IsFilter(p, f) <=> f = Made(f)
  BY DEF IsFilter, PutRow, NoTable
<1>2. \E f : f = Made(f)
  <2> HIDE DEF Made
  <2> QED
    BY <1>1, FilterExists
<1>3. g = Made(g)
  <2> HIDE DEF Made
  <2> QED
    BY <1>2
<1>4. Filter(p.rows, p.addr) = g[Len(p.rows)]
  BY DEF Filter
<1> HIDE DEF g, Made
<1> QED
  BY <1>1, <1>3, <1>4

LEMMA FilterTables ==
  ASSUME NEW p, Program(p), NEW f, IsFilter(p, f)
  PROVE  \A k \in 0..Len(p.rows) : f[k] \in Tables(p)
<1> DEFINE N == Len(p.rows)
           T == {k \in Nat : k \in 0..N => f[k] \in Tables(p)}
<1>0. N \in Nat
  BY DEF Program
<1>1. 0 \in T
  <2>1. NoTable \in [{} -> Seq(Maps(p))]
    BY DEF NoTable
  <2>2. NoTable \in Tables(p)
    BY <2>1 DEF Tables
  <2> QED
    BY <1>0, <2>2 DEF IsFilter
<1>2. ASSUME NEW k \in Nat, k \in T PROVE k + 1 \in T
  <2> SUFFICES ASSUME k + 1 \in 0..N PROVE f[k + 1] \in Tables(p)
    OBVIOUS
  <2>1. k \in 0..N /\ k + 1 \in 1..N /\ k + 1 # 0 /\ (k + 1) - 1 = k
    BY <1>0
  <2>2. f[k + 1] = PutRow(p, f[(k + 1) - 1], k + 1)
    BY <2>1 DEF IsFilter
  <2>3. f[k] \in Tables(p)
    BY <1>2, <2>1
  <2> QED
    BY <2>1, <2>2, <2>3, PutRowType
<1>3. Nat \subseteq T
  <2> HIDE DEF T
  <2> QED
    BY <1>1, <1>2, SetInduction
<1> QED
  BY <1>0, <1>3

LEMMA FilterType ==
  ASSUME NEW p, Program(p)
  PROVE  Filter(p.rows, p.addr) \in Tables(p)
<1>1. PICK f : IsFilter(p, f) /\ Filter(p.rows, p.addr) = f[Len(p.rows)]
  BY FilterIs
<1>2. Len(p.rows) \in 0..Len(p.rows)
  BY DEF Program
<1> QED
  BY <1>1, <1>2, FilterTables

-----------------------------------------------------------------------------
(* Types                                                                   *)

BranchBlocks(p) ==
  {b \in BlocksOf(p) : b \notin DOMAIN p.callee /\ Cardinality({e \in p.edges : e.from = b}) > 1}

Frames(p) == [now : SUBSET BlocksOf(p), next : SUBSET BlocksOf(p), seen : SUBSET BranchBlocks(p)]

TypeInv ==
  /\ Program(prog)
  /\ table \in Tables(prog)
  /\ stack \in Seq(Frames(prog))
  /\ cond \in [BlocksOf(prog) -> RowSet(prog) \cup {None}]
  /\ bounded \subseteq prog.bounds
  /\ status \in {"push", "done", "error"}
  /\ status = "done" <=> stack = <<>>

LEMMA TopType ==
  ASSUME TypeInv, status = "push"
  PROVE  /\ stack # <<>>
         /\ Top \in Frames(prog)
         /\ Tail(stack) \in Seq(Frames(prog))
         /\ Len(stack) \in Nat \ {0}
         /\ stack[1] = Top
BY DEF TypeInv, Top

LEMMA SeqCons ==
  ASSUME NEW S, NEW x \in S, NEW s \in Seq(S)
  PROVE  <<x>> \o s \in Seq(S) /\ <<x>> \o s # <<>>
OBVIOUS

LEMMA LastFrame ==
  ASSUME NEW S, NEW s \in Seq(S), s # <<>>
  PROVE  Len(s) = 1 <=> Tail(s) = <<>>
<1>1. Len(s) \in Nat \ {0} /\ Tail(s) \in Seq(S) /\ Len(Tail(s)) = Len(s) - 1
  OBVIOUS
<1>2. Tail(s) = <<>> <=> Len(Tail(s)) = 0
  BY <1>1, EmptySeq
<1> QED
  BY <1>1, <1>2

LEMMA LeaveType ==
  ASSUME TypeInv, status = "push", NEW b \in Top.now
  PROVE  Leave(b) \in Frames(prog) /\ b \in BlocksOf(prog)
<1>1. Top \in Frames(prog)
  BY TopType
<1>2. b \in BlocksOf(prog) /\ Top.seen \subseteq BranchBlocks(prog)
      /\ Top.now \subseteq BlocksOf(prog) /\ Top.next \subseteq BlocksOf(prog)
  BY <1>1 DEF Frames
<1>3. Branches(b) => b \in BranchBlocks(prog)
  BY <1>2 DEF BranchBlocks, Branches, Calls, Outs
<1>4. \A seen : Follow(b, seen) \subseteq BlocksOf(prog)
  BY DEF Follow, Outs, BlocksOf
<1> DEFINE seen == IF Branches(b) THEN Top.seen \cup {b} ELSE Top.seen
<1>5. seen \subseteq BranchBlocks(prog)
  BY <1>2, <1>3
<1>6. Leave(b) = [now |-> Top.now \ {b}, next |-> Top.next \cup Follow(b, seen), seen |-> seen]
  BY DEF Leave
<1> HIDE DEF seen
<1>7. Leave(b) \in Frames(prog)
  BY <1>2, <1>4, <1>5, <1>6 DEF Frames
<1> QED
  BY <1>2, <1>7

LEMMA FrameType ==
  ASSUME NEW p, Program(p), p = prog, NEW c \in DOMAIN p.entry
  PROVE  Frame(c) \in Frames(p)
<1>1. p.entry[c] \in BlocksOf(p)
  BY DEF Program
<1> QED
  BY <1>1 DEF Frame, Frames

LEMMA InitTypes == Init => TypeInv
<1> SUFFICES ASSUME Init PROVE TypeInv
  OBVIOUS
<1> USE DEF Init
<1>1. Program(prog)
  BY ProgramsAssumption
<1>2. table \in Tables(prog)
  BY <1>1, FilterType
<1>3. Frame(prog.main) \in Frames(prog)
  BY <1>1, FrameType DEF Program
<1>4. stack \in Seq(Frames(prog)) /\ stack # <<>>
  BY <1>3
<1>5. cond \in [BlocksOf(prog) -> RowSet(prog) \cup {None}]
  BY DEF Blocks
<1> QED
  BY <1>1, <1>2, <1>4, <1>5 DEF TypeInv

\* The condition a block is given is that of a row.
LEMMA AttachedType ==
  ASSUME TypeInv, NEW b, NEW map \in Maps(prog)
  PROVE  Attached(b, map) \in [BlocksOf(prog) -> RowSet(prog) \cup {None}]
<1>1. PICK T \in SUBSET BOOLEAN : map \in [T -> RowSet(prog)]
  BY DEF Maps
<1>2. ASSUME NEW s \in Blocks, NEW e \in Outs(b), e.to = s, e.taken \in DOMAIN map
      PROVE  map[(CHOOSE o \in Outs(b) : o.to = s).taken] \in RowSet(prog)
  <2> DEFINE o == CHOOSE o \in Outs(b) : o.to = s
  <2>1. o \in Outs(b) /\ o.to = s
    BY <1>2
  <2>2. o = e
    BY <1>2, <2>1 DEF Outs, TypeInv, Program
  <2> QED
    BY <1>1, <1>2, <2>2
<1>3. \A s \in Blocks : cond[s] \in RowSet(prog) \cup {None}
  BY DEF TypeInv, Blocks
<1> DEFINE given(s) == b \notin prog.headers
              /\ \E e \in Outs(b) : e.to = s /\ ~e.back /\ e.taken \in DOMAIN map
           new(s) == map[(CHOOSE o \in Outs(b) : o.to = s).taken]
<1>4. \A s \in Blocks : given(s) => new(s) \in RowSet(prog)
  BY <1>2
<1>5. Attached(b, map) = [s \in Blocks |-> IF given(s) THEN new(s) ELSE cond[s]]
  BY DEF Attached
<1> HIDE DEF given, new
<1> QED
  BY <1>3, <1>4, <1>5 DEF Blocks

LEMMA QueueType ==
  ASSUME TypeInv, NEW b
  PROVE  /\ Queue(b) \in Seq(Maps(prog))
         /\ Queue(b) # <<>> => /\ b \in DOMAIN prog.addr
                               /\ prog.addr[b] \in DOMAIN table
                               /\ Queue(b) = table[prog.addr[b]]
<1>1. \A a \in DOMAIN table : table[a] \in Seq(Maps(prog))
  BY TableType DEF TypeInv
<1> QED
  BY <1>1 DEF Queue, MapsAt

LEMMA StepTypes == TypeInv /\ [Next]_vars => TypeInv'
<1> SUFFICES ASSUME TypeInv, [Next]_vars PROVE TypeInv'
  OBVIOUS
<1>1. CASE UNCHANGED vars
  BY <1>1 DEF TypeInv, vars
<1>2. CASE Next
  <2>1. status = "push" /\ stack # <<>> /\ Top \in Frames(prog) /\ Tail(stack) \in Seq(Frames(prog))
    BY <1>2, TopType DEF Next
  <2>2. ASSUME NEW b \in Top.now, Branch(b) PROVE TypeInv'
    <3>1. prog' = prog /\ status' = status /\ stack' = <<Leave(b)>> \o Tail(stack)
      BY <2>2 DEF Branch
    <3>2. stack' \in Seq(Frames(prog)) /\ stack' # <<>>
      BY <2>1, <3>1, LeaveType, SeqCons
    <3>3. bounded' \subseteq prog.bounds
      BY <2>2 DEF Branch, Bounded, TypeInv
    <3>4. CASE Queue(b) = <<>>
      BY <2>1, <2>2, <3>1, <3>2, <3>3, <3>4 DEF Branch, TypeInv
    <3>5. CASE Queue(b) # <<>>
      <4> DEFINE a == prog.addr[b]
      <4>1. a \in DOMAIN table /\ table[a] # <<>> /\ Queue(b) = table[a]
        BY <3>5, QueueType
      <4>2. table[a] \in Seq(Maps(prog)) /\ Head(table[a]) \in Maps(prog)
            /\ Tail(table[a]) \in Seq(Maps(prog))
        BY <4>1, TableType DEF TypeInv
      <4>3. cond' \in [BlocksOf(prog) -> RowSet(prog) \cup {None}]
        BY <2>2, <3>5, <4>1, <4>2, AttachedType DEF Branch
      <4>4. table' = [table EXCEPT ![a] = Tail(table[a])]
        BY <2>2, <3>5 DEF Branch, Used
      <4>5. DOMAIN table \subseteq Addresses(prog) /\ table \in [DOMAIN table -> Seq(Maps(prog))]
        BY TableType DEF TypeInv
      <4> HIDE DEF a
      <4>6. table' \in [DOMAIN table -> Seq(Maps(prog))]
        BY <4>2, <4>4, <4>5
      <4>7. table' \in Tables(prog)
        BY <4>5, <4>6 DEF Tables
      <4> QED
        BY <2>1, <3>1, <3>2, <3>3, <4>3, <4>7 DEF TypeInv
    <3> QED
      BY <3>4, <3>5
  <2>3. ASSUME NEW b \in Top.now, Call(b) PROVE TypeInv'
    <3>1. /\ prog' = prog /\ status' = status /\ table' = table /\ cond' = cond
          /\ stack' = <<Frame(prog.callee[b]), Leave(b)>> \o Tail(stack)
      BY <2>3 DEF Call
    <3>2. Frame(prog.callee[b]) \in Frames(prog)
      <4>1. prog.callee[b] \in DOMAIN prog.entry
        BY <2>3 DEF Call, Calls, TypeInv, Program
      <4> QED
        BY <4>1, FrameType DEF TypeInv
    <3>3. Leave(b) \in Frames(prog)
      BY <2>1, LeaveType
    <3>4. stack' \in Seq(Frames(prog)) /\ stack' # <<>>
      BY <2>1, <3>1, <3>2, <3>3
    <3>5. bounded' \subseteq prog.bounds
      BY <2>3 DEF Call, Bounded, TypeInv
    <3> QED
      BY <2>1, <3>1, <3>4, <3>5 DEF TypeInv
  <2>4. ASSUME NEW b \in Top.now, NullCallee(b) PROVE TypeInv'
    BY <2>1, <2>4 DEF NullCallee, TypeInv, Bounded
  <2>5. ASSUME NEW b \in Top.now, Pass(b) PROVE TypeInv'
    <3>1. /\ prog' = prog /\ status' = status /\ table' = table /\ cond' = cond
          /\ stack' = <<Leave(b)>> \o Tail(stack)
      BY <2>5 DEF Pass
    <3>2. stack' \in Seq(Frames(prog)) /\ stack' # <<>>
      BY <2>1, <3>1, LeaveType, SeqCons
    <3> QED
      BY <2>1, <2>5, <3>1, <3>2 DEF Pass, Bounded, TypeInv
  <2>6. ASSUME Round PROVE TypeInv'
    <3>1. [Top EXCEPT !.now = Top.next, !.next = {}] \in Frames(prog)
      BY <2>1 DEF Frames
    <3>2. /\ prog' = prog /\ status' = status /\ table' = table /\ cond' = cond
          /\ stack' \in Seq(Frames(prog)) /\ stack' # <<>> /\ bounded' = bounded
      BY <2>1, <2>6, <3>1, SeqCons DEF Round
    <3> QED
      BY <2>1, <3>2 DEF TypeInv
  <2>7. ASSUME Return PROVE TypeInv'
    <3>1. Len(stack) = 1 <=> Tail(stack) = <<>>
      BY <2>1, LastFrame DEF TypeInv
    <3> QED
      BY <2>1, <2>7, <3>1 DEF Return, TypeInv
  <2> QED
    BY <1>2, <2>2, <2>3, <2>4, <2>5, <2>6, <2>7 DEF Next
<1> QED
  BY <1>1, <1>2

\* The queues, working lists and labels of pushConditionsOnCFGs keep their types.
THEOREM Types == Spec => []TypeOK
<1>1. Spec => []TypeInv
  BY InitTypes, StepTypes, PTL DEF Spec
<1>2. TypeInv => TypeOK
  <2> SUFFICES ASSUME TypeInv PROVE TypeOK
    OBVIOUS
  <2>1. ASSUME NEW a \in DOMAIN table, NEW k \in DOMAIN table[a]
        PROVE  DOMAIN table[a][k] \subseteq BOOLEAN /\ Range(table[a][k]) \subseteq RowSet(prog)
    <3>1. table[a] \in Seq(Maps(prog))
      BY TableType DEF TypeInv
    <3>2. table[a][k] \in Maps(prog)
      BY <3>1
    <3> QED
      BY <3>2 DEF Maps, Range
  <2>2. ASSUME NEW d \in DOMAIN stack
        PROVE  /\ stack[d].now \cup stack[d].next \subseteq Blocks
               /\ \A b \in stack[d].seen : Branches(b)
    <3>1. stack[d] \in Frames(prog)
      BY DEF TypeInv
    <3> QED
      BY <3>1 DEF Frames, Blocks, BranchBlocks, Branches, Calls, Outs
  <2> QED
    BY <2>1, <2>2 DEF TypeOK, TypeInv, RowSet, Blocks
<1> QED
  BY <1>1, <1>2, PTL

-----------------------------------------------------------------------------
(* Blocks dealt with                                                       *)

\* What the activations in s still have to deal with, and the branches they met.
Pending(s) == UNION {s[d].now \cup s[d].next : d \in DOMAIN s}
Met(s) == UNION {s[d].seen : d \in DOMAIN s}

\* V are blocks dealt with, pend those to come: no way out of V leads past pend.
Covers(p, V, bnd, pend, met) ==
  /\ V \subseteq BlocksOf(p)
  /\ bnd = V \cap p.bounds
  /\ met \subseteq V
  /\ p.entry[p.main] \in V \cup pend
  /\ \A e \in p.edges : e.from \in V => e.to \in V \cup pend
  /\ \A b \in V \cap DOMAIN p.callee :
       p.callee[b] # None /\ p.entry[p.callee[b]] \in V \cup pend

IsCons(S, t, x, s) == x \in S /\ s \in Seq(S) /\ t = <<x>> \o s

LEMMA ConsParts ==
  ASSUME NEW S, NEW t, NEW x, NEW s, IsCons(S, t, x, s)
  PROVE  /\ Pending(t) = x.now \cup x.next \cup Pending(s)
         /\ Met(t) = x.seen \cup Met(s)
<1> USE DEF IsCons
<1>1. /\ Len(s) \in Nat /\ DOMAIN s = 1..Len(s)
      /\ DOMAIN t = 1..(Len(s) + 1)
      /\ t[1] = x
      /\ \A d \in 1..Len(s) : t[d + 1] = s[d]
  OBVIOUS
<1>2. \A d \in DOMAIN t : d = 1 \/ (d - 1 \in DOMAIN s /\ t[d] = s[d - 1])
  <2> TAKE d \in DOMAIN t
  <2>1. CASE d # 1
    <3>1. d - 1 \in 1..Len(s) /\ (d - 1) + 1 = d
      BY <1>1, <2>1
    <3>2. t[(d - 1) + 1] = s[d - 1]
      BY <1>1, <3>1
    <3> QED
      BY <1>1, <3>1, <3>2
  <2> QED
    BY <2>1
<1>3. \A d \in DOMAIN s : d + 1 \in DOMAIN t /\ t[d + 1] = s[d]
  BY <1>1
<1>4. 1 \in DOMAIN t
  BY <1>1
<1>5. Pending(t) = x.now \cup x.next \cup Pending(s)
  <2>1. ASSUME NEW b \in Pending(t) PROVE b \in x.now \cup x.next \cup Pending(s)
    BY <1>1, <1>2 DEF Pending
  <2>2. ASSUME NEW b \in Pending(s) PROVE b \in Pending(t)
    BY <1>3 DEF Pending
  <2>3. x.now \cup x.next \subseteq Pending(t)
    BY <1>1, <1>4 DEF Pending
  <2> QED
    BY <2>1, <2>2, <2>3
<1>6. Met(t) = x.seen \cup Met(s)
  <2>1. ASSUME NEW b \in Met(t) PROVE b \in x.seen \cup Met(s)
    BY <1>1, <1>2 DEF Met
  <2>2. ASSUME NEW b \in Met(s) PROVE b \in Met(t)
    BY <1>3 DEF Met
  <2>3. x.seen \subseteq Met(t)
    BY <1>1, <1>4 DEF Met
  <2> QED
    BY <2>1, <2>2, <2>3
<1> QED
  BY <1>5, <1>6

LEMMA StackParts ==
  ASSUME TypeInv, status = "push"
  PROVE  /\ IsCons(Frames(prog), stack, Top, Tail(stack))
         /\ Pending(stack) = Top.now \cup Top.next \cup Pending(Tail(stack))
         /\ Met(stack) = Top.seen \cup Met(Tail(stack))
<1>1. IsCons(Frames(prog), stack, Top, Tail(stack))
  BY TopType DEF TypeInv, Top, IsCons
<1> QED
  BY <1>1, ConsParts

LEMMA NoParts == Pending(<<>>) = {} /\ Met(<<>>) = {}
BY DEF Pending, Met

\* b is dealt with: pend2 and met2 are what is pending and met afterwards.
MovesOn(p, V, b, pend, met, pend2, met2) ==
  /\ b \in BlocksOf(p)
  /\ pend \subseteq pend2 \cup {b}
  /\ met2 \subseteq met \cup {b}
  /\ \A e \in p.edges : e.from = b => e.to \in V \cup {b} \cup pend2
  /\ b \in DOMAIN p.callee => p.callee[b] # None /\ p.entry[p.callee[b]] \in pend2

LEMMA BlockCovered ==
  ASSUME NEW p, NEW V, NEW bnd, NEW pend, NEW met, NEW b, NEW pend2, NEW met2,
         Covers(p, V, bnd, pend, met), MovesOn(p, V, b, pend, met, pend2, met2)
  PROVE  Covers(p, V \cup {b}, bnd \cup ({b} \cap p.bounds), pend2, met2)
BY DEF Covers, MovesOn

LEMMA LeaveParts ==
  ASSUME TypeInv, NEW b \in Top.now
  PROVE  /\ Top.now \cup Top.next \subseteq Leave(b).now \cup Leave(b).next \cup {b}
         /\ Leave(b).seen \subseteq Top.seen \cup {b}
         /\ \A e \in prog.edges :
              e.from = b => e.to \in Leave(b).next \cup Top.seen \cup {b}
<1> DEFINE seen == IF Branches(b) THEN Top.seen \cup {b} ELSE Top.seen
<1>1. seen \subseteq Top.seen \cup {b}
  OBVIOUS
<1>2. Leave(b) = [now |-> Top.now \ {b}, next |-> Top.next \cup Follow(b, seen), seen |-> seen]
  BY DEF Leave
<1> HIDE DEF seen
<1>3. \A e \in prog.edges : e.from = b => e.to \in Follow(b, seen) \cup seen
  BY DEF Follow, Outs
<1> QED
  BY <1>1, <1>2, <1>3

-----------------------------------------------------------------------------
(* Conditions, when no two branches share an address                       *)

\* All the rows of a branch.
FullMap(p, b) ==
  [t \in {p.rows[k].taken : k \in {j \in DOMAIN p.rows : p.rows[j].branch = b}} |->
     [branch |-> b, taken |-> t]]

\* The blocks b leads to have its conditions.
Served(b) ==
  \A e \in prog.edges :
    /\ e.from = b /\ ~e.back /\ b \notin prog.headers
    /\ e.taken \in DOMAIN FullMap(prog, b)
    /\ \A o \in prog.edges : o.to = e.to => o = e
    => cond[e.to] = [branch |-> b, taken |-> e.taken]

\* The queue of a branch has all its rows until it is dealt with, and none then.
Queued(V, b) ==
  \/ table[prog.addr[b]] = <<FullMap(prog, b)>> /\ b \notin V
  \/ table[prog.addr[b]] = <<>> /\ Served(b)

CondsPlaced ==
  \A s \in BlocksOf(prog) : cond[s] # None =>
    \E o \in prog.edges : o.to = s /\ cond[s] = [branch |-> o.from, taken |-> o.taken]

RowBranches(p) == {p.rows[k].branch : k \in DOMAIN p.rows}

Owned(V) ==
  /\ DOMAIN table = {prog.addr[b] : b \in RowBranches(prog)}
  /\ \A b \in RowBranches(prog) : Queued(V, b)
  /\ CondsPlaced

LEMMA RowBranchTypes ==
  ASSUME TypeInv, NEW b \in RowBranches(prog)
  PROVE  b \in DOMAIN prog.addr /\ Branches(b)
<1>1. PICK k \in DOMAIN prog.rows : b = prog.rows[k].branch
  BY DEF RowBranches
<1>2. k \in 1..Len(prog.rows)
  BY <1>1 DEF TypeInv, Program
<1>3. b \in DOMAIN prog.addr
  BY <1>1, <1>2, RowTypes DEF TypeInv
<1> QED
  BY <1>1, <1>3 DEF TypeInv, Program, Branches, Calls, Outs

\* A block without rows disturbs nothing.
LEMMA OwnedWithout ==
  ASSUME TypeInv, NEW V, Owned(V), NEW b, b \notin RowBranches(prog) \/ Queue(b) = <<>>
  PROVE  Owned(V \cup {b})
<1>1. ASSUME NEW c \in RowBranches(prog) PROVE Queued(V \cup {b}, c)
  <2>1. Queued(V, c)
    BY DEF Owned
  <2>2. CASE c # b
    BY <2>1, <2>2 DEF Queued
  <2>3. CASE c = b
    <3>1. Queue(b) = <<>>
      BY <2>3
    <3>2. prog.addr[b] \in DOMAIN table /\ b \in DOMAIN prog.addr
      BY <2>3, RowBranchTypes DEF Owned
    <3>3. table[prog.addr[b]] = <<>>
      BY <3>1, <3>2 DEF Queue, MapsAt
    <3>4. <<FullMap(prog, b)>> # <<>>
      OBVIOUS
    <3> QED
      BY <2>1, <2>3, <3>3, <3>4 DEF Queued
  <2> QED
    BY <2>2, <2>3
<1> QED
  BY <1>1 DEF Owned

\* A branch that finds conditions in its queue finds its own, and uses them up.
LEMMA OwnedBranch ==
  ASSUME TypeInv, OwnAddresses(prog), NEW V, Owned(V), NEW b, Queue(b) # <<>>,
         prog' = prog,
         cond' = Attached(b, Head(Queue(b))),
         table' = [table EXCEPT ![prog.addr[b]] = Tail(@)]
  PROVE  Owned(V \cup {b})'
<1>1. b \in DOMAIN prog.addr /\ prog.addr[b] \in DOMAIN table /\ Queue(b) = table[prog.addr[b]]
  BY QueueType
<1>2. b \in RowBranches(prog)
  <2>1. PICK c \in RowBranches(prog) : prog.addr[b] = prog.addr[c]
    BY <1>1 DEF Owned
  <2> QED
    BY <1>1, <2>1, RowBranchTypes DEF OwnAddresses
<1> DEFINE map == FullMap(prog, b)
<1>3. Queue(b) = <<map>>
  BY <1>1, <1>2 DEF Owned, Queued
<1>4. DOMAIN table' = DOMAIN table
      /\ table'[prog.addr[b]] = <<>>
      /\ \A a \in DOMAIN table : a # prog.addr[b] => table'[a] = table[a]
  <2>1. table \in [DOMAIN table -> Seq(Maps(prog))]
    BY TableType DEF TypeInv
  <2>2. Tail(<<map>>) = <<>>
    OBVIOUS
  <2>3. table[prog.addr[b]] = <<map>>
    BY <1>1, <1>3
  <2> HIDE DEF map
  <2> QED
    BY <1>1, <2>1, <2>2, <2>3
<1>5. Head(Queue(b)) = map
  <2> HIDE DEF map
  <2> QED
    BY <1>3
<1>6. cond' = Attached(b, map)
  BY <1>5
<1>7. ASSUME NEW e \in prog.edges, e.from = b
      PROVE  (CHOOSE o \in Outs(b) : o.to = e.to) = e
  BY <1>7 DEF Outs, TypeInv, Program
<1> DEFINE given(s) == b \notin prog.headers
              /\ \E e \in Outs(b) : e.to = s /\ ~e.back /\ e.taken \in DOMAIN map
<1>8. \A s \in BlocksOf(prog) : ~given(s) => cond'[s] = cond[s]
  BY <1>6 DEF Attached, Blocks
<1>9. ASSUME NEW s \in BlocksOf(prog), given(s)
      PROVE  \E e \in Outs(b) : /\ e.to = s /\ e.taken \in DOMAIN map
                                /\ cond'[s] = [branch |-> b, taken |-> e.taken]
  <2>1. PICK e \in Outs(b) : e.to = s /\ ~e.back /\ e.taken \in DOMAIN map
    BY <1>9
  <2>2. cond'[s] = map[(CHOOSE o \in Outs(b) : o.to = s).taken]
    BY <1>6, <1>9 DEF Attached, Blocks
  <2>3. cond'[s] = map[e.taken]
    BY <1>7, <2>1, <2>2 DEF Outs
  <2>4. map[e.taken] = [branch |-> b, taken |-> e.taken]
    BY <2>1 DEF FullMap
  <2> QED
    BY <2>1, <2>3, <2>4
<1>10. Served(b)'
  <2> SUFFICES ASSUME NEW e \in prog.edges, e.from = b, ~e.back, b \notin prog.headers,
                      e.taken \in DOMAIN map
               PROVE  cond'[e.to] = [branch |-> b, taken |-> e.taken]
    BY DEF Served
  <2>1. e \in Outs(b) /\ e.to \in BlocksOf(prog)
    BY DEF Outs, BlocksOf
  <2>2. given(e.to)
    BY <2>1
  <2> HIDE DEF given, map
  <2>3. PICK o \in Outs(b) : /\ o.to = e.to
                             /\ cond'[e.to] = [branch |-> b, taken |-> o.taken]
    BY <1>9, <2>1, <2>2
  <2>4. o = e
    BY <2>1, <2>3 DEF Outs, TypeInv, Program
  <2> QED
    BY <2>3, <2>4
<1>11. ASSUME NEW c \in RowBranches(prog), c # b, Served(c) PROVE Served(c)'
  <2> SUFFICES ASSUME NEW e \in prog.edges, e.from = c, ~e.back, c \notin prog.headers,
                      e.taken \in DOMAIN FullMap(prog, c),
                      \A o \in prog.edges : o.to = e.to => o = e
               PROVE  cond'[e.to] = [branch |-> c, taken |-> e.taken]
    BY DEF Served
  <2>1. ~given(e.to) /\ e.to \in BlocksOf(prog)
    BY <1>11 DEF Outs, BlocksOf
  <2>2. cond[e.to] = [branch |-> c, taken |-> e.taken]
    BY <1>11 DEF Served
  <2> HIDE DEF given
  <2> QED
    BY <1>8, <2>1, <2>2
<1>12. ASSUME NEW c \in RowBranches(prog) PROVE Queued(V \cup {b}, c)'
  <2>1. CASE c = b
    BY <1>4, <1>10, <2>1 DEF Queued
  <2>2. CASE c # b
    <3>1. prog.addr[c] # prog.addr[b] /\ prog.addr[c] \in DOMAIN table
      BY <1>1, <2>2, RowBranchTypes DEF OwnAddresses, Owned
    <3>2. table'[prog.addr[c]] = table[prog.addr[c]]
      BY <1>4, <3>1
    <3>3. Queued(V, c)
      BY DEF Owned
    <3> QED
      BY <1>11, <2>2, <3>2, <3>3 DEF Queued
  <2> QED
    BY <2>1, <2>2
<1>13. CondsPlaced'
  <2> SUFFICES ASSUME NEW s \in BlocksOf(prog), cond'[s] # None
               PROVE  \E o \in prog.edges :
                        o.to = s /\ cond'[s] = [branch |-> o.from, taken |-> o.taken]
    BY DEF CondsPlaced
  <2>1. CASE given(s)
    <3> HIDE DEF given, map
    <3>1. PICK e \in Outs(b) : e.to = s /\ cond'[s] = [branch |-> b, taken |-> e.taken]
      BY <1>9, <2>1
    <3> QED
      BY <3>1 DEF Outs
  <2>2. CASE ~given(s)
    <3> HIDE DEF given, map
    <3>1. cond'[s] = cond[s]
      BY <1>8, <2>2
    <3>2. CondsPlaced
      BY DEF Owned
    <3> QED
      BY <3>1, <3>2 DEF CondsPlaced
  <2> QED
    BY <2>1, <2>2
<1>14. DOMAIN table' = {prog'.addr[c] : c \in RowBranches(prog')}
  BY <1>4 DEF Owned
<1>15. \A c \in RowBranches(prog') : Queued(V \cup {b}, c)'
  BY <1>12
<1> QED
  BY <1>13, <1>14, <1>15 DEF Owned

-----------------------------------------------------------------------------
(* The table of a program no two branches of which share an address        *)

\* The first k rows of a branch.
MapUpTo(p, b, k) ==
  [t \in {p.rows[j].taken : j \in {i \in 1..k : p.rows[i].branch = b}} |->
     [branch |-> b, taken |-> t]]

OwnTable(p, t, k) ==
  /\ DOMAIN t = {p.addr[p.rows[j].branch] : j \in 1..k}
  /\ \A j \in 1..k : t[p.addr[p.rows[j].branch]] = <<MapUpTo(p, p.rows[j].branch, k)>>

LEMMA OwnTableStep ==
  ASSUME NEW p, Program(p), OwnAddresses(p), NEW t, NEW k \in Nat, k + 1 \in 1..Len(p.rows),
         OwnTable(p, t, k)
  PROVE  OwnTable(p, PutRow(p, t, k + 1), k + 1)
<1> DEFINE row == p.rows[k + 1]
           b == row.branch
           a == p.addr[b]
           t2 == PutRow(p, t, k + 1)
           m == MapUpTo(p, b, k)
<1>0. /\ Len(p.rows) \in Nat /\ DOMAIN p.rows = 1..Len(p.rows)
      /\ 1..(k + 1) = 1..k \cup {k + 1} /\ k + 1 \notin 1..k
      /\ \A j \in 1..(k + 1) : j \in 1..Len(p.rows)
  BY DEF Program
<1>1. \A j \in 1..(k + 1) : /\ p.rows[j].branch \in DOMAIN p.addr
                          /\ p.rows[j] = [branch |-> p.rows[j].branch, taken |-> p.rows[j].taken]
  BY <1>0, RowTypes
<1>9. ASSUME NEW j \in 1..k, p.addr[p.rows[j].branch] = a PROVE p.rows[j].branch = b
  <2>1. j \in 1..(k + 1) /\ k + 1 \in 1..(k + 1)
    BY <1>0
  <2>2. p.rows[j].branch \in DOMAIN p.addr /\ b \in DOMAIN p.addr
    BY <1>1, <2>1
  <2> HIDE DEF b
  <2> QED
    BY <1>9, <2>2 DEF OwnAddresses
<1>2. /\ DOMAIN t2 = DOMAIN t \cup {a}
      /\ t2[a] = Put(MapsAt(t, a), row)
      /\ \A x \in DOMAIN t : x # a => t2[x] = t[x]
  BY DEF PutRow
<1>3. \A j \in 1..k : row # p.rows[j]
  BY <1>0 DEF OwnAddresses
<1>4. MapUpTo(p, b, k + 1) = With(m, row)
  <2>1. {p.rows[j].taken : j \in {i \in 1..(k + 1) : p.rows[i].branch = b}}
          = {p.rows[j].taken : j \in {i \in 1..k : p.rows[i].branch = b}} \cup {row.taken}
    BY <1>0
  <2>2. row = [branch |-> b, taken |-> row.taken]
    BY <1>0, <1>1
  <2> QED
    BY <2>1, <2>2 DEF MapUpTo, With
<1>5. t2[a] = <<MapUpTo(p, b, k + 1)>>
  <2>1. CASE \E j \in 1..k : p.rows[j].branch = b
    <3>1. a \in DOMAIN t /\ t[a] = <<m>>
      BY <2>1 DEF OwnTable
    <3>2. row.taken \notin DOMAIN m
      <4> SUFFICES ASSUME row.taken \in DOMAIN m PROVE FALSE
        OBVIOUS
      <4>1. PICK j \in 1..k : p.rows[j].branch = b /\ p.rows[j].taken = row.taken
        BY DEF MapUpTo
      <4>2. p.rows[j] = row
        BY <1>0, <1>1, <4>1
      <4> QED
        BY <1>3, <4>2
    <3>3. MapsAt(t, a) = <<m>>
      BY <3>1 DEF MapsAt
    <3> HIDE DEF m, row
    <3>4. <<m>> # <<>> /\ Last(<<m>>) = m /\ Len(<<m>>) = 1
      BY DEF Last
    <3>5. Put(<<m>>, row) = [<<m>> EXCEPT ![1] = With(m, row)]
      BY <3>2, <3>4 DEF Put
    <3>6. [<<m>> EXCEPT ![1] = With(m, row)] = <<With(m, row)>>
      OBVIOUS
    <3> QED
      BY <1>2, <1>4, <3>3, <3>5, <3>6
  <2>2. CASE \A j \in 1..k : p.rows[j].branch # b
    <3>1. a \notin DOMAIN t
      BY <1>9, <2>2 DEF OwnTable
    <3>2. MapsAt(t, a) = <<>>
      BY <3>1 DEF MapsAt
    <3>3. Put(<<>>, row) = <<With(<<>>, row)>>
      BY DEF Put
    <3>4. With(<<>>, row) = With(m, row)
      <4>1. {i \in 1..k : p.rows[i].branch = b} = {}
        BY <2>2
      <4>2. DOMAIN m = {} /\ DOMAIN <<>> = {}
        BY <4>1 DEF MapUpTo
      <4> QED
        BY <4>2 DEF With
    <3> QED
      BY <1>2, <1>4, <3>2, <3>3, <3>4
  <2> QED
    BY <2>1, <2>2
<1>6. ASSUME NEW j \in 1..k, p.rows[j].branch # b
      PROVE  t2[p.addr[p.rows[j].branch]] = <<MapUpTo(p, p.rows[j].branch, k + 1)>>
  <2> DEFINE c == p.rows[j].branch
  <2>1. p.addr[c] # a
    BY <1>6, <1>9
  <2>2. p.addr[c] \in DOMAIN t /\ t[p.addr[c]] = <<MapUpTo(p, c, k)>>
    BY DEF OwnTable
  <2>3. {i \in 1..(k + 1) : p.rows[i].branch = c} = {i \in 1..k : p.rows[i].branch = c}
    BY <1>0, <1>6
  <2>4. MapUpTo(p, c, k + 1) = MapUpTo(p, c, k)
    BY <2>3 DEF MapUpTo
  <2> QED
    BY <1>2, <2>1, <2>2, <2>4
<1>7. \A j \in 1..(k + 1) : t2[p.addr[p.rows[j].branch]] = <<MapUpTo(p, p.rows[j].branch, k + 1)>>
  BY <1>0, <1>5, <1>6
<1>8. DOMAIN t2 = {p.addr[p.rows[j].branch] : j \in 1..(k + 1)}
  <2>1. DOMAIN t = {p.addr[p.rows[j].branch] : j \in 1..k}
    BY DEF OwnTable
  <2>2. {p.addr[p.rows[j].branch] : j \in 1..(k + 1)}
          = {p.addr[p.rows[j].branch] : j \in 1..k} \cup {a}
    BY <1>0
  <2> HIDE DEF t2, a
  <2> QED
    BY <1>2, <2>1, <2>2
<1> QED
  BY <1>7, <1>8 DEF OwnTable

LEMMA FilterOwn ==
  ASSUME NEW p, Program(p), OwnAddresses(p)
  PROVE  OwnTable(p, Filter(p.rows, p.addr), Len(p.rows))
<1>1. PICK f : IsFilter(p, f) /\ Filter(p.rows, p.addr) = f[Len(p.rows)]
  BY FilterIs
<1> DEFINE N == Len(p.rows)
           T == {k \in Nat : k \in 0..N => OwnTable(p, f[k], k)}
<1>0. N \in Nat
  BY DEF Program
<1>2. 0 \in T
  <2>1. f[0] = NoTable
    BY <1>0, <1>1 DEF IsFilter
  <2>2. OwnTable(p, f[0], 0)
    BY <2>1 DEF OwnTable, NoTable
  <2> QED
    BY <2>2
<1>3. ASSUME NEW k \in Nat, k \in T PROVE k + 1 \in T
  <2> SUFFICES ASSUME k + 1 \in 0..N PROVE OwnTable(p, f[k + 1], k + 1)
    OBVIOUS
  <2>1. k \in 0..N /\ k + 1 \in 1..N /\ k + 1 # 0 /\ (k + 1) - 1 = k
    BY <1>0
  <2>2. f[k + 1] = PutRow(p, f[(k + 1) - 1], k + 1)
    BY <1>1, <2>1 DEF IsFilter
  <2>3. OwnTable(p, f[k], k)
    BY <1>3, <2>1
  <2>4. f[(k + 1) - 1] = f[k]
    BY <2>1, Zenon
  <2> QED
    BY <2>1, <2>2, <2>3, <2>4, OwnTableStep
<1>4. Nat \subseteq T
  <2> HIDE DEF T
  <2> QED
    BY <1>2, <1>3, SetInduction
<1> QED
  BY <1>0, <1>1, <1>4

-----------------------------------------------------------------------------
(* The invariant: some blocks V were dealt with, and all that V leads to is *)
(* in V or still pending.                                                  *)

Dealt(V) ==
  /\ Covers(prog, V, bounded, Pending(stack), Met(stack))
  /\ OwnAddresses(prog) => Owned(V)

VisitInv == TypeInv /\ (status # "error" => \E V : Dealt(V))

LEMMA InitVisit == Init => VisitInv
<1> SUFFICES ASSUME Init PROVE VisitInv
  OBVIOUS
<1>1. TypeInv
  BY InitTypes
<1>2. Program(prog)
  BY <1>1 DEF TypeInv
<1>3. Covers(prog, {}, bounded, Pending(stack), Met(stack))
  <2>1. Frame(prog.main) \in Frames(prog)
    BY <1>2, FrameType DEF Program
  <2> DEFINE none == <<>>
  <2>2. IsCons(Frames(prog), stack, Frame(prog.main), none)
    BY <2>1 DEF Init, IsCons
  <2>5. Pending(none) = {} /\ Met(none) = {}
    BY NoParts
  <2> HIDE DEF none
  <2>3. /\ Pending(stack) = Frame(prog.main).now \cup Frame(prog.main).next \cup {}
        /\ Met(stack) = Frame(prog.main).seen \cup {}
    BY <2>2, <2>5, ConsParts
  <2>4. Pending(stack) = {prog.entry[prog.main]} /\ Met(stack) = {}
    BY <2>3 DEF Frame
  <2> QED
    BY <2>4 DEF Covers, Init
<1>4. ASSUME OwnAddresses(prog) PROVE Owned({})
  <2>1. OwnTable(prog, table, Len(prog.rows))
    BY <1>2, <1>4, FilterOwn DEF Init
  <2>2. DOMAIN prog.rows = 1..Len(prog.rows)
    BY <1>2 DEF Program
  <2>3. \A b : MapUpTo(prog, b, Len(prog.rows)) = FullMap(prog, b)
    BY <2>2 DEF MapUpTo, FullMap
  <2>4. \A b \in RowBranches(prog) : table[prog.addr[b]] = <<FullMap(prog, b)>>
    BY <2>1, <2>2, <2>3 DEF OwnTable, RowBranches
  <2>5. DOMAIN table = {prog.addr[b] : b \in RowBranches(prog)}
    BY <2>1, <2>2 DEF OwnTable, RowBranches
  <2>6. CondsPlaced
    BY DEF CondsPlaced, Init, Blocks
  <2> QED
    BY <2>4, <2>5, <2>6 DEF Owned, Queued
<1> QED
  BY <1>1, <1>3, <1>4 DEF VisitInv, Dealt

\* A step that deals with b and puts above on the stack.
Deals(V, b, above) ==
  /\ prog' = prog /\ Bounded(b)
  /\ b \in Top.now
  /\ Pending(stack') = above \cup Leave(b).now \cup Leave(b).next \cup Pending(Tail(stack))
  /\ Met(stack') = Leave(b).seen \cup Met(Tail(stack))
  /\ Calls(b) => prog.callee[b] # None /\ prog.entry[prog.callee[b]] \in above
  /\ OwnAddresses(prog) => Owned(V \cup {b})'

LEMMA DealWith ==
  ASSUME TypeInv, status = "push", NEW V, Dealt(V), NEW b, NEW above, Deals(V, b, above)
  PROVE  Dealt(V \cup {b})'
<1> USE DEF Deals
<1>1. b \in BlocksOf(prog)
  BY LeaveType
<1>3. /\ Pending(stack) = Top.now \cup Top.next \cup Pending(Tail(stack))
      /\ Met(stack) = Top.seen \cup Met(Tail(stack))
  BY StackParts
<1>4. /\ Top.now \cup Top.next \subseteq Leave(b).now \cup Leave(b).next \cup {b}
      /\ Leave(b).seen \subseteq Top.seen \cup {b}
      /\ \A e \in prog.edges : e.from = b => e.to \in Leave(b).next \cup Top.seen \cup {b}
  BY LeaveParts
<1>5. Covers(prog, V, bounded, Pending(stack), Met(stack))
  BY DEF Dealt
<1>6. /\ Pending(stack) \subseteq Pending(stack') \cup {b}
      /\ Met(stack') \subseteq Met(stack) \cup {b}
  BY <1>3, <1>4
<1>7. \A e \in prog.edges : e.from = b => e.to \in V \cup {b} \cup Pending(stack')
  <2>1. Top.seen \subseteq V
    BY <1>3, <1>5 DEF Covers
  <2> QED
    BY <1>4, <2>1
<1>8. b \in DOMAIN prog.callee => /\ prog.callee[b] # None
                                  /\ prog.entry[prog.callee[b]] \in Pending(stack')
  BY DEF Calls
<1>9. Covers(prog, V \cup {b}, bounded \cup ({b} \cap prog.bounds), Pending(stack'), Met(stack'))
  <2>1. MovesOn(prog, V, b, Pending(stack), Met(stack), Pending(stack'), Met(stack'))
    BY <1>1, <1>6, <1>7, <1>8 DEF MovesOn
  <2> QED
    BY <1>5, <2>1, BlockCovered
<1>10. bounded' = bounded \cup ({b} \cap prog.bounds)
  BY DEF Bounded
<1> QED
  BY <1>9, <1>10 DEF Dealt

\* The conditions are untouched by a step that leaves the table and the labels.
LEMMA OwnedUnchanged ==
  ASSUME NEW V, Owned(V), prog' = prog, table' = table, cond' = cond
  PROVE  Owned(V)'
BY DEF Owned, Queued, Served, CondsPlaced

LEMMA LeaveStack ==
  ASSUME TypeInv, status = "push", NEW b \in Top.now, stack' = <<Leave(b)>> \o Tail(stack)
  PROVE  /\ Pending(stack') = {} \cup Leave(b).now \cup Leave(b).next \cup Pending(Tail(stack))
         /\ Met(stack') = Leave(b).seen \cup Met(Tail(stack))
<1>1. IsCons(Frames(prog), stack', Leave(b), Tail(stack))
  BY TopType, LeaveType DEF IsCons
<1>2. /\ Pending(stack') = Leave(b).now \cup Leave(b).next \cup Pending(Tail(stack))
      /\ Met(stack') = Leave(b).seen \cup Met(Tail(stack))
  BY <1>1, ConsParts
<1> QED
  BY <1>2

LEMMA StepVisit == VisitInv /\ [Next]_vars => VisitInv'
<1> SUFFICES ASSUME VisitInv, [Next]_vars PROVE VisitInv'
  OBVIOUS
<1>0. TypeInv /\ TypeInv'
  BY StepTypes DEF VisitInv
<1>1. CASE UNCHANGED vars
  <2>1. \A V : Dealt(V) => Dealt(V)'
    BY <1>1 DEF vars, Dealt, Owned, Queued, Served, CondsPlaced
  <2> QED
    BY <1>0, <1>1, <2>1 DEF VisitInv, vars
<1>2. CASE Next
  <2>0. status = "push"
    BY <1>2 DEF Next
  <2>1. PICK V : Dealt(V)
    BY <2>0 DEF VisitInv
  <2>2. ASSUME NEW b \in Top.now, Branch(b) PROVE \E W : Dealt(W)'
    <3>1. prog' = prog /\ Bounded(b) /\ stack' = <<Leave(b)>> \o Tail(stack) /\ ~Calls(b)
      BY <2>2 DEF Branch, Branches
    <3>2. ASSUME OwnAddresses(prog) PROVE Owned(V \cup {b})'
      <4>1. Owned(V)
        BY <2>1, <3>2 DEF Dealt
      <4>2. CASE Queue(b) = <<>>
        <5>1. Owned(V \cup {b})
          BY <1>0, <4>1, <4>2, OwnedWithout
        <5>2. table' = table /\ cond' = cond
          BY <2>2, <4>2 DEF Branch
        <5> QED
          BY <3>1, <5>1, <5>2, OwnedUnchanged
      <4>3. CASE Queue(b) # <<>>
        <5>1. /\ cond' = Attached(b, Head(Queue(b)))
              /\ table' = [table EXCEPT ![prog.addr[b]] = Tail(@)]
          BY <2>2, <4>3 DEF Branch, Used
        <5> QED
          BY <1>0, <3>1, <3>2, <4>1, <4>3, <5>1, OwnedBranch
      <4> QED
        BY <4>2, <4>3
    <3>3. Deals(V, b, {})
      BY <1>0, <2>0, <3>1, <3>2, LeaveStack DEF Deals
    <3> QED
      BY <1>0, <2>0, <2>1, <3>3, DealWith
  <2>3. ASSUME NEW b \in Top.now, Call(b) PROVE \E W : Dealt(W)'
    <3> DEFINE c == prog.callee[b]
    <3>1. /\ prog' = prog /\ Bounded(b) /\ table' = table /\ cond' = cond
          /\ stack' = <<Frame(c), Leave(b)>> \o Tail(stack) /\ Calls(b) /\ c # None
      BY <2>3 DEF Call
    <3>2. ASSUME OwnAddresses(prog) PROVE Owned(V \cup {b})'
      <4>1. b \notin RowBranches(prog)
        BY <1>0, <3>1, RowBranchTypes DEF Branches
      <4>2. Owned(V \cup {b})
        BY <1>0, <2>1, <3>2, <4>1, OwnedWithout DEF Dealt
      <4> QED
        BY <3>1, <4>2, OwnedUnchanged
    <3>3. c \in DOMAIN prog.entry /\ Program(prog)
      BY <1>0, <3>1 DEF TypeInv, Program, Calls
    <3>4. /\ Frame(c) \in Frames(prog) /\ Leave(b) \in Frames(prog)
          /\ Tail(stack) \in Seq(Frames(prog))
      BY <1>0, <2>0, <3>3, FrameType, LeaveType, TopType
    <3> DEFINE below == <<Leave(b)>> \o Tail(stack)
    <3>5. IsCons(Frames(prog), below, Leave(b), Tail(stack))
      BY <3>4 DEF IsCons
    <3>6. IsCons(Frames(prog), stack', Frame(c), below)
      BY <3>1, <3>4 DEF IsCons
    <3> HIDE DEF below, c
    <3>7. /\ Pending(stack') = Frame(c).now \cup Frame(c).next \cup Pending(below)
          /\ Met(stack') = Frame(c).seen \cup Met(below)
      BY <3>6, ConsParts
    <3>8. /\ Pending(below) = Leave(b).now \cup Leave(b).next \cup Pending(Tail(stack))
          /\ Met(below) = Leave(b).seen \cup Met(Tail(stack))
      BY <3>5, ConsParts
    <3>9. Frame(c).now = {prog.entry[c]} /\ Frame(c).next = {} /\ Frame(c).seen = {}
      BY DEF Frame
    <3>10. Deals(V, b, {prog.entry[c]})
      BY <3>1, <3>2, <3>7, <3>8, <3>9 DEF Deals, c
    <3> QED
      BY <1>0, <2>0, <2>1, <3>10, DealWith
  <2>4. ASSUME NEW b \in Top.now, NullCallee(b) PROVE status' = "error"
    BY <2>4 DEF NullCallee
  <2>5. ASSUME NEW b \in Top.now, Pass(b) PROVE \E W : Dealt(W)'
    <3>1. /\ prog' = prog /\ Bounded(b) /\ table' = table /\ cond' = cond
          /\ stack' = <<Leave(b)>> \o Tail(stack) /\ ~Calls(b) /\ ~Branches(b)
      BY <2>5 DEF Pass
    <3>2. ASSUME OwnAddresses(prog) PROVE Owned(V \cup {b})'
      <4>1. b \notin RowBranches(prog)
        BY <1>0, <3>1, RowBranchTypes
      <4>2. Owned(V \cup {b})
        BY <1>0, <2>1, <3>2, <4>1, OwnedWithout DEF Dealt
      <4> QED
        BY <3>1, <4>2, OwnedUnchanged
    <3>3. Deals(V, b, {})
      BY <1>0, <2>0, <3>1, <3>2, LeaveStack DEF Deals
    <3> QED
      BY <1>0, <2>0, <2>1, <3>3, DealWith
  <2>6. ASSUME prog' = prog, table' = table, cond' = cond,
               bounded' = bounded, Pending(stack') = Pending(stack), Met(stack') \subseteq Met(stack)
        PROVE  Dealt(V)'
    <3>1. OwnAddresses(prog) => Owned(V)'
      BY <2>1, <2>6, OwnedUnchanged DEF Dealt
    <3> QED
      BY <2>1, <2>6, <3>1 DEF Dealt, Covers
  <2>7. /\ Top \in Frames(prog) /\ Tail(stack) \in Seq(Frames(prog))
        /\ Pending(stack) = Top.now \cup Top.next \cup Pending(Tail(stack))
        /\ Met(stack) = Top.seen \cup Met(Tail(stack))
    BY <1>0, <2>0, StackParts DEF IsCons
  <2>8. ASSUME Round PROVE Dealt(V)'
    <3> DEFINE f == [Top EXCEPT !.now = Top.next, !.next = {}]
    <3>1. /\ prog' = prog /\ table' = table /\ cond' = cond /\ bounded' = bounded
          /\ stack' = <<f>> \o Tail(stack) /\ Top.now = {}
      BY <2>8 DEF Round
    <3>2. f \in Frames(prog) /\ f.now = Top.next /\ f.next = {} /\ f.seen = Top.seen
      BY <2>7 DEF Frames
    <3>4. IsCons(Frames(prog), stack', f, Tail(stack))
      BY <2>7, <3>1, <3>2 DEF IsCons
    <3> HIDE DEF f
    <3>3. /\ Pending(stack') = f.now \cup f.next \cup Pending(Tail(stack))
          /\ Met(stack') = f.seen \cup Met(Tail(stack))
      BY <3>4, ConsParts
    <3> QED
      BY <2>6, <2>7, <3>1, <3>2, <3>3
  <2>9. ASSUME Return PROVE Dealt(V)'
    <3>1. /\ prog' = prog /\ table' = table /\ cond' = cond /\ bounded' = bounded
          /\ stack' = Tail(stack) /\ Top.now = {} /\ Top.next = {}
      BY <2>9 DEF Return
    <3> QED
      BY <2>6, <2>7, <3>1
  <2> QED
    BY <1>0, <1>2, <2>2, <2>3, <2>4, <2>5, <2>8, <2>9 DEF Next, VisitInv
<1> QED
  BY <1>1, <1>2

LEMMA AllVisited ==
  ASSUME VisitInv, status = "done", Connected(prog)
  PROVE  Dealt(BlocksOf(prog))
<1>1. PICK V : Dealt(V)
  BY DEF VisitInv
<1>2. Pending(stack) = {}
  BY NoParts DEF VisitInv, TypeInv
<1>3. V \in SUBSET BlocksOf(prog) /\ Closed(prog, V)
  BY <1>1, <1>2 DEF Dealt, Covers, Closed
<1>4. V = BlocksOf(prog)
  BY <1>3 DEF Connected
<1> QED
  BY <1>1, <1>4

LEMMA Visited == Spec => []VisitInv
BY InitVisit, StepVisit, PTL DEF Spec

\* When the conditions are pushed every bounded block of a connected program has its
\* bound: that branches met before are left out of the working list, and that a call
\* is dealt with before what follows it, cuts no block off.
THEOREM EveryBoundIsPushed == Spec => [](Connected(prog) => BoundsPushed)
<1>1. VisitInv => (Connected(prog) => BoundsPushed)
  <2> SUFFICES ASSUME VisitInv, Connected(prog), status = "done" PROVE bounded = prog.bounds
    BY DEF BoundsPushed
  <2>1. bounded = BlocksOf(prog) \cap prog.bounds
    BY AllVisited DEF Dealt, Covers
  <2> QED
    BY <2>1 DEF VisitInv, TypeInv, Program
<1> QED
  BY <1>1, Visited, PTL

\* In a connected program no two branches of which share an address, every block a
\* branch leads to is given the condition of that very branch and no other: what
\* branches of functions that are called several times cannot rely on.
THEOREM ConditionsAreOwn ==
  Spec => [](Connected(prog) /\ OwnAddresses(prog) => OwnConditions)
<1>1. VisitInv => (Connected(prog) /\ OwnAddresses(prog) => OwnConditions)
  <2> SUFFICES ASSUME VisitInv, Connected(prog), OwnAddresses(prog), status = "done",
                      NEW e \in prog.edges
               PROVE  LET given == \E k \in DOMAIN prog.rows :
                                     prog.rows[k] = [branch |-> e.from, taken |-> e.taken]
                      IN
                      /\ given /\ ~e.back /\ e.from \notin prog.headers
                           /\ (\A o \in prog.edges : o.to = e.to => o = e)
                         => cond[e.to] = [branch |-> e.from, taken |-> e.taken]
                      /\ cond[e.to] # None =>
                           \E o \in prog.edges :
                             o.to = e.to /\ cond[e.to] = [branch |-> o.from, taken |-> o.taken]
    BY DEF OwnConditions
  <2>1. Owned(BlocksOf(prog))
    BY AllVisited DEF Dealt
  <2>2. e.to \in BlocksOf(prog) /\ e.from \in BlocksOf(prog)
    BY DEF BlocksOf
  <2>3. ASSUME NEW k \in DOMAIN prog.rows,
               prog.rows[k] = [branch |-> e.from, taken |-> e.taken],
               ~e.back, e.from \notin prog.headers,
               \A o \in prog.edges : o.to = e.to => o = e
        PROVE  cond[e.to] = [branch |-> e.from, taken |-> e.taken]
    <3>1. prog.rows[k].branch = e.from /\ prog.rows[k].taken = e.taken
      BY <2>3
    <3>2. e.from \in RowBranches(prog) /\ e.taken \in DOMAIN FullMap(prog, e.from)
      BY <3>1 DEF RowBranches, FullMap
    <3>3. Served(e.from)
      BY <2>1, <2>2, <3>2 DEF Owned, Queued
    <3> QED
      BY <2>3, <3>2, <3>3 DEF Served
  <2>4. ASSUME cond[e.to] # None
        PROVE  \E o \in prog.edges :
                 o.to = e.to /\ cond[e.to] = [branch |-> o.from, taken |-> o.taken]
    BY <2>1, <2>2, <2>4 DEF Owned, CondsPlaced
  <2> QED
    BY <2>3, <2>4
<1> QED
  BY <1>1, Visited, PTL
=============================================================================
