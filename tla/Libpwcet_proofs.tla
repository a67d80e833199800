--------------------------- MODULE Libpwcet_proofs ---------------------------
(***************************************************************************)
(* What the printed programs do, for every formula, valuation, loop        *)
(* hierarchy and limit on the size of lists.                               *)
(*                                                                         *)
(* 1. Operations change their operands and never a value that is needed.   *)
(* A statement leaves a pointer to one of its operands, to an object of    *)
(* its own, or to a parameter.  An operand is not live any more once it    *)
(* has been used, because a formula is a tree; an object of its own bears  *)
(* a greater number than every object there is; a parameter that is met    *)
(* for the first time is nobody's.                                         *)
(*                                                                         *)
(* 2. Operations turn decreasing lists into decreasing lists.  The proof   *)
(* for max follows its cursors: it takes values in order (Merged).         *)
(*                                                                         *)
(* 3. The object of a live node matches the abstract WCET the algebra      *)
(* gives to the node, position by position.  By 1, a statement leaves the  *)
(* other live objects alone; by 2, its operands are lists the laws of the  *)
(* algebra (AbstractWcet_proofs) apply to.                                 *)
(***************************************************************************)
EXTENDS LibpwcetSoundness, Induction, SequenceTheorems

AP == INSTANCE AbstractWcet_proofs WITH LTop <- LOOP_TOP

\* What a statement may leave in its variable.
Left(o) ==
  \/ o = pc
  \/ Node.kind = "param" /\ o = Node.param
  \/ \E i \in DOMAIN Node.kids : o = w[Node.kids[i]]

Variables ==
  /\ formula \in Formulas
  /\ w \in Seq(Nat \cup Params)
  /\ Len(w) <= Len(formula)
  /\ status = "run" => Len(w) < Len(formula)
  /\ status = "done" => Len(w) = Len(formula)

\* Whose an object is can be told from its name.
Names ==
  \A n \in DOMAIN w :
    \/ w[n] \in 1..n
    \/ \E m \in 1..n : m \in DOMAIN formula /\ formula[m].kind = "param" /\ formula[m].param = w[n]

IInv == Variables /\ Names /\ OneOwner

-----------------------------------------------------------------------------
LEMMA Program ==
  ASSUME Variables
  PROVE  /\ WellFormed(formula) /\ Len(formula) \in Nat \ {0}
         /\ DOMAIN formula = 1..Len(formula)
         /\ Len(w) \in Nat /\ DOMAIN w = 1..Len(w) /\ pc \in Nat
         /\ status = "run" => pc \in DOMAIN formula
<1>1. WellFormed(formula)
  BY LibpwcetAssumption DEF Variables
<1>2. formula \in Seq(Range(formula)) /\ formula # <<>>
  BY <1>1 DEF WellFormed
<1>3. Len(formula) \in Nat \ {0} /\ DOMAIN formula = 1..Len(formula)
  BY <1>2
<1>4. Len(w) \in Nat /\ DOMAIN w = 1..Len(w)
  BY DEF Variables
<1>5. pc \in Nat /\ (Len(w) < Len(formula) => pc \in DOMAIN formula)
  BY <1>3, <1>4 DEF pc
<1> QED
  BY <1>1, <1>3, <1>4, <1>5 DEF Variables

\* Every action leaves a pointer of one of the three sorts, or ends the program.
LEMMA Statement ==
  ASSUME Variables, Next
  PROVE  \/ UNCHANGED <<formula, w>> /\ status' = "fault"
         \/ /\ UNCHANGED formula
            /\ \E o : /\ Left(o) /\ w' = Append(w, o)
                      /\ status' = IF pc = Len(formula) THEN "done" ELSE "run"
<1> DEFINE Ends == UNCHANGED <<formula, w>> /\ status' = "fault"
           Leaves(o) == /\ UNCHANGED formula /\ Left(o) /\ w' = Append(w, o)
                        /\ status' = IF pc = Len(formula) THEN "done" ELSE "run"
<1> SUFFICES Ends \/ \E o : Leaves(o)
  OBVIOUS
<1>1. ASSUME NEW o, NEW x, Left(o), Assign(o, x) PROVE \E p : Leaves(p)
  BY <1>1 DEF Assign
<1>2. Left(NewObject)
  BY DEF Left, NewObject
<1>3. Node.kind = "param" => Left(Node.param)
  BY DEF Left
<1>4. Node = formula[pc] /\ pc \in DOMAIN formula
  BY Program DEF Next, Node
<1>5. \A i \in DOMAIN Node.kids : i \in DOMAIN Ws /\ Ws[i] = w[Node.kids[i]] /\ Left(Ws[i])
  BY DEF Ws, Left
<1>6. Node.kind \notin {"const", "param"} => Left(Ws[1])
  <2> SUFFICES ASSUME Node.kind \notin {"const", "param"} PROVE 1 \in DOMAIN Node.kids
    BY <1>5
  <2>1. Node.kids \in Seq(1..(pc - 1)) /\ Node.kids # <<>>
    BY <1>4, Program DEF WellFormed
  <2> QED
    BY <2>1
<1>7. CASE FConst
  BY <1>1, <1>2, <1>7 DEF FConst
<1>8. CASE FParam
  BY <1>1, <1>3, <1>8 DEF FParam
<1>9. CASE FPlus
  <2>1. DOMAIN Ws = DOMAIN Node.kids
    BY DEF Ws
  <2>2. PICK i \in DOMAIN Node.kids : Assign(Ws[i], SumOf(Ws, Ws[i]))
    BY <1>9, <2>1 DEF FPlus
  <2> QED
    BY <1>1, <1>5, <2>2
<1>10. CASE FUnion
  BY <1>1, <1>2, <1>10 DEF FUnion
<1>11. CASE FPower
  BY <1>1, <1>6, <1>11 DEF FPower
<1>12. CASE FPowerParam
  BY <1>1, <1>6, <1>12 DEF FPowerParam
<1>13. CASE FBProduct
  BY <1>1, <1>2, <1>6, <1>13 DEF FBProduct
<1>14. CASE FProduct
  BY <1>1, <1>6, <1>14 DEF FProduct
<1>15. CASE Prune
  BY <1>1, <1>6, <1>15 DEF Prune
<1>16. CASE FAnnot
  BY <1>1, <1>6, <1>16 DEF FAnnot
<1>17. CASE Fault
  BY <1>17 DEF Fault
<1> QED
  BY <1>7, <1>8, <1>9, <1>10, <1>11, <1>12, <1>13, <1>14, <1>15, <1>16, <1>17 DEF Next

-----------------------------------------------------------------------------
\* What a statement does to the variables and to the nodes that are live.
LEMMA Appended ==
  ASSUME Variables, status = "run", NEW o, Left(o), UNCHANGED formula, w' = Append(w, o)
  PROVE  /\ o \in Nat \cup Params
         /\ w' \in Seq(Nat \cup Params) /\ Len(w') = pc
         /\ DOMAIN w' = DOMAIN w \cup {pc} /\ pc \notin DOMAIN w
         /\ w'[pc] = o /\ \A n \in DOMAIN w : w'[n] = w[n]
         /\ \A n \in Live' : n # pc =>
              n \in Live /\ \A i \in DOMAIN Node.kids : Node.kids[i] # n
         /\ \A i \in DOMAIN Node.kids : Node.kids[i] \in Live
<1>1. /\ WellFormed(formula) /\ pc \in DOMAIN formula /\ pc \in Nat
      /\ Len(w) \in Nat /\ DOMAIN w = 1..Len(w) /\ w \in Seq(Nat \cup Params)
  BY Program DEF Variables
<1>2. Node = formula[pc]
  BY DEF Node
<1>3. Node.kids \in Seq(DOMAIN w)
  BY <1>1, <1>2 DEF WellFormed, pc
<1>4. \A i \in DOMAIN Node.kids : Node.kids[i] \in DOMAIN w
  BY <1>3
<1>5. o \in Nat \cup Params
  <2>1. CASE o = pc
    BY <1>1, <2>1
  <2>2. CASE Node.kind = "param" /\ o = Node.param
    BY <1>1, <1>2, <2>2 DEF WellFormed
  <2>3. CASE \E i \in DOMAIN Node.kids : o = w[Node.kids[i]]
    BY <1>1, <1>4, <2>3
  <2> QED
    BY <2>1, <2>2, <2>3 DEF Left
<1>6. /\ w' \in Seq(Nat \cup Params) /\ Len(w') = pc
      /\ DOMAIN w' = DOMAIN w \cup {pc} /\ pc \notin DOMAIN w
      /\ w'[pc] = o /\ \A n \in DOMAIN w : w'[n] = w[n]
  BY <1>1, <1>5 DEF pc
<1>7. \A n \in Live' : n # pc => n \in Live /\ \A i \in DOMAIN Node.kids : Node.kids[i] # n
  BY <1>2, <1>6 DEF Live
<1>8. ASSUME NEW i \in DOMAIN Node.kids PROVE Node.kids[i] \in Live
  <2> SUFFICES ASSUME NEW m \in DOMAIN w, NEW j \in DOMAIN formula[m].kids
               PROVE  formula[m].kids[j] # Node.kids[i]
    BY <1>4, <1>8 DEF Live
  <2>1. m \in DOMAIN formula /\ m # pc
    BY <1>1, Program DEF pc
  <2> QED
    BY <1>1, <1>2, <2>1 DEF WellFormed
<1> QED
  BY <1>5, <1>6, <1>7, <1>8

\* Nobody that is still live has the object the statement leaves.
LEMMA Apart ==
  ASSUME IInv, status = "run", Linear(formula), NEW o, Left(o), UNCHANGED formula, w' = Append(w, o),
         NEW l \in Live', l # pc
  PROVE  w[l] # o
<1> USE DEF IInv
<1>1. /\ l \in Live
      /\ \A i \in DOMAIN Node.kids : Node.kids[i] # l
      /\ \A i \in DOMAIN Node.kids : Node.kids[i] \in Live
  BY Appended
<1>2. /\ WellFormed(formula) /\ Len(formula) \in Nat /\ DOMAIN formula = 1..Len(formula)
      /\ pc \in DOMAIN formula /\ pc \in Nat
      /\ Len(w) \in Nat /\ DOMAIN w = 1..Len(w) /\ Node = formula[pc]
  BY Program DEF Node
<1>3. l \in DOMAIN w /\ l \in 1..(pc - 1)
  BY <1>1, <1>2 DEF Live, pc
<1>4. CASE o = pc
  <2>1. \A k \in DOMAIN formula : formula[k].kind = "param" => formula[k].param \notin Nat
    BY <1>2, LibpwcetAssumption DEF WellFormed
  <2>2. w[l] \in 1..l \/ w[l] \notin Nat
    BY <1>3, <2>1 DEF Names
  <2> QED
    BY <1>2, <1>3, <1>4, <2>2
<1>5. CASE Node.kind = "param" /\ o = Node.param
  <2>1. o \in Params
    BY <1>2, <1>5 DEF WellFormed
  <2>2. \A k \in 1..l : ~(k \in DOMAIN formula /\ formula[k].kind = "param" /\ formula[k].param = o)
    BY <1>2, <1>3, <1>5 DEF Linear
  <2> QED
    BY <1>3, <2>1, <2>2, LibpwcetAssumption DEF Names
<1>6. CASE \E i \in DOMAIN Node.kids : o = w[Node.kids[i]]
  <2>1. PICK i \in DOMAIN Node.kids : o = w[Node.kids[i]]
    BY <1>6
  <2>2. Node.kids[i] \in Live /\ Node.kids[i] # l
    BY <1>1
  <2> QED
    BY <1>1, <2>1, <2>2 DEF OneOwner
<1> QED
  BY <1>4, <1>5, <1>6 DEF Left

LEMMA InductiveStep == IInv /\ [Next]_vars => IInv'
<1> SUFFICES ASSUME IInv, [Next]_vars PROVE IInv'
  OBVIOUS
<1> USE DEF IInv
<1>1. CASE UNCHANGED vars
  BY <1>1 DEF vars, Variables, Names, OneOwner, Live
<1>2. CASE Next /\ UNCHANGED <<formula, w>> /\ status' = "fault"
  BY <1>2 DEF Variables, Names, OneOwner, Live
<1>3. CASE /\ Next /\ UNCHANGED formula
           /\ \E o : /\ Left(o) /\ w' = Append(w, o)
                     /\ status' = IF pc = Len(formula) THEN "done" ELSE "run"
  <2>1. PICK o : /\ Left(o) /\ w' = Append(w, o)
                 /\ status' = IF pc = Len(formula) THEN "done" ELSE "run"
    BY <1>3
  <2>2. status = "run"
    BY <1>3 DEF Next
  <2>3. /\ o \in Nat \cup Params
        /\ w' \in Seq(Nat \cup Params) /\ Len(w') = pc
        /\ DOMAIN w' = DOMAIN w \cup {pc} /\ pc \notin DOMAIN w
        /\ w'[pc] = o /\ \A n \in DOMAIN w : w'[n] = w[n]
        /\ \A n \in Live' : n # pc =>
             n \in Live /\ \A i \in DOMAIN Node.kids : Node.kids[i] # n
        /\ \A i \in DOMAIN Node.kids : Node.kids[i] \in Live
    BY <1>3, <2>1, <2>2, Appended
  <2>4. /\ WellFormed(formula) /\ Len(formula) \in Nat /\ DOMAIN formula = 1..Len(formula)
        /\ pc \in DOMAIN formula /\ pc \in Nat
        /\ Len(w) \in Nat /\ DOMAIN w = 1..Len(w) /\ Node = formula[pc]
    BY <2>2, Program DEF Node
  <2>5. Variables'
    <3>1. pc <= Len(formula) /\ (pc # Len(formula) => pc < Len(formula))
      BY <2>4
    <3>2. formula' \in Formulas /\ formula' = formula
      BY <1>3 DEF Variables
    <3> QED
      BY <2>1, <2>3, <3>1, <3>2 DEF Variables
  <2>6. Names'
    <3> SUFFICES ASSUME NEW n \in DOMAIN w'
                 PROVE  \/ w'[n] \in 1..n
                        \/ \E m \in 1..n : m \in DOMAIN formula /\ formula[m].kind = "param"
                                           /\ formula[m].param = w'[n]
      BY <1>3 DEF Names
    <3>1. CASE n # pc
      BY <2>3, <3>1 DEF Names
    <3>2. CASE n = pc /\ o = pc
      BY <2>3, <2>4, <3>2
    <3>3. CASE n = pc /\ Node.kind = "param" /\ o = Node.param
      BY <2>3, <2>4, <3>3
    <3>4. CASE n = pc /\ \E i \in DOMAIN Node.kids : o = w[Node.kids[i]]
      <4>1. PICK i \in DOMAIN Node.kids : o = w[Node.kids[i]]
        BY <3>4
      <4>2. Node.kids[i] \in 1..Len(w)
        BY <2>3, <2>4 DEF Live
      <4>3. 1..Node.kids[i] \subseteq 1..n
        BY <2>4, <3>4, <4>2 DEF pc
      <4> QED
        BY <2>3, <2>4, <3>4, <4>1, <4>2, <4>3 DEF Names
    <3> QED
      BY <2>1, <3>1, <3>2, <3>3, <3>4 DEF Left
  <2>7. OneOwner'
    <3> SUFFICES ASSUME Linear(formula), NEW m \in Live', NEW n \in Live', w'[m] = w'[n]
                 PROVE  m = n
      BY <1>3 DEF OneOwner, Linear
    <3>1. ASSUME NEW l \in Live', l # pc PROVE w[l] # o
      BY <1>3, <2>1, <2>2, <3>1, Apart
    <3>2. Live' \subseteq DOMAIN w \cup {pc}
      BY <2>3 DEF Live
    <3>3. CASE m # pc /\ n # pc
      <4>1. m \in Live /\ n \in Live /\ w[m] = w[n]
        BY <2>3, <3>2, <3>3
      <4> QED
        BY <4>1 DEF OneOwner
    <3>4. CASE m = pc \/ n = pc
      BY <2>3, <3>1, <3>2, <3>4
    <3> QED
      BY <3>3, <3>4
  <2> QED
    BY <2>5, <2>6, <2>7
<1> QED
  BY <1>1, <1>2, <1>3, Statement

LEMMA Initially == Init => IInv
<1> SUFFICES ASSUME Init PROVE IInv
  OBVIOUS
<1>1. w = <<>> /\ formula \in Formulas
  BY DEF Init
<1>2. WellFormed(formula)
  BY <1>1, LibpwcetAssumption
<1>3. formula \in Seq(Range(formula)) /\ formula # <<>>
  BY <1>2 DEF WellFormed
<1>4. Len(w) <= Len(formula) /\ Len(w) < Len(formula) /\ w \in Seq(Nat \cup Params) /\ DOMAIN w = {}
  BY <1>1, <1>3
<1>5. status = "run"
  BY DEF Init
<1> QED
  BY <1>1, <1>4, <1>5 DEF IInv, Variables, Names, OneOwner, Live

-----------------------------------------------------------------------------
(* However large the formula: no statement changes a value that a later one, or *)
(* the caller, is going to read, if no parameter occurs twice.                  *)
THEOREM LiveObjectsAreDistinct == Spec => []OneOwner
<1>1. IInv => OneOwner
  BY DEF IInv
<1> QED
  BY <1>1, Initially, InductiveStep, PTL DEF Spec

-----------------------------------------------------------------------------
(* Lists                                                                   *)

Pos == Nat \ {0}
Lists == {o \in Objects : Decreases(o)}
MW(o) == AP!MWcet(o.eta, o.others)

LEMMA ListValues ==
  ASSUME NEW o \in Lists
  PROVE  /\ MW(o) \in AP!DecreasingWcets
         /\ \A i \in Pos : /\ Elem(o, i) = AP!Value(MW(o), i)
                           /\ Elem(o, i) \in Nat /\ o.others <= Elem(o, i)
                           /\ \A n \in Nat : i + n \in Pos /\ Elem(o, i + n) <= Elem(o, i)
<1>1. o.eta \in Seq(Nat) /\ o.others \in Nat /\ Decreases(o) /\ Len(o.eta) \in Nat
  BY LenProperties DEF Lists, Objects
<1>2. MW(o).wl = o.eta /\ MW(o).last = o.others
  BY DEF MW, AP!MWcet
<1>3. \A i \in Pos : Elem(o, i) = AP!Value(MW(o), i)
  BY <1>2 DEF Elem, AP!Value
<1>4. MW(o) \in AP!MultiWcets
  BY <1>1 DEF MW, AP!MWcet, AP!MultiWcets
<1>5. AP!IsDecreasing(MW(o))
  <2> SUFFICES ASSUME NEW i \in Nat \ {0} PROVE Elem(o, i + 1) <= Elem(o, i)
    BY <1>3 DEF AP!IsDecreasing, Pos
  <2>1. CASE i \in DOMAIN o.eta
    BY <1>1, <2>1, SMTT(30) DEF Decreases, Elem
  <2>2. CASE i \notin DOMAIN o.eta
    <3>1. i > Len(o.eta) /\ i + 1 > Len(o.eta)
      BY <1>1, <2>2
    <3> QED
      BY <1>1, <3>1 DEF Elem
  <2> QED
    BY <2>1, <2>2
<1>6. \A i \in Pos : Elem(o, i) \in Nat
  BY <1>3, <1>4, AP!ValueType DEF Pos
<1>7. ASSUME NEW i \in Pos, NEW n \in Nat PROVE i + n \in Pos /\ Elem(o, i + n) <= Elem(o, i)
  <2>1. i + n \in Pos
    BY DEF Pos
  <2>2. AP!Value(MW(o), i + n) <= AP!Value(MW(o), i)
    BY <1>4, <1>5, AP!ValuesDecrease DEF Pos
  <2> QED
    BY <1>3, <2>1, <2>2
<1>8. ASSUME NEW i \in Pos PROVE o.others <= Elem(o, i)
  <2>1. i + Len(o.eta) > Len(o.eta)
    BY <1>1 DEF Pos
  <2>2. Elem(o, i + Len(o.eta)) = o.others
    BY <1>1, <2>1 DEF Elem, Pos
  <2> QED
    BY <1>1, <1>7, <2>2
<1>9. MW(o) \in AP!DecreasingWcets
  BY <1>4, <1>5 DEF AP!DecreasingWcets
<1> QED
  BY <1>3, <1>6, <1>7, <1>8, <1>9

LEMMA IsList ==
  ASSUME NEW o \in Objects, \A i \in Pos : Elem(o, i + 1) <= Elem(o, i)
  PROVE  o \in Lists
<1>1. ASSUME NEW i \in DOMAIN o.eta PROVE i \in Pos /\ Elem(o, i) = o.eta[i]
  <2>1. o.eta \in Seq(Nat)
    BY DEF Objects
  <2>2. Len(o.eta) \in Nat /\ DOMAIN o.eta = 1..Len(o.eta)
    BY <2>1, LenProperties
  <2>3. i \in Nat /\ i # 0 /\ i <= Len(o.eta)
    BY <2>2
  <2> QED
    BY <2>3 DEF Pos, Elem
<1>2. \A i \in DOMAIN o.eta : o.eta[i] >= Elem(o, i + 1)
  BY <1>1
<1>3. Decreases(o)
  BY <1>2 DEF Decreases
<1> QED
  BY <1>3 DEF Lists

LEMMA RunIsSum ==
  ASSUME NEW o \in Lists, NEW n \in Nat, NEW d \in Nat
  PROVE  Run(o, d + 1, n) \in Nat /\ Run(o, d + 1, n) = AP!ValSum(n, d, MW(o))
<1> DEFINE D == 0..n
           at(i) == Elem(o, d + 1 + i - 1)
           upto[i \in D] == IF i = 0 THEN 0 ELSE upto[i - 1] + at(i)
           T == AP!Total(MW(o))
           f == [i \in D |-> T[d + i] - T[d]]
           rank == [i \in D |-> i]
           base == [i \in D |-> 0]
           next == [i \in D \ {0} |-> i - 1]
           step == [p \in (D \ {0}) \X Nat |-> p[2] + at(p[1])]
<1>1. MW(o) \in AP!DecreasingWcets /\ MW(o) \in AP!MultiWcets
  BY ListValues DEF AP!DecreasingWcets
<1>2. T \in [Nat -> Nat] /\ \A k \in Nat : T[k + 1] = T[k] + AP!Value(MW(o), k + 1)
  BY <1>1, AP!TotalDef DEF AP!IsTotal
<1>3. \A i \in D \ {0} : at(i) = Elem(o, d + i) /\ at(i) = AP!Value(MW(o), d + i) /\ at(i) \in Nat
  <2> SUFFICES ASSUME NEW i \in D \ {0}
               PROVE  at(i) = Elem(o, d + i) /\ at(i) = AP!Value(MW(o), d + i) /\ at(i) \in Nat
    OBVIOUS
  <2>1. d + 1 + i - 1 = d + i /\ d + i \in Pos
    BY DEF Pos
  <2> QED
    BY <2>1, ListValues
<1> HIDE DEF at
<1>4. \A i \in D \ {0}, k \in Nat : step[<<i, k>>] = k + at(i)
  OBVIOUS
<1>5. step \in [(D \ {0}) \X Nat -> Nat]
  BY <1>3
<1>6. IsChain(D, Nat, rank, {0}, base, next, step)
  <2> HIDE DEF step
  <2> QED
    BY <1>5 DEF IsChain
<1>7. PICK g \in [D -> Nat] : FollowsChain(g, D, {0}, base, next, step)
  <2> HIDE DEF D, rank, base, next, step
  <2> QED
    BY <1>6, ChainRecursion
<1>8. ASSUME NEW i \in D PROVE g[i] = IF i = 0 THEN 0 ELSE g[i - 1] + at(i)
  <2>1. CASE i = 0
    BY <1>7, <2>1 DEF FollowsChain
  <2>2. CASE i # 0
    <3>1. i \in D \ {0} /\ next[i] = i - 1 /\ g[i - 1] \in Nat
      BY <2>2
    <3>2. g[i] = step[<<i, g[i - 1]>>]
      <4> HIDE DEF step
      <4> QED
        BY <1>7, <3>1 DEF FollowsChain
    <3> QED
      BY <1>4, <2>2, <3>1, <3>2
  <2> QED
    BY <2>1, <2>2
<1>9. g = [i \in D |-> IF i = 0 THEN 0 ELSE g[i - 1] + at(i)]
  BY <1>8
<1>10. upto = [i \in D |-> IF i = 0 THEN 0 ELSE upto[i - 1] + at(i)]
  <2> HIDE DEF D
  <2> QED
    BY <1>9
<1>11. Run(o, d + 1, n) = upto[n]
  BY DEF Run, at
<1> HIDE DEF upto
<1>12. \A i \in D : upto[i] = IF i = 0 THEN 0 ELSE upto[i - 1] + at(i)
  BY <1>10
<1> DEFINE P == {i \in Nat : i \in D => upto[i] = T[d + i] - T[d]}
<1> HIDE DEF T
<1>13. 0 \in P
  BY <1>2, <1>12
<1>14. ASSUME NEW i \in Nat, i \in P PROVE i + 1 \in P
  <2> SUFFICES ASSUME i + 1 \in D PROVE upto[i + 1] = T[d + (i + 1)] - T[d]
    OBVIOUS
  <2>1. i \in D /\ (i + 1) - 1 = i /\ i + 1 # 0 /\ d + (i + 1) = (d + i) + 1 /\ d + i \in Nat
    OBVIOUS
  <2>2. upto[i + 1] = upto[i] + at(i + 1) /\ at(i + 1) = AP!Value(MW(o), d + (i + 1))
    BY <1>3, <1>12, <2>1
  <2>3. T[d + (i + 1)] = T[d + i] + AP!Value(MW(o), d + (i + 1))
    BY <1>2, <2>1
  <2>4. upto[i] = T[d + i] - T[d]
    BY <1>14, <2>1
  <2>5. T[d + i] \in Nat /\ T[d] \in Nat /\ at(i + 1) \in Nat
    BY <1>2, <1>3, <2>1
  <2> QED
    BY <2>2, <2>3, <2>4, <2>5, SMTT(30)
<1>15. Nat \subseteq P
  <2> HIDE DEF P
  <2> QED
    BY <1>13, <1>14, SetInduction
<1>16. upto[n] = T[d + n] - T[d]
  BY <1>15
<1>17. AP!ValSum(n, d, MW(o)) \in Nat /\ T[d + n] = T[d] + AP!ValSum(n, d, MW(o))
  BY <1>1, AP!ValSumOfTotal DEF T
<1>18. T[d] \in Nat
  BY <1>2
<1> QED
  BY <1>11, <1>16, <1>17, <1>18

-----------------------------------------------------------------------------
(* Operands                                                                *)

Operands(ws) ==
  /\ ws \in Seq(DOMAIN heap) /\ ws # <<>>
  /\ \A p \in DOMAIN heap : heap[p] \in Lists

LEMMA OperandLists ==
  ASSUME NEW ws, Operands(ws)
  PROVE  /\ Len(ws) \in Pos /\ DOMAIN ws = 1..Len(ws) /\ 1 \in 1..Len(ws)
         /\ \A i \in 1..Len(ws) :
              /\ heap[ws[i]] \in Lists
              /\ heap[ws[i]].loop \in Int /\ heap[ws[i]].others \in Nat
              /\ heap[ws[i]].eta \in Seq(Nat) /\ Len(heap[ws[i]].eta) \in Nat
<1>1. Len(ws) \in Pos /\ DOMAIN ws = 1..Len(ws) /\ 1 \in 1..Len(ws)
  BY LenProperties, EmptySeq DEF Operands, Pos
<1>2. ASSUME NEW i \in 1..Len(ws)
      PROVE  /\ heap[ws[i]] \in Lists
             /\ heap[ws[i]].loop \in Int /\ heap[ws[i]].others \in Nat
             /\ heap[ws[i]].eta \in Seq(Nat) /\ Len(heap[ws[i]].eta) \in Nat
  <2>1. ws[i] \in DOMAIN heap
    BY <1>1 DEF Operands
  <2>2. heap[ws[i]] \in Objects /\ heap[ws[i]] \in Lists
    BY <2>1 DEF Operands, Lists
  <2>3. heap[ws[i]].eta \in Seq(Nat) /\ heap[ws[i]].loop \in Int /\ heap[ws[i]].others \in Nat
    BY <2>2 DEF Objects
  <2> QED
    BY <2>2, <2>3, LenProperties
<1> QED
  BY <1>1, <1>2

\* in has the innermost loop of the first operands.
AreInnermost(in, ws) ==
  /\ in \in [0..Len(ws) -> Int]
  /\ in[0] = LOOP_TOP
  /\ \A i \in 1..Len(ws) :
       in[i] = IF in[i - 1] = LOOP_TOP \/ LoopInner(heap[ws[i]].loop, in[i - 1])
               THEN heap[ws[i]].loop ELSE in[i - 1]

LEMMA InnermostLoops ==
  ASSUME NEW ws, Operands(ws)
  PROVE  \E in : AreInnermost(in, ws) /\ Innermost(ws) = in[Len(ws)]
<1> DEFINE n == Len(ws)
           inner(i, l) == IF l = LOOP_TOP \/ LoopInner(heap[ws[i]].loop, l)
                          THEN heap[ws[i]].loop ELSE l
           in[i \in 0..n] == IF i = 0 THEN LOOP_TOP ELSE inner(i, in[i - 1])
           step == [p \in (1..n) \X Int |-> inner(p[1], p[2])]
<1>1. n \in Nat /\ LOOP_TOP \in Int /\ \A i \in 1..n, l \in Int : inner(i, l) \in Int
  BY OperandLists DEF LOOP_TOP, Pos
<1>2. Innermost(ws) = in[n]
  BY DEF Innermost
<1> HIDE DEF n, inner
<1>3. step \in [(1..n) \X Int -> Int] /\ \A i \in 1..n, l \in Int : step[<<i, l>>] = inner(i, l)
  BY <1>1
<1>4. PICK f \in [0..n -> Int] : /\ f[0] = LOOP_TOP
                                 /\ \A i \in 1..n : f[i] = step[<<i, f[i - 1]>>]
  <2>1. AreSteps(n, Int, LOOP_TOP, step)
    BY <1>1, <1>3 DEF AreSteps
  <2> HIDE DEF step
  <2> QED
    BY <2>1, PrefixRecursion
<1>5. \A i \in 1..n : i - 1 \in 0..n /\ f[i - 1] \in Int
  BY <1>1
<1>6. \A i \in 1..n : f[i] = inner(i, f[i - 1])
  <2> HIDE DEF step
  <2> QED
    BY <1>3, <1>4, <1>5
<1>7. f = [i \in 0..n |-> IF i = 0 THEN LOOP_TOP ELSE inner(i, f[i - 1])]
  BY <1>1, <1>4, <1>6
<1>8. in = [i \in 0..n |-> IF i = 0 THEN LOOP_TOP ELSE inner(i, in[i - 1])]
  BY <1>7
<1> HIDE DEF in
<1>9. in[0] = LOOP_TOP /\ \A i \in 1..n : in[i] = inner(i, in[i - 1])
  <2>1. \A i \in 0..n : in[i] = IF i = 0 THEN LOOP_TOP ELSE inner(i, in[i - 1])
    BY <1>8, Zenon
  <2>2. 0 \in 0..n /\ \A i \in 1..n : i \in 0..n /\ i # 0
    BY <1>1
  <2> QED
    BY <2>1, <2>2, Zenon
<1> DEFINE P == {i \in Nat : i \in 0..n => in[i] \in Int}
<1>10. 0 \in P
  BY <1>1, <1>9
<1>11. ASSUME NEW i \in Nat, i \in P PROVE i + 1 \in P
  <2> SUFFICES ASSUME i + 1 \in 0..n PROVE in[i + 1] \in Int
    OBVIOUS
  <2>1. i + 1 \in 1..n /\ (i + 1) - 1 = i /\ i \in 0..n
    BY <1>1
  <2>2. in[i] \in Int /\ in[i + 1] = inner(i + 1, in[i])
    BY <1>9, <1>11, <2>1
  <2> QED
    BY <1>1, <2>1, <2>2
<1>12. Nat \subseteq P
  <2> HIDE DEF P
  <2> QED
    BY <1>10, <1>11, SetInduction
<1>13. in \in [0..n -> Int]
  <2>1. \A i \in 0..n : in[i] \in Int
    BY <1>1, <1>12
  <2>2. in = [i \in 0..n |-> in[i]]
    BY <1>8, Zenon
  <2> QED
    BY <2>1, <2>2
<1>14. AreInnermost(in, ws)
  BY <1>9, <1>13 DEF AreInnermost, inner, n
<1> QED
  BY <1>2, <1>14 DEF n

LEMMA InnermostLoop ==
  ASSUME NEW ws, Operands(ws)
  PROVE  Innermost(ws) \in Int
<1>1. PICK in : AreInnermost(in, ws) /\ Innermost(ws) = in[Len(ws)]
  BY InnermostLoops
<1>2. Len(ws) \in Nat
  BY OperandLists DEF Pos
<1> QED
  BY <1>1, <1>2 DEF AreInnermost

\* What the operands hold at a position.
At(ws, i) == [j \in 1..Len(ws) |-> Elem(heap[ws[j]], i)]

LEMMA AtVector ==
  ASSUME NEW ws, Operands(ws), NEW i \in Pos
  PROVE  /\ At(ws, i) \in Vectors(Len(ws)) /\ TotalOf(At(ws, i)) \in Nat /\ i + 1 \in Pos
         /\ \A j \in 1..Len(ws) : At(ws, i + 1)[j] <= At(ws, i)[j]
<1>1. Len(ws) \in Nat /\ i + 1 \in Pos /\ \A j \in 1..Len(ws) : heap[ws[j]] \in Lists
  BY OperandLists DEF Pos
<1>2. \A j \in 1..Len(ws) : Elem(heap[ws[j]], i) \in Nat /\ Elem(heap[ws[j]], i + 1) <= Elem(heap[ws[j]], i)
  BY <1>1, ListValues
<1>3. At(ws, i) \in Vectors(Len(ws))
  BY <1>2 DEF At, Vectors
<1> QED
  BY <1>1, <1>2, <1>3, VectorSums DEF At

\* sum adds at each position.
LEMMA SumOfLists ==
  ASSUME NEW ws, Operands(ws), NEW k \in DOMAIN ws, Widest(ws, k)
  PROVE  /\ SumOf(ws, ws[k]) \in Lists
         /\ \A i \in Pos : Elem(SumOf(ws, ws[k]), i) = TotalOf(At(ws, i))
<1> DEFINE n == Len(ws)
           o == SumOf(ws, ws[k])
           L == Len(heap[ws[k]].eta)
<1>1. n \in Nat /\ DOMAIN ws = 1..n
  BY OperandLists DEF Pos
<1>2. \A j \in 1..n : heap[ws[j]].eta \in Seq(Nat) /\ Len(heap[ws[j]].eta) \in Nat
                      /\ heap[ws[j]].others \in Nat /\ Len(heap[ws[j]].eta) <= L
  BY <1>1, OperandLists DEF Widest
<1>3. L \in Nat /\ DOMAIN heap[ws[k]].eta = 1..L
  BY <1>1, <1>2, LenProperties
<1> DEFINE last == [j \in DOMAIN ws |-> heap[ws[j]].others]
<1>4. o = [loop |-> Innermost(ws), eta |-> [i \in 1..L |-> TotalOf(At(ws, i))], others |-> TotalOf(last)]
  BY <1>1, <1>3 DEF SumOf, At
<1>5. \A i \in Pos : TotalOf(At(ws, i)) \in Nat /\ TotalOf(At(ws, i + 1)) <= TotalOf(At(ws, i))
  <2> SUFFICES ASSUME NEW i \in Pos
               PROVE  TotalOf(At(ws, i)) \in Nat /\ TotalOf(At(ws, i + 1)) <= TotalOf(At(ws, i))
    OBVIOUS
  <2>1. i + 1 \in Pos /\ At(ws, i) \in Vectors(n) /\ At(ws, i + 1) \in Vectors(n) /\ TotalOf(At(ws, i)) \in Nat
        /\ \A j \in 1..n : At(ws, i + 1)[j] <= At(ws, i)[j]
    BY AtVector DEF Pos
  <2> QED
    BY <1>1, <2>1, TotalMonotone
<1>6. \A i \in Pos : i > L => At(ws, i) = last
  BY <1>1, <1>2, <1>3 DEF At, Elem, Pos
<1>7. TotalOf(last) \in Nat
  <2>1. L + 1 \in Pos /\ L + 1 > L
    BY <1>3 DEF Pos
  <2> QED
    BY <1>5, <1>6, <2>1
<1>8. o.loop = Innermost(ws) /\ o.eta = [i \in 1..L |-> TotalOf(At(ws, i))] /\ o.others = TotalOf(last)
  <2> HIDE DEF o, last
  <2> QED
    BY <1>4
<1>9. o.eta \in Seq(Nat) /\ Len(o.eta) = L
  <2> HIDE DEF o
  <2>1. 1..L \subseteq Pos
    BY <1>3 DEF Pos
  <2>2. \A i \in 1..L : TotalOf(At(ws, i)) \in Nat
    BY <1>5, <2>1
  <2> QED
    BY <1>3, <1>8, <2>2
<1>10. o \in Objects
  <2> HIDE DEF last
  <2>1. o.loop \in Int
    BY <1>8, InnermostLoop
  <2> HIDE DEF o
  <2> QED
    BY <1>4, <1>7, <1>8, <1>9, <2>1 DEF Objects
<1>11. ASSUME NEW i \in Pos PROVE Elem(o, i) = TotalOf(At(ws, i))
  <2> HIDE DEF o, last
  <2>1. CASE i <= L
    BY <1>3, <1>8, <1>9, <2>1 DEF Elem, Pos
  <2>2. CASE i > L
    BY <1>3, <1>6, <1>8, <1>9, <2>2 DEF Elem, Pos
  <2> QED
    BY <1>3, <2>1, <2>2 DEF Pos
<1>12. \A i \in Pos : Elem(o, i + 1) <= Elem(o, i)
  <2> HIDE DEF o
  <2>1. \A i \in Pos : i + 1 \in Pos
    BY DEF Pos
  <2> QED
    BY <1>5, <1>11, <2>1
<1> HIDE DEF o
<1> QED
  BY <1>10, <1>11, <1>12, IsList DEF o

-----------------------------------------------------------------------------
(* max                                                                     *)

LEMMA MostIsGreatest ==
  ASSUME NEW ws, Operands(ws)
  PROVE  /\ Most(ws) \in Nat
         /\ \A i \in 1..Len(ws) : heap[ws[i]].others <= Most(ws)
         /\ \E i \in 1..Len(ws) : heap[ws[i]].others = Most(ws)
<1> DEFINE n == Len(ws)
           f == [i \in 1..n |-> heap[ws[i]].others]
           IsMost(m) == m \in {heap[ws[i]].others : i \in DOMAIN ws}
                        /\ \A i \in DOMAIN ws : heap[ws[i]].others <= m
<1>1. n \in Nat /\ DOMAIN ws = 1..n /\ 1 \in 1..n /\ f \in Vectors(n)
  BY OperandLists DEF Pos, Vectors
<1>2. PICK i \in 1..n : \A j \in 1..n : f[j] < f[i] \/ (f[j] = f[i] /\ i <= j)
  <2> HIDE DEF n, f
  <2> QED
    BY <1>1, HasGreatest
<1>3. \A j \in 1..n : f[j] <= f[i] /\ f[j] \in Nat
  <2> HIDE DEF f, n
  <2> QED
    BY <1>1, <1>2 DEF Vectors
<1>4. IsMost(f[i])
  BY <1>1, <1>3
<1>5. Most(ws) = CHOOSE m : IsMost(m)
  BY DEF Most
<1>6. IsMost(Most(ws))
  <2> HIDE DEF IsMost
  <2> QED
    BY <1>4, <1>5
<1> QED
  BY <1>1, <1>3, <1>6

\* The cursors tab stand within the operands.
Cursors(ws, tab) ==
  tab \in Vectors(Len(ws)) /\ \A i \in 1..Len(ws) : tab[i] <= Len(heap[ws[i]].eta)
Ahead(ws, tab, i) == Elem(heap[ws[i]], tab[i] + 1)

LEMMA Heads ==
  ASSUME NEW ws, Operands(ws), NEW tab, Cursors(ws, tab)
  PROVE  /\ \A i \in 1..Len(ws) : tab[i] \in Nat /\ tab[i] + 1 \in Pos /\ Ahead(ws, tab, i) \in Nat
         /\ \A i \in Open(ws, tab) : i \in 1..Len(ws) /\ Under(ws, tab, i) = Ahead(ws, tab, i)
                                     /\ Most(ws) < Ahead(ws, tab, i)
         /\ \A i \in 1..Len(ws) : i \notin Open(ws, tab) => Ahead(ws, tab, i) <= Most(ws)
<1>1. DOMAIN ws = 1..Len(ws) /\ Len(ws) \in Nat /\ Most(ws) \in Nat
  BY OperandLists, MostIsGreatest DEF Pos
<1>2. ASSUME NEW i \in 1..Len(ws)
      PROVE  /\ tab[i] \in Nat /\ tab[i] + 1 \in Pos /\ Ahead(ws, tab, i) \in Nat
             /\ tab[i] < Len(heap[ws[i]].eta) => Under(ws, tab, i) = Ahead(ws, tab, i)
             /\ ~(tab[i] < Len(heap[ws[i]].eta)) => Ahead(ws, tab, i) <= Most(ws)
  <2>1. heap[ws[i]] \in Lists /\ Len(heap[ws[i]].eta) \in Nat /\ heap[ws[i]].others <= Most(ws)
    BY OperandLists, MostIsGreatest
  <2>2. tab[i] \in Nat /\ tab[i] + 1 \in Pos /\ tab[i] <= Len(heap[ws[i]].eta)
    BY DEF Cursors, Vectors, Pos
  <2>3. Ahead(ws, tab, i) \in Nat
    BY <2>1, <2>2, ListValues DEF Ahead
  <2>4. tab[i] < Len(heap[ws[i]].eta) => Under(ws, tab, i) = Ahead(ws, tab, i)
    BY <2>1, <2>2 DEF Under, Ahead, Elem
  <2>5. ~(tab[i] < Len(heap[ws[i]].eta)) => Ahead(ws, tab, i) = heap[ws[i]].others
    BY <2>1, <2>2 DEF Ahead, Elem
  <2> QED
    BY <2>1, <2>2, <2>3, <2>4, <2>5
<1>3. \A i \in Open(ws, tab) : i \in 1..Len(ws) /\ tab[i] < Len(heap[ws[i]].eta) /\ Under(ws, tab, i) > Most(ws)
  BY <1>1 DEF Open
<1>4. \A i \in 1..Len(ws) : i \notin Open(ws, tab) =>
        ~(tab[i] < Len(heap[ws[i]].eta)) \/ ~(Under(ws, tab, i) > Most(ws))
  BY <1>1 DEF Open
<1>5. \A i \in Open(ws, tab) : i \in 1..Len(ws) /\ Under(ws, tab, i) = Ahead(ws, tab, i)
                               /\ Most(ws) < Ahead(ws, tab, i)
  BY <1>1, <1>2, <1>3
<1>6. \A i \in 1..Len(ws) : i \notin Open(ws, tab) => Ahead(ws, tab, i) <= Most(ws)
  BY <1>1, <1>2, <1>4
<1> QED
  BY <1>2, <1>5, <1>6

LEMMA FirstIsGreatest ==
  ASSUME NEW ws, Operands(ws), NEW tab, Cursors(ws, tab), Open(ws, tab) # {}
  PROVE  /\ First(ws, tab) \in Open(ws, tab) /\ First(ws, tab) \in 1..Len(ws)
         /\ Under(ws, tab, First(ws, tab)) = Ahead(ws, tab, First(ws, tab))
         /\ Most(ws) < Ahead(ws, tab, First(ws, tab))
         /\ \A i \in 1..Len(ws) : Ahead(ws, tab, i) <= Ahead(ws, tab, First(ws, tab))
<1> DEFINE n == Len(ws)
           S == Open(ws, tab)
           f == [i \in 1..n |-> Ahead(ws, tab, i)]
           IsFirst(i) == i \in S /\ \A j \in S : \/ Under(ws, tab, j) < Under(ws, tab, i)
                                                 \/ Under(ws, tab, j) = Under(ws, tab, i) /\ i <= j
           first == First(ws, tab)
<1>1. n \in Nat /\ S \subseteq 1..n /\ f \in Vectors(n) /\ Most(ws) \in Nat
  BY OperandLists, Heads, MostIsGreatest DEF Pos, Vectors
<1>2. \A i \in S : Under(ws, tab, i) = Ahead(ws, tab, i) /\ f[i] = Ahead(ws, tab, i)
  BY <1>1, Heads
<1>3. PICK i \in S : \A j \in S : f[j] < f[i] \/ (f[j] = f[i] /\ i <= j)
  <2> HIDE DEF n, f, S
  <2> QED
    BY <1>1, HasGreatest DEF S
<1>4. IsFirst(i)
  BY <1>2, <1>3
<1>5. first = CHOOSE j : IsFirst(j)
  BY DEF First
<1>6. IsFirst(first)
  <2> HIDE DEF IsFirst
  <2> QED
    BY <1>4, <1>5
<1>7. \A j \in S : Ahead(ws, tab, j) <= Ahead(ws, tab, first)
  <2> SUFFICES ASSUME NEW j \in S PROVE Ahead(ws, tab, j) <= Ahead(ws, tab, first)
    OBVIOUS
  <2>1. Ahead(ws, tab, j) < Ahead(ws, tab, first) \/ Ahead(ws, tab, j) = Ahead(ws, tab, first)
    BY <1>2, <1>6
  <2>2. Ahead(ws, tab, j) \in Nat /\ Ahead(ws, tab, first) \in Nat
    BY <1>1, <1>6, Heads
  <2> QED
    BY <2>1, <2>2
<1>8. \A j \in 1..n : Ahead(ws, tab, j) <= Ahead(ws, tab, first)
  <2> SUFFICES ASSUME NEW j \in 1..n, j \notin S PROVE Ahead(ws, tab, j) <= Ahead(ws, tab, first)
    BY <1>7
  <2>1. Ahead(ws, tab, j) <= Most(ws) /\ Most(ws) < Ahead(ws, tab, first)
    BY <1>6, Heads
  <2>2. Ahead(ws, tab, j) \in Nat /\ Ahead(ws, tab, first) \in Nat
    BY <1>1, <1>6, Heads
  <2> QED
    BY <1>1, <2>1, <2>2
<1> QED
  BY <1>1, <1>2, <1>6, <1>8, Heads

\* The values the vector v takes off the operands are x at least.
Offers(ws, v, x) == \A i \in 1..Len(ws) : v[i] = 0 \/ Elem(heap[ws[i]], v[i]) >= x

Merged(ws, r) ==
  /\ Cursors(ws, r.tab) /\ r.eta \in Seq(Nat) /\ r.others \in Nat
  /\ TotalOf(r.tab) = Len(r.eta)
  /\ \A s \in 1..Len(r.eta) : r.eta[s] > Most(ws) /\ (s < Len(r.eta) => r.eta[s + 1] <= r.eta[s])
  /\ r.eta # <<>> => /\ Offers(ws, r.tab, r.eta[Len(r.eta)])
                     /\ \A i \in 1..Len(ws) : Ahead(ws, r.tab, i) <= r.eta[Len(r.eta)]
  /\ \A s \in 1..Len(r.eta) : \E v \in Vectors(Len(ws)) : TotalOf(v) = s /\ Offers(ws, v, r.eta[s])
  /\ \A s \in 1..Len(r.eta), v \in Vectors(Len(ws)), x \in Nat :
       TotalOf(v) = s /\ Offers(ws, v, x) => x <= r.eta[s]
  /\ ~r.full => r.others = Most(ws)
  /\ r.full => /\ MaxSize > 0 /\ Most(ws) <= r.others
               /\ \A i \in 1..Len(ws) : Ahead(ws, r.tab, i) <= r.others
               /\ r.eta # <<>> => r.others <= r.eta[Len(r.eta)]

Rounds == [tab : UNION {Vectors(n) : n \in Nat}, eta : Seq(Nat), others : Nat, full : BOOLEAN]

\* Who takes more than the cursors have passed takes a value that lies ahead.
LEMMA TakesAhead ==
  ASSUME NEW ws, Operands(ws), NEW tab, Cursors(ws, tab), NEW v \in Vectors(Len(ws)), NEW x \in Nat,
         Offers(ws, v, x), TotalOf(tab) < TotalOf(v)
  PROVE  \E i \in 1..Len(ws) : x <= Ahead(ws, tab, i)
<1>1. Len(ws) \in Nat /\ tab \in Vectors(Len(ws))
  BY OperandLists DEF Pos, Cursors
<1>2. PICK i \in 1..Len(ws) : tab[i] < v[i]
  BY <1>1, Pigeonhole
<1>3. tab[i] \in Nat /\ v[i] \in Nat /\ tab[i] + 1 \in Pos
  BY <1>1 DEF Vectors, Pos
<1>4. v[i] - (tab[i] + 1) \in Nat /\ v[i] = (tab[i] + 1) + (v[i] - (tab[i] + 1)) /\ v[i] # 0 /\ v[i] \in Pos
  <2>1. \A a, b \in Nat : a < b => b - (a + 1) \in Nat /\ b = (a + 1) + (b - (a + 1)) /\ b # 0 /\ b \in Pos
    BY DEF Pos
  <2> QED
    BY <1>2, <1>3, <2>1, Zenon
<1>5. heap[ws[i]] \in Lists
  BY OperandLists
<1>6. Elem(heap[ws[i]], v[i]) <= Elem(heap[ws[i]], tab[i] + 1)
  <2>1. \A n \in Nat : Elem(heap[ws[i]], (tab[i] + 1) + n) <= Elem(heap[ws[i]], tab[i] + 1)
    BY <1>3, <1>5, ListValues
  <2> QED
    BY <1>4, <2>1
<1>7. Elem(heap[ws[i]], v[i]) \in Nat /\ Elem(heap[ws[i]], tab[i] + 1) \in Nat
  BY <1>3, <1>4, <1>5, ListValues
<1>8. Elem(heap[ws[i]], v[i]) >= x
  BY <1>4 DEF Offers
<1>9. x <= Ahead(ws, tab, i)
  BY <1>6, <1>7, <1>8 DEF Ahead
<1> QED
  BY <1>9

LEMMA OneMoreTaken ==
  ASSUME NEW ws, Operands(ws), NEW r \in Rounds, Merged(ws, r), ~r.full, Open(ws, r.tab) # {},
         NEW q, q = [r EXCEPT !.eta = Append(@, Under(ws, r.tab, First(ws, r.tab))),
                              !.tab[First(ws, r.tab)] = @ + 1]
  PROVE  q \in Rounds /\ Merged(ws, q) /\ Len(q.eta) = Len(r.eta) + 1
<1> DEFINE k == Len(ws)
           tab == r.tab
           f == First(ws, tab)
           h == Under(ws, tab, f)
           n == Len(r.eta)
<1>1. k \in Nat /\ Cursors(ws, tab) /\ tab \in Vectors(k) /\ n \in Nat /\ Most(ws) \in Nat
  BY OperandLists, MostIsGreatest, LenProperties DEF Pos, Cursors, Merged
<1>2. /\ f \in 1..k /\ f \in Open(ws, tab) /\ h = Ahead(ws, tab, f) /\ h \in Nat /\ Most(ws) < h
      /\ \A i \in 1..k : Ahead(ws, tab, i) <= h
  BY <1>1, FirstIsGreatest, Heads
<1>3. tab[f] \in Nat /\ tab[f] < Len(heap[ws[f]].eta) /\ Len(heap[ws[f]].eta) \in Nat
  BY <1>1, <1>2, Heads, OperandLists DEF Open
<1>4. q.tab = Raised(tab, f, 1) /\ q.eta = Append(r.eta, h) /\ q.others = r.others /\ q.full = r.full
      /\ q = [tab |-> q.tab, eta |-> q.eta, others |-> q.others, full |-> q.full]
  BY DEF Rounds, Raised
<1>5. q.tab \in Vectors(k) /\ TotalOf(q.tab) = TotalOf(tab) + 1
      /\ \A i \in 1..k : q.tab[i] = IF i = f THEN tab[i] + 1 ELSE tab[i]
  <2>1. Raised(tab, f, 1) \in Vectors(k) /\ TotalOf(Raised(tab, f, 1)) = TotalOf(tab) + 1
    BY <1>1, <1>2, TotalRaised
  <2>2. \A i \in 1..k : Raised(tab, f, 1)[i] = IF i = f THEN tab[i] + 1 ELSE tab[i]
    BY <1>1, <1>2 DEF Raised, Vectors
  <2>3. q.tab = Raised(tab, f, 1)
    BY <1>4
  <2> HIDE DEF tab, f, k
  <2> QED
    BY <2>1, <2>2, <2>3
<1>6. /\ r.eta \in Seq(Nat) /\ q.eta \in Seq(Nat) /\ Len(q.eta) = n + 1 /\ q.eta[n + 1] = h
      /\ \A s \in 1..n : q.eta[s] = r.eta[s]
  BY <1>1, <1>2, <1>4, SMTT(30) DEF Merged
<1> HIDE DEF h
<1>7. q \in Rounds
  <2>1. q.tab \in UNION {Vectors(m) : m \in Nat}
    BY <1>1, <1>5
  <2>2. q.others \in Nat /\ q.full \in BOOLEAN
    BY <1>4 DEF Rounds
  <2> QED
    BY <1>4, <1>6, <2>1, <2>2 DEF Rounds
<1>8. Cursors(ws, q.tab)
  <2>1. \A i \in 1..k : tab[i] <= Len(heap[ws[i]].eta)
    BY <1>1 DEF Cursors
  <2> QED
    BY <1>3, <1>5, <2>1 DEF Cursors
<1>9. n > 0 => h <= r.eta[n] /\ r.eta[n] \in Nat /\ Offers(ws, tab, r.eta[n])
  <2> SUFFICES ASSUME n > 0 PROVE h <= r.eta[n] /\ r.eta[n] \in Nat /\ Offers(ws, tab, r.eta[n])
    OBVIOUS
  <2>1. r.eta # <<>> /\ r.eta[n] \in Nat
    BY <1>6
  <2> QED
    BY <1>2, <2>1 DEF Merged
<1>10. \A i \in 1..k : heap[ws[i]] \in Lists
  BY OperandLists
<1>11. Offers(ws, q.tab, h)
  <2> SUFFICES ASSUME NEW i \in 1..k, q.tab[i] # 0 PROVE Elem(heap[ws[i]], q.tab[i]) >= h
    BY DEF Offers
  <2>1. CASE i = f
    BY <1>2, <1>5, <2>1 DEF Ahead
  <2>2. CASE i # f
    <3>1. q.tab[i] = tab[i] /\ tab[i] \in Nat /\ tab[i] # 0 /\ tab[i] \in Pos
      BY <1>1, <1>5, <2>2 DEF Vectors, Pos
    <3>2. tab[i] <= TotalOf(tab) /\ TotalOf(tab) = n
      BY <1>1, PartOfTotal DEF Merged
    <3>3. n > 0
      BY <1>1, <3>1, <3>2
    <3>4. Elem(heap[ws[i]], tab[i]) >= r.eta[n] /\ Elem(heap[ws[i]], tab[i]) \in Nat
      BY <1>9, <1>10, <3>1, <3>3, ListValues DEF Offers
    <3> QED
      BY <1>2, <1>9, <3>1, <3>3, <3>4
  <2> QED
    BY <2>1, <2>2
<1>12. \A i \in 1..k : Ahead(ws, q.tab, i) <= h
  <2> SUFFICES ASSUME NEW i \in 1..k PROVE Ahead(ws, q.tab, i) <= h
    OBVIOUS
  <2>1. CASE i = f
    <3>1. tab[f] + 1 \in Pos /\ q.tab[f] + 1 = (tab[f] + 1) + 1
      BY <1>2, <1>3, <1>5 DEF Pos
    <3>2. Elem(heap[ws[f]], (tab[f] + 1) + 1) <= Elem(heap[ws[f]], tab[f] + 1)
      BY <1>2, <1>10, <3>1, ListValues
    <3> QED
      BY <1>2, <2>1, <3>1, <3>2 DEF Ahead
  <2>2. CASE i # f
    BY <1>2, <1>5, <2>2 DEF Ahead
  <2> QED
    BY <2>1, <2>2
<1>13. \A s \in 1..(n + 1) : s \in 1..n \/ s = n + 1
  BY <1>1
<1>14. TotalOf(q.tab) = n + 1 /\ TotalOf(tab) = n
  BY <1>5 DEF Merged
<1>15. \A s \in 1..(n + 1) : q.eta[s] > Most(ws) /\ (s < n + 1 => q.eta[s + 1] <= q.eta[s])
  <2> SUFFICES ASSUME NEW s \in 1..(n + 1)
               PROVE  q.eta[s] > Most(ws) /\ (s < n + 1 => q.eta[s + 1] <= q.eta[s])
    OBVIOUS
  <2>1. CASE s = n + 1
    BY <1>1, <1>2, <1>6, <2>1
  <2>2. CASE s \in 1..n /\ s < n
    <3>1. s + 1 \in 1..n
      BY <1>1, <2>2
    <3> QED
      BY <1>6, <2>2, <3>1 DEF Merged
  <2>3. CASE s = n
    <3>1. n \in 1..n /\ n > 0
      BY <1>1, <2>3
    <3> QED
      BY <1>6, <1>9, <2>3, <3>1 DEF Merged
  <2> QED
    BY <1>1, <1>13, <2>1, <2>2, <2>3
<1>16. \A s \in 1..(n + 1) : \E v \in Vectors(k) : TotalOf(v) = s /\ Offers(ws, v, q.eta[s])
  <2> SUFFICES ASSUME NEW s \in 1..(n + 1)
               PROVE  \E v \in Vectors(k) : TotalOf(v) = s /\ Offers(ws, v, q.eta[s])
    OBVIOUS
  <2>1. CASE s = n + 1
    BY <1>5, <1>6, <1>11, <1>14, <2>1
  <2>2. CASE s \in 1..n
    BY <1>6, <2>2 DEF Merged
  <2> QED
    BY <1>13, <2>1, <2>2
<1>17. \A s \in 1..(n + 1), v \in Vectors(k), x \in Nat :
         TotalOf(v) = s /\ Offers(ws, v, x) => x <= q.eta[s]
  <2> SUFFICES ASSUME NEW s \in 1..(n + 1), NEW v \in Vectors(k), NEW x \in Nat,
                      TotalOf(v) = s, Offers(ws, v, x)
               PROVE  x <= q.eta[s]
    OBVIOUS
  <2>1. CASE s = n + 1
    <3>1. TotalOf(tab) < TotalOf(v)
      BY <1>1, <1>14, <2>1
    <3>2. PICK i \in 1..k : x <= Ahead(ws, tab, i)
      BY <1>1, <3>1, TakesAhead
    <3>3. Ahead(ws, tab, i) <= h /\ Ahead(ws, tab, i) \in Nat
      BY <1>1, <1>2, Heads
    <3> QED
      BY <1>2, <1>6, <2>1, <3>2, <3>3
  <2>2. CASE s \in 1..n
    BY <1>6, <2>2 DEF Merged
  <2> QED
    BY <1>13, <2>1, <2>2
<1>18. q.others \in Nat /\ q.others = Most(ws) /\ ~q.full
  BY <1>4 DEF Merged
<1> HIDE DEF n, k, tab, f
<1>19. Merged(ws, q)
  BY <1>6, <1>8, <1>11, <1>12, <1>14, <1>15, <1>16, <1>17, <1>18 DEF Merged, k
<1> QED
  BY <1>6, <1>7, <1>19 DEF n

LEMMA NextRound ==
  ASSUME NEW ws, Operands(ws), NEW r \in Rounds, Merged(ws, r)
  PROVE  /\ Taken(ws, r) \in Rounds /\ Merged(ws, Taken(ws, r))
         /\ \/ r.full \/ Open(ws, r.tab) = {}
            \/ Taken(ws, r).full
            \/ Len(Taken(ws, r).eta) = Len(r.eta) + 1
         /\ r.full \/ Open(ws, r.tab) = {} => Taken(ws, r) = r
<1> DEFINE f == First(ws, r.tab)
           h == Under(ws, r.tab, f)
<1>1. CASE r.full \/ Open(ws, r.tab) = {}
  <2>1. Taken(ws, r) = r
    BY <1>1 DEF Taken
  <2> QED
    BY <1>1, <2>1
<1>2. CASE ~(r.full \/ Open(ws, r.tab) = {}) /\ MaxSize > 0 /\ Len(r.eta) >= MaxSize - 1
  <2> DEFINE q == [tab |-> r.tab, eta |-> r.eta, others |-> h, full |-> TRUE]
  <2>1. Taken(ws, r) = q
    BY <1>2 DEF Taken
  <2>2. q.tab = r.tab /\ q.eta = r.eta /\ q.others = h /\ q.full = TRUE
        /\ q = [tab |-> q.tab, eta |-> q.eta, others |-> q.others, full |-> q.full]
    OBVIOUS
  <2>3. Cursors(ws, r.tab) /\ r.full = FALSE
    BY <1>2 DEF Merged, Rounds
  <2>4. /\ f \in 1..Len(ws) /\ h = Ahead(ws, r.tab, f) /\ h \in Nat /\ Most(ws) < h
        /\ \A i \in 1..Len(ws) : Ahead(ws, r.tab, i) <= h
    BY <1>2, <2>3, FirstIsGreatest, Heads
  <2> HIDE DEF h, q, f
  <2>5. q \in Rounds
    BY <2>2, <2>4 DEF Rounds
  <2>6. r.eta # <<>> => h <= r.eta[Len(r.eta)]
    BY <2>4 DEF Merged
  <2>7. Most(ws) <= h
    BY <2>4, MostIsGreatest
  <2>8. Merged(ws, q)
    BY <1>2, <2>2, <2>4, <2>6, <2>7 DEF Merged
  <2> QED
    BY <1>2, <2>1, <2>2, <2>5, <2>8
<1>3. CASE ~(r.full \/ Open(ws, r.tab) = {}) /\ ~(MaxSize > 0 /\ Len(r.eta) >= MaxSize - 1)
  <2> DEFINE q == [r EXCEPT !.eta = Append(@, h), !.tab[f] = @ + 1]
  <2>1. Taken(ws, r) = q
    BY <1>3 DEF Taken
  <2>2. ~r.full /\ Open(ws, r.tab) # {}
    BY <1>3
  <2>3. q \in Rounds /\ Merged(ws, q) /\ Len(q.eta) = Len(r.eta) + 1
    BY <2>2, OneMoreTaken
  <2> HIDE DEF q
  <2> QED
    BY <1>3, <2>1, <2>3
<1> QED
  BY <1>1, <1>2, <1>3

\* The lengths of the operands.
Lengths(ws) == [i \in 1..Len(ws) |-> Len(heap[ws[i]].eta)]

LEMMA FirstRound ==
  ASSUME NEW ws, Operands(ws),
         NEW r, r = [tab |-> [i \in DOMAIN ws |-> 0], eta |-> <<>>, others |-> Most(ws), full |-> FALSE]
  PROVE  r \in Rounds /\ Merged(ws, r) /\ Len(r.eta) = 0
<1>1. Len(ws) \in Nat /\ DOMAIN ws = 1..Len(ws) /\ Most(ws) \in Nat
  BY OperandLists, MostIsGreatest DEF Pos
<1>2. r.tab \in Vectors(Len(ws)) /\ \A i \in 1..Len(ws) : r.tab[i] = 0
  BY <1>1 DEF Vectors
<1>3. r.eta = <<>> /\ r.eta \in Seq(Nat) /\ Len(r.eta) = 0 /\ r.others = Most(ws) /\ ~r.full
  OBVIOUS
<1>4. TotalOf(r.tab) = 0
  BY <1>1, <1>2, TotalOfZeros
<1>5. Cursors(ws, r.tab)
  <2>1. \A i \in 1..Len(ws) : Len(heap[ws[i]].eta) \in Nat
    BY OperandLists
  <2> QED
    BY <1>2, <2>1 DEF Cursors
<1>6. r \in Rounds
  <2>1. r.tab \in UNION {Vectors(m) : m \in Nat}
    BY <1>1, <1>2
  <2> QED
    BY <1>1, <2>1 DEF Rounds
<1>7. Merged(ws, r)
  BY <1>1, <1>3, <1>4, <1>5 DEF Merged
<1> QED
  BY <1>3, <1>6, <1>7

\* The operands are used up, or the result is full, after the last round.
LEMMA Finished ==
  ASSUME NEW ws, Operands(ws)
  PROVE  \E r \in Rounds : /\ Merged(ws, r)
                           /\ r.full \/ Open(ws, r.tab) = {}
                           /\ MaxOf(ws) = [loop |-> Innermost(ws), eta |-> r.eta, others |-> r.others]
<1> DEFINE k == Len(ws)
           rounds == TotalOf([i \in DOMAIN ws |-> Len(heap[ws[i]].eta)])
           first == [tab |-> [i \in DOMAIN ws |-> 0], eta |-> <<>>, others |-> Most(ws), full |-> FALSE]
           S == {r \in Rounds : Merged(ws, r)}
           step == [p \in (1..rounds) \X S |-> Taken(ws, p[2])]
           take[n \in 0..rounds] == IF n = 0 THEN first ELSE Taken(ws, take[n - 1])
<1>1. k \in Nat /\ DOMAIN ws = 1..k /\ \A i \in 1..k : Len(heap[ws[i]].eta) \in Nat
  BY OperandLists DEF Pos
<1>2. Lengths(ws) \in Vectors(k) /\ rounds = TotalOf(Lengths(ws)) /\ rounds \in Nat
  <2>1. Lengths(ws) \in Vectors(k)
    BY <1>1 DEF Lengths, Vectors
  <2>2. rounds = TotalOf(Lengths(ws))
    BY <1>1 DEF Lengths
  <2> QED
    BY <1>1, <2>1, <2>2, VectorSums
<1>3. MaxOf(ws) = [loop |-> Innermost(ws), eta |-> take[rounds].eta, others |-> take[rounds].others]
  BY DEF MaxOf
<1>4. first \in Rounds /\ Merged(ws, first) /\ Len(first.eta) = 0
  BY FirstRound
<1> HIDE DEF rounds, first
<1>5. first \in S /\ \A r \in S : Taken(ws, r) \in S
  BY <1>4, NextRound
<1>6. step \in [(1..rounds) \X S -> S] /\ \A n \in 1..rounds, r \in S : step[<<n, r>>] = Taken(ws, r)
  <2> HIDE DEF S
  <2> QED
    BY <1>5
<1>7. PICK g \in [0..rounds -> S] : /\ g[0] = first
                                    /\ \A n \in 1..rounds : g[n] = step[<<n, g[n - 1]>>]
  <2>1. AreSteps(rounds, S, first, step)
    <3> HIDE DEF S, step
    <3> QED
      BY <1>2, <1>5, <1>6 DEF AreSteps
  <2> HIDE DEF step, S
  <2> QED
    BY <2>1, PrefixRecursion
<1>8. \A n \in 1..rounds : n - 1 \in 0..rounds /\ g[n - 1] \in S
  <2> HIDE DEF S
  <2> QED
    BY <1>2
<1>9. \A n \in 1..rounds : g[n] = Taken(ws, g[n - 1])
  <2> HIDE DEF step, S
  <2> QED
    BY <1>6, <1>7, <1>8
<1> HIDE DEF S
<1>10. g = [n \in 0..rounds |-> IF n = 0 THEN first ELSE Taken(ws, g[n - 1])]
  <2> HIDE DEF step, take, k
  <2>1. \A n \in 0..rounds : g[n] = IF n = 0 THEN first ELSE Taken(ws, g[n - 1])
    <3>1. \A n \in 0..rounds : n # 0 => n \in 1..rounds
      BY <1>2
    <3> QED
      BY <1>7, <1>9, <3>1
  <2>2. g = [n \in 0..rounds |-> g[n]]
    BY <1>7
  <2> QED
    BY <2>1, <2>2, Zenon
<1>11. take = [n \in 0..rounds |-> IF n = 0 THEN first ELSE Taken(ws, take[n - 1])]
  BY <1>10
<1> HIDE DEF take
<1>12. take[0] = first /\ \A n \in 1..rounds : take[n] = Taken(ws, take[n - 1])
  <2>1. \A n \in 0..rounds : take[n] = IF n = 0 THEN first ELSE Taken(ws, take[n - 1])
    BY <1>11, Zenon
  <2>2. 0 \in 0..rounds /\ \A n \in 1..rounds : n \in 0..rounds /\ n # 0
    BY <1>2
  <2> QED
    BY <2>1, <2>2, Zenon
<1> DEFINE Over(r) == r.full \/ Open(ws, r.tab) = {}
           P == {n \in Nat : n <= rounds =>
                   take[n] \in S /\ (Over(take[n]) \/ Len(take[n].eta) = n)}
<1>13. 0 \in P
  BY <1>4, <1>5, <1>12
<1>14. ASSUME NEW n \in Nat, n \in P PROVE n + 1 \in P
  <2> SUFFICES ASSUME n + 1 <= rounds
               PROVE  take[n + 1] \in S /\ (Over(take[n + 1]) \/ Len(take[n + 1].eta) = n + 1)
    OBVIOUS
  <2> DEFINE r == take[n]
  <2>1. n + 1 \in 1..rounds /\ (n + 1) - 1 = n /\ n <= rounds
    BY <1>2
  <2>2. take[n + 1] = Taken(ws, r)
    BY <1>12, <2>1
  <2>3. r \in S /\ (Over(r) \/ Len(r.eta) = n)
    BY <1>14, <2>1
  <2> HIDE DEF r
  <2>4. r \in Rounds /\ Merged(ws, r) /\ Taken(ws, r) \in S
    BY <1>5, <2>3 DEF S
  <2>5. CASE Over(r)
    BY <2>2, <2>4, <2>5, NextRound
  <2>6. CASE ~Over(r)
    <3>1. Taken(ws, r).full \/ Len(Taken(ws, r).eta) = Len(r.eta) + 1
      BY <2>4, <2>6, NextRound
    <3> QED
      BY <2>2, <2>3, <2>4, <2>6, <3>1
  <2> QED
    BY <2>5, <2>6
<1>15. Nat \subseteq P
  <2> HIDE DEF P
  <2> QED
    BY <1>13, <1>14, SetInduction
<1> DEFINE r == take[rounds]
<1>16. r \in S /\ (Over(r) \/ Len(r.eta) = rounds)
  BY <1>2, <1>15
<1> HIDE DEF r
<1>17. r \in Rounds /\ Merged(ws, r)
  BY <1>16 DEF S
<1>18. Over(r)
  <2> SUFFICES ASSUME Len(r.eta) = rounds, Open(ws, r.tab) # {} PROVE FALSE
    BY <1>16
  <2>1. PICK i \in Open(ws, r.tab) : TRUE
    OBVIOUS
  <2>2. /\ r.tab \in Vectors(k) /\ TotalOf(r.tab) = rounds
        /\ \A j \in 1..k : r.tab[j] <= Lengths(ws)[j]
    BY <1>17 DEF Merged, Cursors, Lengths
  <2>3. i \in 1..k /\ r.tab[i] < Lengths(ws)[i]
    BY <1>1, <2>1 DEF Open, Lengths
  <2>4. TotalOf(r.tab) < TotalOf(Lengths(ws))
    <3> HIDE DEF k
    <3> QED
      BY <1>1, <1>2, <2>2, <2>3, TotalLess
  <2> QED
    BY <1>2, <2>2, <2>4
<1> QED
  BY <1>3, <1>17, <1>18 DEF r

\* max makes a list out of the values of all operands, the greatest ones first.
LEMMA MaxOfLists ==
  ASSUME NEW ws, Operands(ws)
  PROVE  /\ MaxOf(ws) \in Lists /\ MaxOf(ws).loop = Innermost(ws)
         /\ \A v \in Vectors(Len(ws)), x \in Nat :
              TotalOf(v) \in Pos /\ Offers(ws, v, x) => x <= Elem(MaxOf(ws), TotalOf(v))
         /\ MaxSize = 0 =>
              \A s \in Pos : \E v \in Vectors(Len(ws)) :
                TotalOf(v) = s /\ Offers(ws, v, Elem(MaxOf(ws), s))
         /\ (\A i \in 1..Len(ws) : heap[ws[i]].eta = <<>>) => MaxOf(ws).eta = <<>>
<1>1. PICK r \in Rounds : /\ Merged(ws, r)
                          /\ r.full \/ Open(ws, r.tab) = {}
                          /\ MaxOf(ws) = [loop |-> Innermost(ws), eta |-> r.eta, others |-> r.others]
  BY Finished
<1> DEFINE o == MaxOf(ws)
           k == Len(ws)
           n == Len(r.eta)
<1>2. k \in Nat /\ Most(ws) \in Nat /\ n \in Nat /\ r.others \in Nat /\ r.eta \in Seq(Nat)
      /\ Cursors(ws, r.tab) /\ r.tab \in Vectors(k) /\ TotalOf(r.tab) = n
  BY <1>1, OperandLists, MostIsGreatest, LenProperties DEF Pos, Merged, Cursors
<1>3. o.loop = Innermost(ws) /\ o.eta = r.eta /\ o.others = r.others
  BY <1>1
<1>4. o \in Objects
  BY <1>1, <1>2, InnermostLoop DEF Objects
<1> HIDE DEF o
<1>5. \A s \in Pos : Elem(o, s) = IF s <= n THEN r.eta[s] ELSE r.others
  BY <1>3 DEF Elem
<1>6. \A s \in Pos : s <= n => s \in 1..n /\ r.eta[s] \in Nat
  BY <1>2 DEF Pos
<1>7. \A i \in 1..k : Ahead(ws, r.tab, i) \in Nat /\ Ahead(ws, r.tab, i) <= r.others
  <2> SUFFICES ASSUME NEW i \in 1..k
               PROVE  Ahead(ws, r.tab, i) \in Nat /\ Ahead(ws, r.tab, i) <= r.others
    OBVIOUS
  <2>1. CASE r.full
    BY <1>1, <1>2, <2>1, Heads DEF Merged
  <2>2. CASE ~r.full
    <3>1. i \notin Open(ws, r.tab) /\ r.others = Most(ws)
      BY <1>1, <2>2 DEF Merged
    <3> QED
      BY <1>2, <3>1, Heads
  <2> QED
    BY <2>1, <2>2
<1>8. n > 0 => r.others <= r.eta[n] /\ r.eta # <<>>
  <2> SUFFICES ASSUME n > 0 PROVE r.others <= r.eta[n] /\ r.eta # <<>>
    OBVIOUS
  <2>1. r.eta # <<>> /\ n \in 1..n
    BY <1>2
  <2>2. r.eta[n] > Most(ws) /\ r.eta[n] \in Nat
    BY <1>1, <1>2, <2>1 DEF Merged
  <2> QED
    BY <1>1, <1>2, <2>1, <2>2 DEF Merged
<1>9. o \in Lists
  <2> SUFFICES ASSUME NEW s \in Pos PROVE Elem(o, s + 1) <= Elem(o, s)
    BY <1>4, IsList
  <2>1. s + 1 \in Pos /\ s \in Nat
    BY DEF Pos
  <2>2. CASE s < n
    <3>1. s \in 1..n /\ s + 1 <= n
      BY <1>2, <1>6, <2>1, <2>2
    <3>2. r.eta[s + 1] <= r.eta[s]
      BY <1>1, <2>2, <3>1 DEF Merged
    <3> QED
      BY <1>5, <2>1, <2>2, <3>1, <3>2
  <2>3. CASE s = n
    BY <1>2, <1>5, <1>8, <2>1, <2>3 DEF Pos
  <2>4. CASE s > n
    BY <1>2, <1>5, <2>1, <2>4
  <2> QED
    BY <1>2, <2>1, <2>2, <2>3, <2>4
<1>10. ASSUME NEW v \in Vectors(k), NEW x \in Nat, TotalOf(v) \in Pos, Offers(ws, v, x)
       PROVE  x <= Elem(o, TotalOf(v))
  <2>1. CASE TotalOf(v) <= n
    <3>1. TotalOf(v) \in 1..n
      BY <1>6, <1>10, <2>1
    <3>2. x <= r.eta[TotalOf(v)]
      BY <1>1, <1>10, <3>1 DEF Merged
    <3> QED
      BY <1>5, <1>10, <2>1, <3>2
  <2>2. CASE ~(TotalOf(v) <= n)
    <3>1. TotalOf(r.tab) < TotalOf(v)
      BY <1>2, <1>10, <2>2 DEF Pos
    <3>2. PICK i \in 1..k : x <= Ahead(ws, r.tab, i)
      BY <1>2, <1>10, <3>1, TakesAhead
    <3>3. Elem(o, TotalOf(v)) = r.others
      BY <1>5, <1>10, <2>2
    <3> QED
      BY <1>2, <1>7, <3>2, <3>3
  <2> QED
    BY <2>1, <2>2
<1>11. ASSUME MaxSize = 0, NEW s \in Pos
       PROVE  \E v \in Vectors(k) : TotalOf(v) = s /\ Offers(ws, v, Elem(o, s))
  <2>1. CASE s <= n
    BY <1>1, <1>5, <1>6, <2>1 DEF Merged
  <2>2. CASE ~(s <= n)
    <3>1. ~r.full /\ r.others = Most(ws)
      BY <1>1, <1>11 DEF Merged
    <3>2. PICK m \in 1..k : heap[ws[m]].others = Most(ws)
      BY MostIsGreatest
    <3> DEFINE c == s - n
               v == Raised(r.tab, m, c)
    <3>3. c \in Nat
      BY <1>2, <2>2 DEF Pos
    <3>4. v \in Vectors(k) /\ TotalOf(v) = TotalOf(r.tab) + c
      BY <1>2, <3>3, TotalRaised
    <3>5. TotalOf(v) = s
      BY <1>2, <3>3, <3>4 DEF Pos
    <3>6. \A i \in 1..k : i # m => v[i] = r.tab[i]
      BY <1>2 DEF Raised, Vectors
    <3> HIDE DEF v
    <3>7. Elem(o, s) = Most(ws)
      BY <1>5, <2>2, <3>1
    <3>8. ASSUME NEW i \in 1..k, v[i] # 0 PROVE Elem(heap[ws[i]], v[i]) >= Most(ws)
      <4>1. v[i] \in Pos /\ heap[ws[i]] \in Lists
        BY <3>4, <3>8, OperandLists DEF Vectors, Pos
      <4>2. Elem(heap[ws[i]], v[i]) \in Nat /\ heap[ws[i]].others <= Elem(heap[ws[i]], v[i])
        BY <4>1, ListValues
      <4>3. CASE i = m
        BY <1>2, <3>2, <4>2, <4>3
      <4>4. CASE i # m
        <5>1. v[i] = r.tab[i] /\ r.tab[i] # 0
          BY <3>6, <3>8, <4>4
        <5>2. r.tab[i] <= n
          BY <1>2, PartOfTotal
        <5>3. n > 0
          BY <1>2, <4>1, <5>1, <5>2 DEF Pos
        <5>4. n \in 1..n /\ r.eta # <<>>
          BY <1>2, <1>8, <5>3
        <5>5. Elem(heap[ws[i]], r.tab[i]) >= r.eta[n] /\ r.eta[n] > Most(ws) /\ r.eta[n] \in Nat
          <6>1. r.eta[n] > Most(ws) /\ Offers(ws, r.tab, r.eta[n])
            BY <1>1, <5>4 DEF Merged
          <6> QED
            BY <1>2, <5>1, <5>4, <6>1 DEF Offers
        <5> QED
          BY <1>2, <4>2, <5>1, <5>5
      <4> QED
        BY <4>3, <4>4
    <3>9. Offers(ws, v, Elem(o, s))
      BY <3>7, <3>8 DEF Offers
    <3> QED
      BY <3>4, <3>5, <3>9
  <2> QED
    BY <2>1, <2>2
<1>12. ASSUME \A i \in 1..k : heap[ws[i]].eta = <<>> PROVE o.eta = <<>>
  <2>1. \A i \in 1..k : r.tab[i] = 0
    <3> SUFFICES ASSUME NEW i \in 1..k PROVE r.tab[i] = 0
      OBVIOUS
    <3>1. Len(heap[ws[i]].eta) = 0
      BY <1>12
    <3>2. r.tab[i] <= Len(heap[ws[i]].eta)
      BY <1>2 DEF Cursors
    <3>3. r.tab[i] \in Nat
      BY <1>2 DEF Vectors
    <3> QED
      BY <3>1, <3>2, <3>3
  <2>2. n = 0
    BY <1>2, <2>1, TotalOfZeros
  <2> QED
    BY <1>2, <1>3, <2>2, EmptySeq
<1> QED
  BY <1>3, <1>9, <1>10, <1>11, <1>12 DEF o

-----------------------------------------------------------------------------
(* iterate, multiply, prune, annot                                         *)

LEMMA DivMod ==
  ASSUME NEW a \in Nat, NEW d \in Pos
  PROVE  a \div d \in Nat /\ a < d * (a \div d) + d /\ d * (a \div d) <= a
BY DEF Pos

LEMMA PacksCover ==
  ASSUME NEW n \in Nat, NEW d \in Pos
  PROVE  Packs(n, d) \in Nat /\ n <= Packs(n, d) * d
<1>1. CASE n = 0
  BY <1>1 DEF Packs, Idiv, Pos
<1>2. CASE n # 0
  <2> DEFINE q == (n - 1) \div d
  <2>1. q \in Nat /\ n - 1 < d * q + d /\ d * q <= n - 1
    BY <1>2, DivMod
  <2>2. Idiv(n, d) = q
    BY <1>2 DEF Idiv
  <2> HIDE DEF q
  <2>3. d * q \in Nat /\ (q + 1) * d = d * q + d
    BY <2>1 DEF Pos
  <2>4. Packs(n, d) = q + 1
    BY <2>1, <2>2, <2>3 DEF Packs
  <2> QED
    BY <2>1, <2>3, <2>4 DEF Pos
<1> QED
  BY <1>1, <1>2

\* Behind the values that are listed, others is repeated.
LEMMA RunOfLast ==
  ASSUME NEW o \in Lists, NEW d \in Nat, d >= Len(o.eta), NEW n \in Nat
  PROVE  Run(o, d + 1, n) = o.others * n
<1> DEFINE T == AP!Total(MW(o))
<1>1. MW(o) \in AP!MultiWcets
  BY ListValues DEF AP!DecreasingWcets
<1>2. T \in [Nat -> Nat] /\ \A k \in Nat : T[k + 1] = T[k] + AP!Value(MW(o), k + 1)
  BY <1>1, AP!TotalDef DEF AP!IsTotal
<1>3. Len(o.eta) \in Nat /\ o.others \in Nat
  BY LenProperties DEF Lists, Objects
<1>4. \A k \in Nat : k >= d => AP!Value(MW(o), k + 1) = o.others
  <2> SUFFICES ASSUME NEW k \in Nat, k >= d PROVE AP!Value(MW(o), k + 1) = o.others
    OBVIOUS
  <2>1. k + 1 \in Pos /\ k + 1 > Len(o.eta)
    BY <1>3 DEF Pos
  <2>2. Elem(o, k + 1) = o.others
    BY <1>3, <2>1 DEF Elem
  <2> QED
    BY <2>1, <2>2, ListValues
<1> DEFINE P == {k \in Nat : T[d + k] = T[d] + o.others * k}
<1> HIDE DEF T
<1>5. 0 \in P
  BY <1>2, <1>3
<1>6. ASSUME NEW k \in Nat, k \in P PROVE k + 1 \in P
  <2>1. d + k \in Nat /\ d + k >= d /\ d + (k + 1) = (d + k) + 1 /\ k + 1 \in Nat
    OBVIOUS
  <2>2. T[(d + k) + 1] = T[d + k] + o.others
    BY <1>2, <1>4, <2>1
  <2>3. \A c \in Nat : c * (k + 1) = c * k + c /\ c * k \in Nat
    OBVIOUS
  <2>4. o.others * (k + 1) = o.others * k + o.others /\ o.others * k \in Nat
    BY <1>3, <2>3, Zenon
  <2>5. T[d + k] = T[d] + o.others * k
    BY <1>6
  <2>6. T[d] \in Nat
    BY <1>2
  <2>7. T[d + (k + 1)] = T[d] + o.others * (k + 1)
    <3> DEFINE a == o.others * k
               b == o.others * (k + 1)
    <3>1. b = a + o.others /\ a \in Nat /\ T[d + k] = T[d] + a
      BY <2>4, <2>5
    <3> HIDE DEF a, b
    <3>2. T[d + (k + 1)] = T[d] + b
      BY <1>3, <2>1, <2>2, <2>6, <3>1
    <3> QED
      BY <3>2 DEF b
  <2> HIDE DEF T
  <2> QED
    BY <2>1, <2>7, Zenon
<1>7. Nat \subseteq P
  <2> HIDE DEF P
  <2> QED
    BY <1>5, <1>6, SetInduction
<1>8. T[d + n] = T[d] + o.others * n
  BY <1>7
<1>9. Run(o, d + 1, n) \in Nat /\ T[d + n] = T[d] + Run(o, d + 1, n)
  <2>1. Run(o, d + 1, n) \in Nat /\ Run(o, d + 1, n) = AP!ValSum(n, d, MW(o))
    BY RunIsSum
  <2>2. T[d + n] = T[d] + AP!ValSum(n, d, MW(o))
    BY <1>1, AP!ValSumOfTotal DEF T
  <2> QED
    BY <2>1, <2>2
<1>10. T[d] \in Nat
  BY <1>2
<1>11. o.others * n \in Nat
  BY <1>3
<1> QED
  BY <1>8, <1>9, <1>10, <1>11

Nothing == [loop |-> LOOP_TOP, eta |-> <<>>, others |-> 0]

LEMMA NothingIsList ==
  Nothing \in Lists /\ \A i \in Pos : Elem(Nothing, i) = 0
BY DEF Nothing, Lists, Objects, Decreases, Elem, Pos, LOOP_TOP

LEMMA NotIterated ==
  ASSUME NEW o, NEW loop, NEW bound \in Int, bound <= 0
  PROVE  Iterated(o, loop, bound) = Nothing
BY DEF Iterated, Nothing

\* The loop itself: its bound many of the values are added.
LEMMA IteratedHere ==
  ASSUME NEW o \in Lists, NEW bound \in Pos
  PROVE  LET x == Iterated(o, o.loop, bound) IN
         /\ x \in Lists /\ x.loop = LOOP_TOP /\ x.eta = <<>>
         /\ \A i \in Pos : Elem(x, i) = AP!ValSum(bound, 0, MW(o))
<1> DEFINE x == Iterated(o, o.loop, bound)
<1>1. Run(o, 0 + 1, bound) \in Nat /\ Run(o, 0 + 1, bound) = AP!ValSum(bound, 0, MW(o))
  BY RunIsSum DEF Pos
<1>2. Run(o, 1, bound) \in Nat /\ Run(o, 1, bound) = AP!ValSum(bound, 0, MW(o))
  <2>1. 0 + 1 = 1
    OBVIOUS
  <2> QED
    BY <1>1, <2>1
<1>3. x = [loop |-> LOOP_TOP, eta |-> <<>>, others |-> Run(o, 1, bound)]
  BY DEF Iterated, Pos
<1> HIDE DEF x
<1>4. x.loop = LOOP_TOP /\ x.eta = <<>> /\ x.others = Run(o, 1, bound) /\ x \in Objects
  BY <1>2, <1>3 DEF Objects, LOOP_TOP
<1>5. x \in Lists
  BY <1>4 DEF Lists, Decreases
<1>6. \A i \in Pos : Elem(x, i) = x.others
  BY <1>4 DEF Elem, Pos
<1> QED
  BY <1>2, <1>4, <1>5, <1>6 DEF x

\* A loop around: the values are packed.
LEMMA IteratedAround ==
  ASSUME NEW o \in Lists, NEW loop, loop # o.loop, NEW bound \in Pos
  PROVE  LET x == Iterated(o, loop, bound) IN
         /\ x \in Lists /\ x.loop = o.loop /\ (o.eta = <<>> => x.eta = <<>>)
         /\ \A i \in Pos : Elem(x, i) = AP!Value(AP!Pack(bound, MW(o)), i)
<1> DEFINE x == Iterated(o, loop, bound)
           n == Packs(Len(o.eta), bound)
           at(i) == Run(o, (i - 1) * bound + 1, bound)
<1>1. o.loop \in Int /\ o.eta \in Seq(Nat) /\ o.others \in Nat /\ Len(o.eta) \in Nat
  BY LenProperties DEF Lists, Objects
<1>2. n \in Nat /\ Len(o.eta) <= n * bound
  BY <1>1, PacksCover
<1>3. x = [loop |-> o.loop, eta |-> [i \in 1..n |-> at(i)], others |-> o.others * bound]
  BY DEF Iterated, Pos
<1>4. MW(o) \in AP!DecreasingWcets /\ AP!Pack(bound, MW(o)) \in AP!DecreasingWcets
      /\ \A j \in Nat : AP!Value(AP!Pack(bound, MW(o)), j + 1) = AP!ValSum(bound, j * bound, MW(o))
  BY ListValues, AP!PackValues DEF Pos
<1>5. ASSUME NEW i \in Pos
      PROVE  /\ at(i) \in Nat /\ at(i) = AP!Value(AP!Pack(bound, MW(o)), i)
             /\ i > n => at(i) = o.others * bound
  <2> DEFINE j == i - 1
             d == j * bound
  <2>1. j \in Nat /\ j + 1 = i /\ d \in Nat /\ bound \in Nat
    BY DEF Pos
  <2> HIDE DEF d
  <2>2. at(i) = Run(o, d + 1, bound)
    BY DEF d
  <2> HIDE DEF at
  <2>3. at(i) \in Nat /\ at(i) = AP!ValSum(bound, d, MW(o))
    BY <2>1, <2>2, RunIsSum
  <2>4. AP!Value(AP!Pack(bound, MW(o)), j + 1) = AP!ValSum(bound, j * bound, MW(o))
    BY <1>4, <2>1
  <2>5. i > n => d >= Len(o.eta)
    <3> SUFFICES ASSUME i > n PROVE d >= Len(o.eta)
      OBVIOUS
    <3>1. n <= j
      BY <1>2, <2>1
    <3>2. n * bound <= j * bound
      BY <1>2, <2>1, <3>1, AP!TimesMonotone, n * bound = bound * n, j * bound = bound * j
    <3>3. n * bound \in Nat
      BY <1>2, <2>1
    <3> QED
      BY <1>1, <1>2, <2>1, <3>2, <3>3 DEF d
  <2>6. i > n => at(i) = o.others * bound
    BY <2>1, <2>2, <2>5, RunOfLast
  <2> QED
    BY <2>1, <2>3, <2>4, <2>6 DEF d
<1> HIDE DEF x, at
<1>6. x.loop = o.loop /\ x.eta = [i \in 1..n |-> at(i)] /\ x.others = o.others * bound
  BY <1>3
<1>7. 1..n \subseteq Pos
  BY DEF Pos
<1>8. x.eta \in Seq(Nat) /\ Len(x.eta) = n
  <2>1. \A i \in 1..n : at(i) \in Nat
    BY <1>5, <1>7
  <2> QED
    BY <1>2, <1>6, <2>1
<1>9. x \in Objects
  <2>1. x.others \in Nat
    BY <1>1, <1>6 DEF Pos
  <2> QED
    BY <1>1, <1>3, <1>6, <1>8, <2>1 DEF Objects
<1>10. \A i \in Pos : Elem(x, i) = at(i)
  <2> SUFFICES ASSUME NEW i \in Pos PROVE Elem(x, i) = at(i)
    OBVIOUS
  <2>1. CASE i <= n
    BY <1>2, <1>6, <1>8, <2>1 DEF Elem, Pos
  <2>2. CASE ~(i <= n)
    <3>1. i > n
      BY <1>2, <2>2 DEF Pos
    <3> QED
      BY <1>5, <1>6, <1>8, <2>2, <3>1 DEF Elem
  <2> QED
    BY <2>1, <2>2
<1>11. \A i \in Pos : Elem(x, i + 1) <= Elem(x, i)
  <2> SUFFICES ASSUME NEW i \in Pos PROVE Elem(x, i + 1) <= Elem(x, i)
    OBVIOUS
  <2>1. i + 1 \in Pos
    BY DEF Pos
  <2>2. AP!Value(AP!Pack(bound, MW(o)), i + 1) <= AP!Value(AP!Pack(bound, MW(o)), i)
    BY <1>4 DEF AP!DecreasingWcets, AP!IsDecreasing, Pos
  <2> QED
    BY <1>5, <1>10, <2>1, <2>2
<1>12. x \in Lists
  BY <1>9, <1>11, IsList
<1>13. o.eta = <<>> => x.eta = <<>>
  <2> SUFFICES ASSUME o.eta = <<>> PROVE x.eta = <<>>
    OBVIOUS
  <2>1. n = 0
    BY DEF Packs, Idiv, Pos
  <2> QED
    BY <1>6, <2>1
<1> QED
  BY <1>5, <1>6, <1>10, <1>12, <1>13 DEF x

LEMMA MultipliedLists ==
  ASSUME NEW o \in Lists, NEW k \in Nat
  PROVE  LET x == Multiplied(o, k) IN
         /\ x \in Lists /\ x.loop = o.loop /\ (o.eta = <<>> => x.eta = <<>>)
         /\ \A i \in Pos : Elem(x, i) = k * Elem(o, i)
<1> DEFINE x == Multiplied(o, k)
<1>1. /\ o.loop \in Int /\ o.eta \in Seq(Nat) /\ o.others \in Nat /\ Len(o.eta) \in Nat
      /\ DOMAIN o.eta = 1..Len(o.eta) /\ \A i \in DOMAIN o.eta : o.eta[i] \in Nat
  BY LenProperties, ElementOfSeq DEF Lists, Objects
<1>2. x = [loop |-> o.loop, eta |-> [i \in DOMAIN o.eta |-> o.eta[i] * k], others |-> o.others * k]
  BY DEF Multiplied, Lists, Objects
<1> HIDE DEF x
<1>3. x.loop = o.loop /\ x.eta = [i \in DOMAIN o.eta |-> o.eta[i] * k] /\ x.others = o.others * k
  BY <1>2
<1>4. x.eta \in Seq(Nat) /\ Len(x.eta) = Len(o.eta)
  <2>1. \A i \in 1..Len(o.eta) : o.eta[i] * k \in Nat
    BY <1>1
  <2> QED
    BY <1>1, <1>3, <2>1
<1>5. x \in Objects
  <2>1. x.others \in Nat
    BY <1>1, <1>3
  <2> QED
    BY <1>1, <1>2, <1>3, <1>4, <2>1 DEF Objects
<1>6. \A i \in Pos : Elem(x, i) = k * Elem(o, i)
  <2> SUFFICES ASSUME NEW i \in Pos PROVE Elem(x, i) = k * Elem(o, i)
    OBVIOUS
  <2>1. Elem(x, i) = Elem(o, i) * k
    BY <1>1, <1>3, <1>4 DEF Elem, Pos
  <2>2. Elem(o, i) \in Nat
    BY ListValues
  <2> QED
    BY <2>1, <2>2
<1>7. x \in Lists
  <2> SUFFICES ASSUME NEW i \in Pos PROVE Elem(x, i + 1) <= Elem(x, i)
    BY <1>5, IsList
  <2>1. i + 1 \in Pos /\ Elem(o, i + 1) \in Nat /\ Elem(o, i) \in Nat /\ Elem(o, i + 1) <= Elem(o, i)
    BY ListValues DEF Pos
  <2> QED
    BY <1>6, <2>1, AP!TimesMonotone
<1>8. o.eta = <<>> => x.eta = <<>>
  BY <1>3
<1> QED
  BY <1>3, <1>6, <1>7, <1>8 DEF x

\* prune puts the first value that is dropped behind those that are kept.
LEMMA PrunedLists ==
  ASSUME NEW o \in Lists, MaxSize \in Nat
  PROVE  LET x == Pruned(o) IN
         /\ x \in Lists /\ x.loop = o.loop /\ (o.eta = <<>> => x.eta = <<>>)
         /\ \A i \in Pos : Elem(o, i) <= Elem(x, i)
         /\ MaxSize = 0 => x = o
<1> DEFINE x == Pruned(o)
<1>1. /\ o.loop \in Int /\ o.eta \in Seq(Nat) /\ o.others \in Nat /\ Len(o.eta) \in Nat
      /\ DOMAIN o.eta = 1..Len(o.eta) /\ \A i \in 1..Len(o.eta) : o.eta[i] \in Nat
  BY LenProperties, ElementOfSeq DEF Lists, Objects
<1>2. CASE ~(MaxSize > 0 /\ Len(o.eta) >= MaxSize)
  <2>1. x = o
    BY <1>2 DEF Pruned
  <2>2. \A i \in Pos : Elem(o, i) <= Elem(o, i)
    BY ListValues
  <2> QED
    BY <2>1, <2>2
<1>3. CASE MaxSize > 0 /\ Len(o.eta) >= MaxSize
  <2> DEFINE m == MaxSize - 1
  <2>1. x = [loop |-> o.loop, eta |-> SubSeq(o.eta, 1, m), others |-> o.eta[MaxSize]]
    BY <1>3 DEF Pruned
  <2> HIDE DEF x
  <2>2. m \in Nat /\ m + 1 = MaxSize /\ m < Len(o.eta) /\ m + 1 \in Pos /\ m + 1 \in 1..Len(o.eta)
    BY <1>1, <1>3 DEF Pos
  <2> HIDE DEF m
  <2>3. /\ x.loop = o.loop /\ x.others = o.eta[m + 1] /\ x.others \in Nat
        /\ x.eta \in Seq(Nat) /\ Len(x.eta) = m /\ \A i \in 1..m : x.eta[i] = o.eta[i]
    BY <1>1, <2>1, <2>2
  <2>4. x \in Objects
    BY <1>1, <2>1, <2>3 DEF Objects
  <2>5. \A i \in Pos : Elem(x, i) = IF i <= m THEN Elem(o, i) ELSE Elem(o, m + 1)
    <3> SUFFICES ASSUME NEW i \in Pos PROVE Elem(x, i) = IF i <= m THEN Elem(o, i) ELSE Elem(o, m + 1)
      OBVIOUS
    <3>1. Elem(o, m + 1) = o.eta[m + 1]
      BY <2>2 DEF Elem
    <3>2. i <= m => i \in 1..m /\ i <= Len(o.eta)
      BY <1>1, <2>2 DEF Pos
    <3> QED
      BY <2>3, <3>1, <3>2 DEF Elem
  <2>6. \A i \in Pos : /\ Elem(o, i) \in Nat /\ Elem(o, m + 1) \in Nat
                       /\ i + 1 \in Pos /\ Elem(o, i + 1) <= Elem(o, i)
                       /\ i > m => Elem(o, i) <= Elem(o, m + 1)
    <3> SUFFICES ASSUME NEW i \in Pos
                 PROVE  /\ Elem(o, i) \in Nat /\ Elem(o, m + 1) \in Nat
                        /\ i + 1 \in Pos /\ Elem(o, i + 1) <= Elem(o, i)
                        /\ i > m => Elem(o, i) <= Elem(o, m + 1)
      OBVIOUS
    <3>1. Elem(o, i) \in Nat /\ Elem(o, m + 1) \in Nat /\ i + 1 \in Pos /\ Elem(o, i + 1) <= Elem(o, i)
      BY <2>2, ListValues DEF Pos
    <3>2. ASSUME i > m PROVE Elem(o, i) <= Elem(o, m + 1)
      <4>1. i - (m + 1) \in Nat /\ i = (m + 1) + (i - (m + 1))
        BY <2>2, <3>2 DEF Pos
      <4>2. \A n \in Nat : Elem(o, (m + 1) + n) <= Elem(o, m + 1)
        BY <2>2, ListValues
      <4> QED
        BY <4>1, <4>2
    <3> QED
      BY <3>1, <3>2
  <2>7. x \in Lists
    <3> SUFFICES ASSUME NEW i \in Pos PROVE Elem(x, i + 1) <= Elem(x, i)
      BY <2>4, IsList
    <3>1. CASE i + 1 <= m
      BY <2>2, <2>5, <2>6, <3>1 DEF Pos
    <3>2. CASE i = m
      BY <2>2, <2>5, <2>6, <3>2 DEF Pos
    <3>3. CASE i > m
      BY <2>2, <2>5, <2>6, <3>3 DEF Pos
    <3> QED
      BY <2>2, <3>1, <3>2, <3>3 DEF Pos
  <2>8. \A i \in Pos : Elem(o, i) <= Elem(x, i)
    <3> SUFFICES ASSUME NEW i \in Pos PROVE Elem(o, i) <= Elem(x, i)
      OBVIOUS
    <3>1. CASE i <= m
      BY <2>5, <2>6, <3>1
    <3>2. CASE i > m
      BY <2>2, <2>5, <2>6, <3>2 DEF Pos
    <3> QED
      BY <2>2, <3>1, <3>2 DEF Pos
  <2>9. o.eta # <<>> /\ MaxSize # 0
    BY <1>1, <1>3, <2>2
  <2> QED
    BY <2>3, <2>7, <2>8, <2>9 DEF x
<1> QED
  BY <1>2, <1>3

\* annot keeps the values up to its limit; others covers those the arrays cannot hold.
LEMMA AnnotatedLists ==
  ASSUME NEW o \in Lists, MaxSize \in Nat, NEW loop \in Int, NEW limit \in Nat, AnnotLimit(limit) >= 0
  PROVE  LET x == Annotated(o, loop, limit) IN
         /\ x \in Lists /\ MaxSize # 0
         /\ \A i \in Pos : i <= limit => Elem(o, i) <= Elem(x, i)
<1> DEFINE x == Annotated(o, loop, limit)
           m == AnnotLimit(limit)
<1>1. o.loop \in Int /\ o.eta \in Seq(Nat) /\ o.others \in Nat /\ Len(o.eta) \in Nat
  BY LenProperties DEF Lists, Objects
<1>2. m \in Nat /\ m <= limit /\ (m # limit => m + 1 = MaxSize) /\ MaxSize # 0 /\ m + 1 \in Pos
  BY DEF AnnotLimit, Pos
<1>3. x = [loop |-> IF o.eta = <<>> \/ LoopInner(loop, o.loop) THEN loop ELSE o.loop,
           eta |-> [i \in 1..m |-> Elem(o, i)], others |-> OthersKept(o, limit)]
  BY DEF Annotated
<1>4. OthersKept(o, limit) = IF m = limit THEN 0 ELSE Elem(o, m + 1)
  <2>1. CASE m = limit
    BY <2>1 DEF OthersKept
  <2>2. CASE m # limit
    BY <1>1, <1>2, <2>2 DEF OthersKept, Elem
  <2> QED
    BY <2>1, <2>2
<1> HIDE DEF x, m
<1>5. x.eta = [i \in 1..m |-> Elem(o, i)] /\ x.others = IF m = limit THEN 0 ELSE Elem(o, m + 1)
  BY <1>3, <1>4
<1>6. \A i \in Pos : Elem(o, i) \in Nat /\ i + 1 \in Pos /\ Elem(o, i + 1) <= Elem(o, i)
  BY ListValues DEF Pos
<1>7. x.eta \in Seq(Nat) /\ Len(x.eta) = m
  <2>1. \A i \in 1..m : Elem(o, i) \in Nat
    BY <1>6 DEF Pos
  <2> QED
    BY <1>2, <1>5, <2>1
<1>8. x \in Objects
  <2>1. x.others \in Nat
    BY <1>2, <1>5, <1>6
  <2>2. x.loop \in Int
    BY <1>1, <1>3
  <2>3. x = [loop |-> x.loop, eta |-> x.eta, others |-> x.others]
    BY <1>3
  <2> QED
    BY <1>7, <2>1, <2>2, <2>3 DEF Objects
<1>9. \A i \in Pos : Elem(x, i) = IF i <= m THEN Elem(o, i) ELSE x.others
  <2> SUFFICES ASSUME NEW i \in Pos PROVE Elem(x, i) = IF i <= m THEN Elem(o, i) ELSE x.others
    OBVIOUS
  <2>1. i <= m => i \in 1..m
    BY <1>2 DEF Pos
  <2> QED
    BY <1>5, <1>7, <2>1 DEF Elem
<1>10. x \in Lists
  <2> SUFFICES ASSUME NEW i \in Pos PROVE Elem(x, i + 1) <= Elem(x, i)
    BY <1>8, IsList
  <2>1. x.others \in Nat
    BY <1>8 DEF Objects
  <2>2. CASE i + 1 <= m
    BY <1>2, <1>6, <1>9, <2>2 DEF Pos
  <2>3. CASE i = m
    <3>1. Elem(x, i) = Elem(o, m) /\ Elem(x, i + 1) = x.others
      BY <1>2, <1>6, <1>9, <2>3 DEF Pos
    <3>2. x.others = 0 \/ x.others = Elem(o, m + 1)
      BY <1>5
    <3> QED
      BY <1>6, <2>3, <3>1, <3>2
  <2>4. CASE i > m
    BY <1>2, <1>6, <1>9, <2>1, <2>4 DEF Pos
  <2> QED
    BY <1>2, <2>2, <2>3, <2>4 DEF Pos
<1>11. ASSUME NEW i \in Pos, i <= limit PROVE Elem(o, i) <= Elem(x, i)
  <2>1. CASE i <= m
    BY <1>6, <1>9, <2>1
  <2>2. CASE i > m
    <3>1. m # limit /\ i - (m + 1) \in Nat /\ i = (m + 1) + (i - (m + 1))
      BY <1>2, <1>11, <2>2 DEF Pos
    <3>2. \A n \in Nat : Elem(o, (m + 1) + n) <= Elem(o, m + 1)
      BY <1>2, ListValues
    <3>3. Elem(o, i) <= Elem(o, m + 1)
      BY <3>1, <3>2
    <3>4. Elem(x, i) = Elem(o, m + 1)
      BY <1>2, <1>5, <1>9, <2>2, <3>1 DEF Pos
    <3> QED
      BY <3>3, <3>4
  <2> QED
    BY <1>2, <2>1, <2>2 DEF Pos
<1> QED
  BY <1>2, <1>10, <1>11 DEF x

-----------------------------------------------------------------------------
(* The algebra                                                             *)

V(m, i) == AP!Value(m, i)

\* The algebra of the soundness properties is the one that is proved about.
LEMMA SameAlgebra ==
  /\ \A m, i : Algebra!Value(m, i) = V(m, i)
  /\ \A w1, l : Algebra!MWcet(w1, l) = AP!MWcet(w1, l)
  /\ \A l, m : Algebra!AWcet(l, m) = AP!AWcet(l, m)
  /\ \A x, l, n : Algebra!Pow(x, Algebra!Bot, l, n) = AP!Pow(x, AP!Bot, l, n)
  /\ \A k, x : Algebra!Prod(k, x) = AP!Prod(k, x)
  /\ \A x, l, n : Algebra!Annot(x, l, n) = AP!Annot(x, l, n)
  /\ Algebra!Bot = AP!Bot
  /\ \A xs : Algebra!SumAll(xs) = AP!SumAll(xs)
  /\ \A xs : Algebra!UnionAll(xs) = AP!UnionAll(xs)
<1> USE DEF Algebra!Insert, AP!Insert, Algebra!MergeOne, AP!MergeOne, Algebra!MWcet, AP!MWcet,
            Algebra!Value, AP!Value, Algebra!InsertAt, AP!InsertAt, Algebra!AWcet, AP!AWcet,
            Algebra!Glb, AP!Glb, Algebra!ImmContained, AP!ImmContained
<1>1. \A m, i : Algebra!Value(m, i) = V(m, i)
  BY DEF V
<1>2. \A a, b : Algebra!SumMWcet(a, b) = AP!SumMWcet(a, b)
  BY DEF Algebra!SumMWcet, AP!SumMWcet
<1>3. \A a, b : Algebra!UnionMWcet(a, b) = AP!UnionMWcet(a, b)
  BY DEF Algebra!UnionMWcet, AP!UnionMWcet
<1>4. \A k, m : Algebra!ProdMWcet(k, m) = AP!ProdMWcet(k, m)
  BY DEF Algebra!ProdMWcet, AP!ProdMWcet
<1>5. \A k, m : Algebra!KeepFirst(k, m) = AP!KeepFirst(k, m)
  BY DEF Algebra!KeepFirst, AP!KeepFirst
<1>6. \A k, m : Algebra!Pack(k, m) = AP!Pack(k, m)
  BY DEF Algebra!Pack, AP!Pack, Algebra!ValSum, AP!ValSum
<1>7. \A k, d, m : Algebra!ValSum(k, d, m) = AP!ValSum(k, d, m)
  BY DEF Algebra!ValSum, AP!ValSum
<1>8. Algebra!Bot = AP!Bot
  BY DEF Algebra!Bot, AP!Bot
<1>9. /\ \A w1, l : Algebra!MWcet(w1, l) = AP!MWcet(w1, l)
      /\ \A l, m : Algebra!AWcet(l, m) = AP!AWcet(l, m)
      /\ \A l, k : Algebra!Glb(l, k) = AP!Glb(l, k)
  OBVIOUS
<1>10. \A x, y : Algebra!Sum(x, y) = AP!Sum(x, y) /\ Algebra!Union(x, y) = AP!Union(x, y)
  BY <1>2, <1>3, Zenon DEF Algebra!Sum, AP!Sum, Algebra!Union, AP!Union
<1>11. \A x, l, n : Algebra!Pow(x, Algebra!Bot, l, n) = AP!Pow(x, AP!Bot, l, n)
  BY <1>2, <1>6, <1>7, <1>8, Zenon DEF Algebra!Pow, AP!Pow
<1>12. \A k, x : Algebra!Prod(k, x) = AP!Prod(k, x)
  BY <1>4, Zenon DEF Algebra!Prod, AP!Prod
<1>13. \A x, l, n : Algebra!Annot(x, l, n) = AP!Annot(x, l, n)
  BY <1>5, Zenon DEF Algebra!Annot, AP!Annot
<1>14. \A xs : Algebra!Sums(xs) = AP!Sums(xs) /\ Algebra!Unions(xs) = AP!Unions(xs)
  BY <1>10, Zenon DEF Algebra!Sums, AP!Sums, Algebra!Unions, AP!Unions
<1>15. \A xs : Algebra!SumAll(xs) = AP!SumAll(xs) /\ Algebra!UnionAll(xs) = AP!UnionAll(xs)
  BY <1>14, Zenon DEF Algebra!SumAll, AP!SumAll, Algebra!UnionAll, AP!UnionAll
<1> QED
  BY <1>1, <1>8, <1>9, <1>11, <1>12, <1>13, <1>15, Zenon

\* So are its sums and vectors.
LEMMA SameTotals ==
  /\ \A s : AP!TotalOf(s) = TotalOf(s)
  /\ \A n : AP!Vectors(n) = Vectors(n)
  /\ AP!Pos = Pos
  /\ LOOP_TOP \in Int
BY DEF AP!TotalOf, TotalOf, AP!Vectors, Vectors, AP!Pos, Pos, LOOP_TOP

\* And so are its loops.
LEMMA SameGlb == \A l, k : Algebra!Glb(l, k) = AP!Glb(l, k)
BY DEF Algebra!Glb, AP!Glb, Algebra!ImmContained, AP!ImmContained

\* The innermost of two loops, as loop_inner tells it.
LEMMA InnerGlb ==
  \A l, k : AP!Glb(l, k) = IF l = LOOP_TOP \/ LoopInner(k, l) THEN k ELSE l
BY DEF AP!Glb, AP!ImmContained, LoopInner

\* The loop of a sum, and of a union, is the innermost one.
LEMMA FoldedLoop ==
  ASSUME NEW xs, AP!AreWcets(xs), NEW u, NEW op,
         op \in {AP!SumOp, AP!UnionOp}, AP!AreFolds(u, xs, op),
         NEW ws, Operands(ws), Len(ws) = Len(xs), \A i \in 1..Len(xs) : heap[ws[i]].loop = xs[i].loop
  PROVE  u[Len(xs)].loop = Innermost(ws)
<1> DEFINE n == Len(xs)
<1>1. n \in Pos /\ n \in 1..n /\ 1 \in 1..n /\ \A i \in 1..n : xs[i] \in AP!AWcets /\ u[i] \in AP!AWcets
  BY AP!Wcets DEF AP!AreFolds, Pos
<1>2. \A x, y \in AP!AWcets : op[<<x, y>>].loop = AP!Glb(x.loop, y.loop)
  <2>1. \A x, y \in AP!AWcets : AP!Sum(x, y).loop = AP!Glb(x.loop, y.loop)
    BY AP!SumLaw
  <2>2. \A x, y \in AP!AWcets : AP!Union(x, y).loop = AP!Glb(x.loop, y.loop)
    BY AP!UnionLaw
  <2>3. \A x, y \in AP!AWcets : AP!SumOp[<<x, y>>] = AP!Sum(x, y) /\ AP!UnionOp[<<x, y>>] = AP!Union(x, y)
    BY AP!Ops
  <2>4. CASE op = AP!SumOp
    BY <2>1, <2>3, <2>4, Zenon
  <2>5. CASE op = AP!UnionOp
    BY <2>2, <2>3, <2>5, Zenon
  <2> QED
    BY <2>4, <2>5
<1>3. PICK in : AreInnermost(in, ws) /\ Innermost(ws) = in[Len(ws)]
  BY InnermostLoops
<1>4. \A i \in 1..n : in[i] = AP!Glb(in[i - 1], xs[i].loop)
  BY <1>3, AP!GlbLaw, InnerGlb DEF AreInnermost
<1> DEFINE P == {i \in Nat : i + 1 \in 1..n => u[i + 1].loop = in[i + 1]}
<1>5. 0 \in P
  <2>1. in[1] = AP!Glb(LOOP_TOP, xs[1].loop)
    BY <1>1, <1>3, <1>4 DEF AreInnermost
  <2>2. in[1] = xs[1].loop /\ u[1] = xs[1]
    BY <2>1, AP!GlbLaw DEF AP!AreFolds
  <2> QED
    BY <2>2
<1>6. ASSUME NEW i \in Nat, i \in P PROVE i + 1 \in P
  <2> SUFFICES ASSUME (i + 1) + 1 \in 1..n PROVE u[(i + 1) + 1].loop = in[(i + 1) + 1]
    OBVIOUS
  <2>1. i + 1 \in 1..n /\ ((i + 1) + 1) - 1 = i + 1 /\ (i + 1) + 1 # 1
    BY <1>1 DEF Pos
  <2>2. u[(i + 1) + 1] = op[<<u[i + 1], xs[(i + 1) + 1]>>]
    BY <2>1 DEF AP!AreFolds
  <2>3. u[(i + 1) + 1].loop = AP!Glb(u[i + 1].loop, xs[(i + 1) + 1].loop)
    BY <1>1, <1>2, <2>1, <2>2
  <2>4. in[(i + 1) + 1] = AP!Glb(in[i + 1], xs[(i + 1) + 1].loop)
    BY <1>4, <2>1
  <2> QED
    BY <1>6, <2>1, <2>3, <2>4
<1>7. Nat \subseteq P
  <2> HIDE DEF P
  <2> QED
    BY <1>5, <1>6, SetInduction
<1>8. n - 1 \in Nat /\ (n - 1) + 1 = n
  BY <1>1 DEF Pos
<1>9. u[n].loop = in[n]
  BY <1>1, <1>7, <1>8
<1> QED
  BY <1>3, <1>9

LEMMA LoopsOfAll ==
  ASSUME NEW xs, AP!AreWcets(xs),
         NEW ws, Operands(ws), Len(ws) = Len(xs), \A i \in 1..Len(xs) : heap[ws[i]].loop = xs[i].loop
  PROVE  AP!SumAll(xs).loop = Innermost(ws) /\ AP!UnionAll(xs).loop = Innermost(ws)
<1>1. PICK u : AP!AreFolds(u, xs, AP!SumOp) /\ AP!SumAll(xs) = u[Len(xs)]
  BY AP!SumsFolds DEF AP!SumAll
<1>2. PICK v : AP!AreFolds(v, xs, AP!UnionOp) /\ AP!UnionAll(xs) = v[Len(xs)]
  BY AP!UnionsFolds DEF AP!UnionAll
<1>3. u[Len(xs)].loop = Innermost(ws)
  BY <1>1, FoldedLoop
<1>4. v[Len(xs)].loop = Innermost(ws)
  BY <1>2, FoldedLoop
<1> QED
  BY <1>1, <1>2, <1>3, <1>4

-----------------------------------------------------------------------------
(* What a formula denotes                                                  *)

\* The list of a constant node, without the rest of the node.
ListOf(o) == [loop |-> o.loop, eta |-> o.eta, others |-> o.others]

LEMMA AbstractLaw ==
  ASSUME NEW o, o.loop \in Int, o.eta \in Seq(Nat), o.others \in Nat, Decreases(o)
  PROVE  /\ ListOf(o) \in Lists /\ Abstract(o) \in AP!AWcets /\ Abstract(o).loop = o.loop
         /\ \A i \in Pos : V(Abstract(o).m, i) = Elem(ListOf(o), i)
<1>1. ListOf(o) \in Lists
  BY DEF ListOf, Lists, Objects, Decreases, Elem
<1>2. /\ MW(ListOf(o)) \in AP!DecreasingWcets
      /\ \A i \in Pos : Elem(ListOf(o), i) = V(MW(ListOf(o)), i)
  BY <1>1, ListValues DEF V
<1>3. MW(ListOf(o)) = AP!MWcet(o.eta, o.others)
  BY DEF ListOf, MW, AP!MWcet, AP!MWcet
<1> QED
  BY <1>1, <1>2, <1>3, AP!IsAWcet, SameAlgebra DEF Abstract

LEMMA AbstractOfList ==
  ASSUME NEW o \in Lists
  PROVE  /\ Abstract(o) \in AP!AWcets /\ Abstract(o).loop = o.loop
         /\ \A i \in Pos : V(Abstract(o).m, i) = Elem(o, i)
<1>1. o.loop \in Int /\ o.eta \in Seq(Nat) /\ o.others \in Nat /\ Decreases(o)
  BY DEF Lists, Objects
<1>2. ListOf(o) = o
  BY DEF ListOf, Lists, Objects
<1> QED
  BY <1>1, <1>2, AbstractLaw

\* The operands of the node n, for the abstract WCETs f of the nodes.
Kids(p, n, f) == [i \in DOMAIN p[n].kids |-> f[p[n].kids[i]]]

LEMMA Iterates ==
  ASSUME NEW p \in Formulas, NEW v \in Valuations, NEW n \in DOMAIN p,
         p[n].kind \in {"power", "powerparam"}
  PROVE  Iterations(v, p[n]) \in Nat
<1>1. WellFormed(p) /\ Valuation(v)
  BY LibpwcetAssumption
<1>2. \A b \in Int : Clamp(b) \in Nat
  BY DEF Clamp
<1>3. CASE p[n].kind = "powerparam"
  <2>1. p[n].param \in Forms
    BY <1>1, <1>3 DEF WellFormed
  <2>2. v.form[p[n].param] \in Int
    BY <1>1, <2>1 DEF Valuation
  <2> QED
    BY <1>2, <1>3, <2>2 DEF Iterations
<1>4. CASE p[n].kind = "power"
  <2>1. p[n].param \in Bounds \cup {None} /\ p[n].k \in Int
    BY <1>1, <1>4 DEF WellFormed
  <2>2. p[n].param # None => v.bound[p[n].param] \in Int
    BY <1>1, <2>1 DEF Valuation
  <2> QED
    BY <1>2, <1>4, <2>1, <2>2 DEF Iterations
<1> QED
  BY <1>3, <1>4

LEMMA MeaningType ==
  ASSUME NEW p \in Formulas, NEW v \in Valuations, NEW n \in DOMAIN p,
         NEW xs \in Seq(AP!AWcets), Len(xs) = Len(p[n].kids)
  PROVE  Meaning(v, p[n], xs) \in AP!AWcets
<1> DEFINE f == p[n]
<1>1. WellFormed(p) /\ Valuation(v)
  BY LibpwcetAssumption
<1>2. /\ f.loop \in Int /\ f.k \in Int /\ f.kids \in Seq(1..(n - 1))
      /\ f.kind = "annot" => f.k >= -1
      /\ f.kind = "product" => f.k >= 0
      /\ f.kind = "param" => f.param \in Params
      /\ f.kind = "const" => f.eta \in Seq(Nat) /\ f.others \in Nat /\ Decreases(f)
      /\ f.kind \notin {"const", "param"} => f.kids # <<>>
  BY <1>1 DEF WellFormed
<1>3. Len(f.kids) # 0 => AP!AreWcets(xs) /\ xs[1] \in AP!AWcets
  <2> SUFFICES ASSUME Len(f.kids) # 0 PROVE AP!AreWcets(xs) /\ xs[1] \in AP!AWcets
    OBVIOUS
  <2>1. xs # <<>>
    BY EmptySeq
  <2>2. AP!AreWcets(xs)
    BY <2>1 DEF AP!AreWcets
  <2> QED
    BY <2>2, AP!Wcets
<1>4. f.kind \notin {"const", "param"} => AP!AreWcets(xs) /\ xs[1] \in AP!AWcets
  BY <1>2, <1>3, EmptySeq
<1>5. AP!Bot \in AP!AWcets
  BY AP!BotLaw, SameTotals
<1> HIDE DEF f
<1>6. CASE f.kind = "const"
  BY <1>2, <1>6, AbstractLaw DEF Meaning, f
<1>7. CASE f.kind = "param"
  <2>1. v.aw[f.param] \in Lists
    BY <1>1, <1>2, <1>7 DEF Valuation, Lists
  <2> QED
    BY <1>7, <2>1, AbstractOfList DEF Meaning, f
<1>8. CASE f.kind = "plus"
  <2>1. AP!SumAll(xs) \in AP!AWcets
    BY <1>4, <1>8, AP!SumAllLaw
  <2> QED
    BY <1>8, <2>1, SameAlgebra DEF Meaning, f
<1>9. CASE f.kind = "union"
  <2>1. AP!UnionAll(xs) \in AP!AWcets
    BY <1>4, <1>9, AP!UnionAllLaw
  <2> QED
    BY <1>9, <2>1, SameAlgebra DEF Meaning, f
<1>10. CASE f.kind \in {"power", "powerparam"}
  <2>1. Iterations(v, f) \in Nat
    BY <1>10, Iterates DEF f
  <2>2. AP!Pow(xs[1], AP!Bot, f.loop, Iterations(v, f)) \in AP!AWcets
    BY <1>2, <1>4, <1>10, <2>1, AP!PowLaw, SameTotals
  <2> QED
    BY <1>10, <2>2, SameAlgebra DEF Meaning, f
<1>11. CASE f.kind = "bproduct"
  BY <1>4, <1>5, <1>11, SameAlgebra DEF Meaning, f
<1>12. CASE f.kind = "product"
  <2>1. AP!Prod(f.k, xs[1]) \in AP!AWcets
    BY <1>2, <1>4, <1>12, AP!ProdLaw
  <2> QED
    BY <1>12, <2>1, SameAlgebra DEF Meaning, f
<1>13. CASE f.kind = "annot" /\ f.k # -1
  <2>1. AP!Annot(xs[1], f.loop, f.k) \in AP!AWcets
    BY <1>2, <1>4, <1>13, AP!AnnotLaw
  <2> QED
    BY <1>13, <2>1, SameAlgebra DEF Meaning, f
<1>14. CASE /\ f.kind \notin {"const", "param", "plus", "union", "power", "powerparam", "bproduct", "product"}
            /\ ~(f.kind = "annot" /\ f.k # -1)
  BY <1>4, <1>14 DEF Meaning, f
<1> QED
  BY <1>6, <1>7, <1>8, <1>9, <1>10, <1>11, <1>12, <1>13, <1>14

LEMMA KidsLaw ==
  ASSUME NEW p \in Formulas, NEW n \in DOMAIN p, NEW f, \A m \in DOMAIN p : m < n => f[m] \in AP!AWcets
  PROVE  /\ n \in Nat /\ Len(p) \in Nat /\ DOMAIN p = 1..Len(p)
         /\ \A i \in DOMAIN p[n].kids : p[n].kids[i] \in DOMAIN p /\ p[n].kids[i] < n
         /\ DOMAIN p[n].kids = 1..Len(p[n].kids)
         /\ Kids(p, n, f) \in Seq(AP!AWcets) /\ Len(Kids(p, n, f)) = Len(p[n].kids)
         /\ \A i \in DOMAIN p[n].kids : Kids(p, n, f)[i] = f[p[n].kids[i]]
<1>1. WellFormed(p)
  BY LibpwcetAssumption
<1>2. p \in Seq(Range(p)) /\ p[n].kids \in Seq(1..(n - 1))
  BY <1>1 DEF WellFormed
<1>3. Len(p) \in Nat /\ DOMAIN p = 1..Len(p) /\ n \in Nat
  BY <1>2, LenProperties
<1>4. DOMAIN p[n].kids = 1..Len(p[n].kids) /\ Len(p[n].kids) \in Nat
      /\ \A i \in DOMAIN p[n].kids : p[n].kids[i] \in 1..(n - 1)
  BY <1>2, LenProperties, ElementOfSeq
<1>5. \A i \in DOMAIN p[n].kids : p[n].kids[i] \in DOMAIN p /\ p[n].kids[i] < n
  BY <1>3, <1>4
<1>6. Kids(p, n, f) \in [1..Len(p[n].kids) -> AP!AWcets]
  BY <1>4, <1>5 DEF Kids
<1> QED
  BY <1>3, <1>4, <1>5, <1>6 DEF Kids

\* The abstract WCET of every node is made from those of its operands.
LEMMA DenotedLaw ==
  ASSUME NEW p \in Formulas, NEW v \in Valuations
  PROVE  \A n \in DOMAIN p : /\ Denoted(p, v)[n] \in AP!AWcets
                             /\ Denoted(p, v)[n] = Meaning(v, p[n], Kids(p, n, Denoted(p, v)))
<1> DEFINE D == DOMAIN p
           den[n \in D] == Meaning(v, p[n], [i \in DOMAIN p[n].kids |-> den[p[n].kids[i]]])
           G == [q \in D \X [D -> AP!AWcets] |-> Meaning(v, p[q[1]], Kids(p, q[1], q[2]))]
           rank == [n \in D |-> n]
<1>1. Denoted(p, v) = den
  BY DEF Denoted
<1>2. D \subseteq Nat
  <2>1. WellFormed(p)
    BY LibpwcetAssumption
  <2> QED
    BY <2>1 DEF WellFormed
<1>3. \A n \in D, f \in [D -> AP!AWcets] : /\ G[<<n, f>>] = Meaning(v, p[n], Kids(p, n, f))
                                        /\ G[<<n, f>>] \in AP!AWcets
  <2> SUFFICES ASSUME NEW n \in D, NEW f \in [D -> AP!AWcets]
               PROVE  /\ G[<<n, f>>] = Meaning(v, p[n], Kids(p, n, f))
                      /\ G[<<n, f>>] \in AP!AWcets
    OBVIOUS
  <2>1. Kids(p, n, f) \in Seq(AP!AWcets) /\ Len(Kids(p, n, f)) = Len(p[n].kids)
    BY KidsLaw
  <2>2. Meaning(v, p[n], Kids(p, n, f)) \in AP!AWcets
    BY <2>1, MeaningType
  <2>3. G[<<n, f>>] = Meaning(v, p[n], Kids(p, n, f))
    OBVIOUS
  <2> HIDE DEF G
  <2> QED
    BY <2>2, <2>3
<1>4. G \in [D \X [D -> AP!AWcets] -> AP!AWcets]
  <2> SUFFICES ASSUME NEW q \in D \X [D -> AP!AWcets] PROVE G[q] \in AP!AWcets
    OBVIOUS
  <2>1. q[1] \in D /\ q[2] \in [D -> AP!AWcets] /\ q = <<q[1], q[2]>>
    OBVIOUS
  <2> HIDE DEF G
  <2> QED
    BY <1>3, <2>1
<1>5. FromSmaller(D, AP!AWcets, rank, G)
  <2> SUFFICES ASSUME NEW n \in D, NEW f \in [D -> AP!AWcets], NEW g \in [D -> AP!AWcets],
                      \A m \in D : rank[m] < rank[n] => f[m] = g[m]
               PROVE  G[<<n, f>>] = G[<<n, g>>]
    <3> HIDE DEF G, rank
    <3> QED
      BY DEF FromSmaller
  <2>1. \A i \in DOMAIN p[n].kids : p[n].kids[i] \in D /\ p[n].kids[i] < n
    BY KidsLaw
  <2>2. \A i \in DOMAIN p[n].kids : f[p[n].kids[i]] = g[p[n].kids[i]]
    BY <2>1
  <2>3. Kids(p, n, f) = Kids(p, n, g)
    BY <2>2 DEF Kids
  <2>4. G[<<n, f>>] = Meaning(v, p[n], Kids(p, n, f)) /\ G[<<n, g>>] = Meaning(v, p[n], Kids(p, n, g))
    BY <1>3, Zenon
  <2> QED
    BY <2>3, <2>4, Zenon
<1>6. IsRecursion(D, AP!AWcets, rank, G)
  <2>1. rank \in [D -> Nat] /\ AP!AWcets # {}
    BY <1>2, AP!BotLaw, SameTotals
  <2> HIDE DEF G, rank
  <2> QED
    BY <1>4, <1>5, <2>1 DEF IsRecursion
<1>7. PICK h \in [D -> AP!AWcets] : \A n \in D : h[n] = G[<<n, h>>]
  <2> HIDE DEF G, rank, D
  <2> QED
    BY <1>6, RankRecursion DEF Defines
<1>8. \A n \in D : h[n] = Meaning(v, p[n], Kids(p, n, h))
  <2> HIDE DEF G
  <2> QED
    BY <1>3, <1>7
<1>9. h = [n \in D |-> Meaning(v, p[n], [i \in DOMAIN p[n].kids |-> h[p[n].kids[i]]])]
  BY <1>8 DEF Kids
<1>10. den = [n \in D |-> Meaning(v, p[n], [i \in DOMAIN p[n].kids |-> den[p[n].kids[i]]])]
  <2> HIDE DEF D
  <2> QED
    BY <1>9
<1> HIDE DEF den, D
<1>11. \A n \in D : den[n] = Meaning(v, p[n], Kids(p, n, den))
  BY <1>10, Zenon DEF Kids
<1> DEFINE P == {n \in Nat : n \in D => den[n] \in AP!AWcets}
<1>12. ASSUME NEW n \in Nat, \A m \in Nat : m < n => m \in P
       PROVE  n \in P
  <2> SUFFICES ASSUME n \in D PROVE den[n] \in AP!AWcets
    OBVIOUS
  <2>1. \A m \in D : m < n => den[m] \in AP!AWcets
    BY <1>2, <1>12
  <2>2. Kids(p, n, den) \in Seq(AP!AWcets) /\ Len(Kids(p, n, den)) = Len(p[n].kids)
    BY <2>1, KidsLaw DEF D
  <2>3. Meaning(v, p[n], Kids(p, n, den)) \in AP!AWcets
    BY <2>2, MeaningType DEF D
  <2> QED
    BY <1>11, <2>3
<1>13. Nat \subseteq P
  <2> HIDE DEF P
  <2> QED
    BY <1>12, StrongSetInduction
<1> QED
  BY <1>1, <1>2, <1>11, <1>13 DEF D

-----------------------------------------------------------------------------
(* An object that stands for an abstract WCET                              *)

Matches(o, x) ==
  /\ o.loop = x.loop
  /\ \A i \in Pos : /\ V(x.m, i) <= Elem(o, i)
                    /\ MaxSize = 0 => Elem(o, i) = V(x.m, i)

LEMMA MatchedValues ==
  ASSUME NEW o \in Lists, NEW x \in AP!AWcets, Matches(o, x)
  PROVE  \A i \in Pos : /\ V(x.m, i) \in Nat /\ Elem(o, i) \in Nat
                        /\ V(x.m, i) <= Elem(o, i)
                        /\ MaxSize = 0 => Elem(o, i) = V(x.m, i)
BY ListValues, AP!AWcetParts, SameTotals DEF Matches, V

MatchAll(ws, xs) ==
  /\ Operands(ws) /\ AP!AreWcets(xs) /\ Len(ws) = Len(xs)
  /\ \A i \in 1..Len(xs) : Matches(heap[ws[i]], xs[i])

LEMMA AllMatched ==
  ASSUME NEW ws, NEW xs, MatchAll(ws, xs)
  PROVE  /\ Len(xs) \in Pos /\ Len(ws) = Len(xs) /\ DOMAIN ws = 1..Len(xs)
         /\ Innermost(ws) = AP!SumAll(xs).loop /\ Innermost(ws) = AP!UnionAll(xs).loop
         /\ \A i \in 1..Len(xs), p \in Pos :
              /\ V(xs[i].m, p) \in Nat /\ Elem(heap[ws[i]], p) \in Nat
              /\ V(xs[i].m, p) <= Elem(heap[ws[i]], p)
              /\ MaxSize = 0 => Elem(heap[ws[i]], p) = V(xs[i].m, p)
<1>1. Operands(ws) /\ AP!AreWcets(xs) /\ Len(ws) = Len(xs)
      /\ \A i \in 1..Len(xs) : Matches(heap[ws[i]], xs[i])
  BY DEF MatchAll
<1>2. Len(xs) \in Pos /\ DOMAIN ws = 1..Len(xs) /\ \A i \in 1..Len(xs) : heap[ws[i]] \in Lists /\ xs[i] \in AP!AWcets
  BY <1>1, OperandLists, AP!Wcets
<1>3. Innermost(ws) = AP!SumAll(xs).loop /\ Innermost(ws) = AP!UnionAll(xs).loop
  <2>1. \A i \in 1..Len(xs) : heap[ws[i]].loop = xs[i].loop
    BY <1>1 DEF Matches
  <2> QED
    BY <1>1, <2>1, LoopsOfAll
<1>5. \A i \in 1..Len(xs), p \in Pos :
        /\ V(xs[i].m, p) \in Nat /\ Elem(heap[ws[i]], p) \in Nat
        /\ V(xs[i].m, p) <= Elem(heap[ws[i]], p)
        /\ MaxSize = 0 => Elem(heap[ws[i]], p) = V(xs[i].m, p)
  BY <1>1, <1>2, MatchedValues
<1> QED
  BY <1>1, <1>2, <1>3, <1>5

LEMMA SumMatches ==
  ASSUME NEW ws, NEW xs, MatchAll(ws, xs), NEW k \in DOMAIN ws, Widest(ws, k)
  PROVE  Matches(SumOf(ws, ws[k]), AP!SumAll(xs))
<1> DEFINE n == Len(xs)
           o == SumOf(ws, ws[k])
<1>1. Operands(ws) /\ AP!AreWcets(xs)
  BY DEF MatchAll
<1>2. /\ n \in Nat /\ Len(ws) = n /\ DOMAIN ws = 1..n
      /\ \A i \in 1..n, p \in Pos :
              /\ V(xs[i].m, p) \in Nat /\ Elem(heap[ws[i]], p) \in Nat
              /\ V(xs[i].m, p) <= Elem(heap[ws[i]], p)
              /\ MaxSize = 0 => Elem(heap[ws[i]], p) = V(xs[i].m, p)
  BY AllMatched DEF Pos
<1>3. o.loop = AP!SumAll(xs).loop /\ o.loop = Innermost(ws)
  BY AllMatched DEF SumOf
<1>5. ASSUME NEW p \in Pos
      PROVE  V(AP!SumAll(xs).m, p) <= Elem(o, p) /\ (MaxSize = 0 => Elem(o, p) = V(AP!SumAll(xs).m, p))
  <2> DEFINE t == [j \in 1..n |-> V(xs[j].m, p)]
  <2>1. V(AP!SumAll(xs).m, p) = TotalOf(t) /\ Elem(o, p) = TotalOf(At(ws, p))
    BY <1>1, AP!SumAllLaw, SumOfLists, SameTotals DEF V
  <2>2. t \in Vectors(n) /\ At(ws, p) \in Vectors(n) /\ \A j \in 1..n : t[j] <= At(ws, p)[j]
    BY <1>2 DEF Vectors, At
  <2>3. MaxSize = 0 => t = At(ws, p)
    BY <1>2 DEF At
  <2> HIDE DEF t, o
  <2>4. TotalOf(t) <= TotalOf(At(ws, p))
    BY <1>2, <2>2, TotalMonotone
  <2> QED
    BY <2>1, <2>3, <2>4
<1> HIDE DEF o
<1> QED
  BY <1>3, <1>5 DEF Matches, o

LEMMA UnionMatches ==
  ASSUME NEW ws, NEW xs, MatchAll(ws, xs)
  PROVE  Matches(MaxOf(ws), AP!UnionAll(xs))
<1> DEFINE n == Len(xs)
           o == MaxOf(ws)
           u == AP!UnionAll(xs)
<1>1. Operands(ws) /\ AP!AreWcets(xs)
  BY DEF MatchAll
<1>2. /\ n \in Nat /\ Len(ws) = n
      /\ \A i \in 1..n, p \in Pos :
              /\ V(xs[i].m, p) \in Nat /\ Elem(heap[ws[i]], p) \in Nat
              /\ V(xs[i].m, p) <= Elem(heap[ws[i]], p)
              /\ MaxSize = 0 => Elem(heap[ws[i]], p) = V(xs[i].m, p)
  BY AllMatched DEF Pos
<1>3. /\ o \in Lists /\ o.loop = Innermost(ws) /\ o.loop = u.loop
      /\ \A v \in Vectors(n), x \in Nat : TotalOf(v) \in Pos /\ Offers(ws, v, x) => x <= Elem(o, TotalOf(v))
      /\ MaxSize = 0 => \A s \in Pos : \E v \in Vectors(n) : TotalOf(v) = s /\ Offers(ws, v, Elem(o, s))
      /\ (\A i \in 1..n : heap[ws[i]].eta = <<>>) => o.eta = <<>>
  BY <1>1, <1>2, AllMatched, MaxOfLists
<1>4. /\ u \in AP!AWcets
      /\ \A s \in Nat, c \in Nat :
           AP!Has(u.m, s, c) <=> \E v \in Vectors(n) : TotalOf(v) = s /\ AP!Takes(xs, n, v, c)
  BY <1>1, AP!UnionAllLaw, SameTotals
<1> HIDE DEF o, u
<1>5. ASSUME NEW p \in Pos PROVE V(u.m, p) <= Elem(o, p)
  <2>1. V(u.m, p) \in Nat /\ p \in Nat
    BY <1>4, AP!AWcetParts, SameTotals DEF Pos, V
  <2>2. AP!Has(u.m, p, V(u.m, p))
    BY <2>1 DEF AP!Has, V
  <2>3. PICK v \in Vectors(n) : TotalOf(v) = p /\ AP!Takes(xs, n, v, V(u.m, p))
    BY <1>4, <2>1, <2>2
  <2>4. Offers(ws, v, V(u.m, p))
    <3> SUFFICES ASSUME NEW i \in 1..n, v[i] # 0 PROVE Elem(heap[ws[i]], v[i]) >= V(u.m, p)
      BY <1>2 DEF Offers
    <3>1. v[i] \in Pos
      BY DEF Vectors, Pos
    <3>2. V(xs[i].m, v[i]) >= V(u.m, p)
      BY <2>3 DEF AP!Takes, AP!Has, V
    <3>3. /\ V(xs[i].m, v[i]) \in Nat /\ Elem(heap[ws[i]], v[i]) \in Nat
          /\ V(xs[i].m, v[i]) <= Elem(heap[ws[i]], v[i])
      BY <1>2, <3>1
    <3> QED
      BY <2>1, <3>2, <3>3
  <2> QED
    BY <1>3, <2>1, <2>3, <2>4
<1>6. ASSUME NEW p \in Pos, MaxSize = 0 PROVE Elem(o, p) = V(u.m, p)
  <2>1. PICK v \in Vectors(n) : TotalOf(v) = p /\ Offers(ws, v, Elem(o, p))
    BY <1>3, <1>6
  <2>2. Elem(o, p) \in Nat /\ V(u.m, p) \in Nat /\ p \in Nat /\ p # 0
    BY <1>3, <1>4, ListValues, AP!AWcetParts, SameTotals DEF Pos, V
  <2>3. AP!Takes(xs, n, v, Elem(o, p))
    <3> SUFFICES ASSUME NEW i \in 1..n, v[i] # 0 PROVE V(xs[i].m, v[i]) >= Elem(o, p)
      BY DEF AP!Takes, AP!Has, V
    <3>1. v[i] \in Pos
      BY DEF Vectors, Pos
    <3>2. Elem(heap[ws[i]], v[i]) >= Elem(o, p)
      BY <1>2, <2>1 DEF Offers
    <3> QED
      BY <1>2, <1>6, <3>1, <3>2
  <2>4. V(u.m, p) >= Elem(o, p)
    BY <1>4, <2>1, <2>2, <2>3 DEF AP!Has, V
  <2> QED
    BY <1>5, <2>2, <2>4
<1> QED
  BY <1>3, <1>5, <1>6 DEF Matches, o, u

-----------------------------------------------------------------------------
(* Iterations                                                              *)

LEMMA SumsMonotone ==
  ASSUME NEW a \in AP!DecreasingWcets, NEW b \in AP!DecreasingWcets,
         \A i \in Pos : V(a, i) <= V(b, i), NEW d \in Nat, NEW k \in Nat
  PROVE  /\ AP!ValSum(k, d, a) \in Nat /\ AP!ValSum(k, d, b) \in Nat
         /\ AP!ValSum(k, d, a) <= AP!ValSum(k, d, b)
<1> DEFINE A == AP!Total(a)
           B == AP!Total(b)
           P == {i \in Nat : A[d + i] - A[d] <= B[d + i] - B[d]}
<1>1. a \in AP!MultiWcets /\ b \in AP!MultiWcets
  BY DEF AP!DecreasingWcets
<1>2. /\ \A i \in Nat : A[i] \in Nat /\ A[i + 1] = A[i] + V(a, i + 1)
      /\ \A i \in Nat : B[i] \in Nat /\ B[i + 1] = B[i] + V(b, i + 1)
  BY <1>1, AP!TotalDef DEF AP!IsTotal, V
<1>3. \A i \in Pos : V(a, i) \in Nat /\ V(b, i) \in Nat
  BY <1>1, AP!ValueType DEF V, Pos
<1>4. /\ AP!ValSum(k, d, a) \in Nat /\ A[d + k] = A[d] + AP!ValSum(k, d, a)
      /\ AP!ValSum(k, d, b) \in Nat /\ B[d + k] = B[d] + AP!ValSum(k, d, b)
  BY <1>1, AP!ValSumOfTotal
<1> HIDE DEF A, B
<1>5. 0 \in P
  BY <1>2
<1>6. ASSUME NEW i \in Nat, i \in P PROVE i + 1 \in P
  <2>1. d + (i + 1) = (d + i) + 1 /\ d + i \in Nat /\ (d + i) + 1 \in Pos
    BY DEF Pos
  <2>2. A[d + (i + 1)] = A[d + i] + V(a, (d + i) + 1) /\ B[d + (i + 1)] = B[d + i] + V(b, (d + i) + 1)
    BY <1>2, <2>1
  <2>3. V(a, (d + i) + 1) <= V(b, (d + i) + 1) /\ V(a, (d + i) + 1) \in Nat /\ V(b, (d + i) + 1) \in Nat
    BY <1>3, <2>1
  <2>4. A[d + i] \in Nat /\ B[d + i] \in Nat /\ A[d] \in Nat /\ B[d] \in Nat
    BY <1>2, <2>1
  <2>5. A[d + i] - A[d] <= B[d + i] - B[d]
    BY <1>6
  <2>6. A[d + (i + 1)] - A[d] <= B[d + (i + 1)] - B[d]
    BY <2>2, <2>3, <2>4, <2>5
  <2> QED
    BY <2>6
<1>7. Nat \subseteq P
  <2> HIDE DEF P
  <2> QED
    BY <1>5, <1>6, SetInduction
<1>8. A[d + k] - A[d] <= B[d + k] - B[d]
  BY <1>7
<1>9. A[d] \in Nat /\ B[d] \in Nat
  BY <1>2
<1> QED
  BY <1>4, <1>8, <1>9

LEMMA PacksMonotone ==
  ASSUME NEW a \in AP!DecreasingWcets, NEW b \in AP!DecreasingWcets,
         \A i \in Pos : V(a, i) <= V(b, i), NEW k \in Nat, NEW i \in Pos
  PROVE  V(AP!Pack(k, a), i) <= V(AP!Pack(k, b), i)
<1> DEFINE j == i - 1
<1>1. j \in Nat /\ j + 1 = i /\ j * k \in Nat
  BY DEF Pos
<1>2. AP!Value(AP!Pack(k, a), j + 1) = AP!ValSum(k, j * k, a)
  BY <1>1, AP!PackValues
<1>3. AP!Value(AP!Pack(k, b), j + 1) = AP!ValSum(k, j * k, b)
  BY <1>1, AP!PackValues
<1> HIDE DEF j
<1>4. AP!ValSum(k, j * k, a) <= AP!ValSum(k, j * k, b)
  BY <1>1, SumsMonotone
<1> QED
  BY <1>1, <1>2, <1>3, <1>4 DEF V

LEMMA NothingMatches ==
  ASSUME NEW x \in AP!AWcets, x.loop = LOOP_TOP, \A i \in Pos : V(x.m, i) = 0
  PROVE  Matches(Nothing, x)
<1>1. \A i \in Pos : Elem(Nothing, i) = 0
  BY NothingIsList
<1>2. Nothing.loop = LOOP_TOP /\ Nothing.eta = <<>>
  BY DEF Nothing
<1> QED
  BY <1>1, <1>2 DEF Matches

LEMMA PowerMatches ==
  ASSUME NEW o \in Lists, NEW x \in AP!AWcets, Matches(o, x), NEW l \in Int, NEW b \in Int,
         b <= 0 => x.loop \in {l, LOOP_TOP}
  PROVE  Matches(Iterated(o, l, b), AP!Pow(x, AP!Bot, l, Clamp(b)))
<1> DEFINE y == AP!Pow(x, AP!Bot, l, Clamp(b))
           z == Iterated(o, l, b)
           n == Clamp(b)
<1>1. n \in Nat /\ (b <= 0 => n = 0) /\ (b > 0 => n = b /\ b \in Pos)
  BY DEF Clamp, Pos
<1>2. /\ y \in AP!AWcets /\ y.loop = IF x.loop = l THEN LOOP_TOP ELSE x.loop
      /\ \A i \in Pos : V(y.m, i) = IF x.loop = l THEN AP!ValSum(n, 0, x.m)
                                    ELSE V(AP!Pack(n, x.m), i)
  BY <1>1, AP!PowLaw, SameTotals DEF V
<1>3. x.m \in AP!DecreasingWcets /\ MW(o) \in AP!DecreasingWcets
      /\ o.loop = x.loop
  BY AP!AWcetParts, ListValues DEF Matches
<1>4. \A i \in Pos : /\ V(x.m, i) <= V(MW(o), i)
                     /\ MaxSize = 0 => V(MW(o), i) <= V(x.m, i)
  <2> SUFFICES ASSUME NEW i \in Pos
               PROVE  V(x.m, i) <= V(MW(o), i) /\ (MaxSize = 0 => V(MW(o), i) <= V(x.m, i))
    OBVIOUS
  <2>1. Elem(o, i) = V(MW(o), i)
    BY ListValues DEF V
  <2>2. /\ V(x.m, i) \in Nat /\ Elem(o, i) \in Nat /\ V(x.m, i) <= Elem(o, i)
        /\ MaxSize = 0 => Elem(o, i) = V(x.m, i)
    BY MatchedValues
  <2> QED
    BY <2>1, <2>2
<1> HIDE DEF n, y, z
<1>5. CASE b <= 0
  <2>1. z = Nothing
    BY <1>5, NotIterated DEF z
  <2>2. n = 0 /\ y.loop = LOOP_TOP
    BY <1>1, <1>2, <1>5
  <2>3. ASSUME NEW i \in Pos PROVE V(y.m, i) = 0
    <3>1. AP!ValSum(0, 0, x.m) = 0
      BY <1>3, AP!NoSum
    <3>2. V(AP!Pack(0, x.m), i) = 0
      <4> DEFINE j == i - 1
      <4>1. j \in Nat /\ j + 1 = i /\ j * 0 = 0
        BY DEF Pos
      <4>2. AP!Value(AP!Pack(0, x.m), j + 1) = AP!ValSum(0, j * 0, x.m)
        BY <1>3, <4>1, AP!PackValues
      <4> HIDE DEF j
      <4> QED
        BY <3>1, <4>1, <4>2 DEF V
    <3> QED
      BY <1>2, <2>2, <3>1, <3>2
  <2>4. Matches(Nothing, y)
    BY <1>2, <2>2, <2>3, NothingMatches
  <2> QED
    BY <2>1, <2>4 DEF y, z, n
<1>6. CASE b > 0 /\ x.loop = l
  <2>1. /\ z.loop = LOOP_TOP /\ z.eta = <<>>
        /\ \A i \in Pos : Elem(z, i) = AP!ValSum(b, 0, MW(o))
    BY <1>1, <1>3, <1>6, IteratedHere DEF z
  <2>2. y.loop = LOOP_TOP /\ \A i \in Pos : V(y.m, i) = AP!ValSum(b, 0, x.m)
    BY <1>1, <1>2, <1>6
  <2>3. AP!ValSum(b, 0, x.m) \in Nat /\ AP!ValSum(b, 0, MW(o)) \in Nat
        /\ AP!ValSum(b, 0, x.m) <= AP!ValSum(b, 0, MW(o))
    BY <1>1, <1>3, <1>4, <1>6, SumsMonotone
  <2>4. MaxSize = 0 => AP!ValSum(b, 0, MW(o)) <= AP!ValSum(b, 0, x.m)
    BY <1>1, <1>3, <1>4, <1>6, SumsMonotone
  <2> QED
    BY <2>1, <2>2, <2>3, <2>4 DEF Matches, y, z, n
<1>7. CASE b > 0 /\ x.loop # l
  <2>1. /\ z.loop = o.loop /\ (o.eta = <<>> => z.eta = <<>>)
        /\ \A i \in Pos : Elem(z, i) = V(AP!Pack(b, MW(o)), i)
    <3>1. z = Iterated(o, l, b)
      BY DEF z
    <3>2. l # o.loop /\ b \in Pos
      BY <1>1, <1>3, <1>7
    <3>3. \A i : V(AP!Pack(b, MW(o)), i) = AP!Value(AP!Pack(b, MW(o)), i)
      BY DEF V
    <3> HIDE DEF V
    <3>4. /\ Iterated(o, l, b).loop = o.loop /\ (o.eta = <<>> => Iterated(o, l, b).eta = <<>>)
          /\ \A i \in Pos : Elem(Iterated(o, l, b), i) = AP!Value(AP!Pack(b, MW(o)), i)
      BY <3>2, IteratedAround, Zenon
    <3> QED
      BY <3>1, <3>3, <3>4
  <2>2. y.loop = x.loop /\ \A i \in Pos : V(y.m, i) = V(AP!Pack(b, x.m), i)
    BY <1>1, <1>2, <1>7
  <2>3. \A i \in Pos : V(AP!Pack(b, x.m), i) <= V(AP!Pack(b, MW(o)), i)
    BY <1>1, <1>3, <1>4, <1>7, PacksMonotone
  <2>4. MaxSize = 0 => \A i \in Pos : V(AP!Pack(b, MW(o)), i) <= V(AP!Pack(b, x.m), i)
    BY <1>1, <1>3, <1>4, <1>7, PacksMonotone
  <2>5. \A i \in Pos : V(AP!Pack(b, x.m), i) \in Nat /\ V(AP!Pack(b, MW(o)), i) \in Nat
    <3>1. AP!Pack(b, x.m) \in AP!MultiWcets /\ AP!Pack(b, MW(o)) \in AP!MultiWcets
      <4>1. b \in Nat
        BY <1>1, <1>7
      <4> QED
        BY <1>3, <4>1, AP!PackValues DEF AP!DecreasingWcets
    <3> QED
      BY <3>1, AP!ValueType DEF V, Pos
  <2> QED
    BY <1>3, <2>1, <2>2, <2>3, <2>4, <2>5 DEF Matches, y, z, n
<1> QED
  BY <1>5, <1>6, <1>7

-----------------------------------------------------------------------------
(* Products, limits and annotations                                        *)

LEMMA TimesLess ==
  ASSUME NEW k \in Nat, NEW a \in Nat, NEW b \in Nat, a <= b
  PROVE  k * a <= k * b
OBVIOUS

LEMMA ProductMatches ==
  ASSUME NEW o \in Lists, NEW x \in AP!AWcets, Matches(o, x), NEW k \in Nat
  PROVE  Matches(Multiplied(o, k), AP!Prod(k, x))
<1> DEFINE y == AP!Prod(k, x)
           z == Multiplied(o, k)
<1>1. y.loop = x.loop /\ \A i \in Pos : V(y.m, i) = k * V(x.m, i)
  BY AP!ProdLaw, SameTotals DEF V
<1>2. z.loop = o.loop /\ (o.eta = <<>> => z.eta = <<>>) /\ \A i \in Pos : Elem(z, i) = k * Elem(o, i)
  BY MultipliedLists
<1> HIDE DEF y, z
<1>3. \A i \in Pos : /\ k * V(x.m, i) <= k * Elem(o, i)
                     /\ MaxSize = 0 => k * Elem(o, i) = k * V(x.m, i)
  <2> SUFFICES ASSUME NEW i \in Pos
               PROVE  /\ k * V(x.m, i) <= k * Elem(o, i)
                      /\ MaxSize = 0 => k * Elem(o, i) = k * V(x.m, i)
    OBVIOUS
  <2>1. /\ V(x.m, i) \in Nat /\ Elem(o, i) \in Nat /\ V(x.m, i) <= Elem(o, i)
        /\ MaxSize = 0 => Elem(o, i) = V(x.m, i)
    BY MatchedValues
  <2>2. k * V(x.m, i) <= k * Elem(o, i)
    BY <2>1, TimesLess
  <2>3. MaxSize = 0 => k * Elem(o, i) = k * V(x.m, i)
    BY <2>1, Zenon
  <2> QED
    BY <2>2, <2>3
<1>4. o.loop = x.loop
  BY DEF Matches
<1>5. \A i \in Pos : V(y.m, i) <= Elem(z, i) /\ (MaxSize = 0 => Elem(z, i) = V(y.m, i))
  <2> SUFFICES ASSUME NEW i \in Pos PROVE V(y.m, i) <= Elem(z, i) /\ (MaxSize = 0 => Elem(z, i) = V(y.m, i))
    OBVIOUS
  <2>1. V(y.m, i) = k * V(x.m, i) /\ Elem(z, i) = k * Elem(o, i)
    BY <1>1, <1>2
  <2> QED
    BY <1>3, <2>1, Zenon
<1> QED
  BY <1>1, <1>2, <1>4, <1>5 DEF Matches, y, z

LEMMA PrunedMatches ==
  ASSUME NEW o \in Lists, NEW x \in AP!AWcets, Matches(o, x), MaxSize \in Nat
  PROVE  Matches(Pruned(o), x)
<1> DEFINE z == Pruned(o)
<1>1. /\ z \in Lists /\ z.loop = o.loop /\ (o.eta = <<>> => z.eta = <<>>)
      /\ \A i \in Pos : Elem(o, i) <= Elem(z, i)
      /\ MaxSize = 0 => z = o
  BY PrunedLists
<1> HIDE DEF z
<1>2. \A i \in Pos : /\ V(x.m, i) \in Nat /\ Elem(o, i) \in Nat /\ V(x.m, i) <= Elem(o, i)
                     /\ Elem(z, i) \in Nat
                     /\ MaxSize = 0 => Elem(o, i) = V(x.m, i)
  BY <1>1, MatchedValues, ListValues
<1> QED
  BY <1>1, <1>2 DEF Matches, z

LEMMA AnnotMatches ==
  ASSUME NEW o \in Lists, NEW x \in AP!AWcets, Matches(o, x), MaxSize \in Nat, NEW l \in Int, NEW k \in Nat,
         AnnotLimit(k) >= 0, o.eta = <<>> => AP!Glb(o.loop, l) = l
  PROVE  Matches(Annotated(o, l, k), AP!Annot(x, l, k))
<1> DEFINE y == AP!Annot(x, l, k)
           z == Annotated(o, l, k)
<1>1. /\ y.loop = AP!Glb(x.loop, l) /\ y \in AP!AWcets
      /\ \A i \in Pos : V(y.m, i) = IF i <= k THEN V(x.m, i) ELSE 0
  BY AP!AnnotLaw, SameTotals DEF V
<1>2. z \in Lists /\ MaxSize # 0 /\ \A i \in Pos : i <= k => Elem(o, i) <= Elem(z, i)
  BY AnnotatedLists
<1>3. z.loop = AP!Glb(o.loop, l)
  <2>1. z.loop = IF o.eta = <<>> \/ LoopInner(l, o.loop) THEN l ELSE o.loop
    BY DEF Annotated
  <2>2. AP!Glb(o.loop, l) = IF o.loop = LOOP_TOP \/ LoopInner(l, o.loop) THEN l ELSE o.loop
    BY InnerGlb
  <2>3. o.loop = LOOP_TOP /\ ~LoopInner(l, o.loop) => l = o.loop
    BY DEF LoopInner
  <2> QED
    BY <2>1, <2>2, <2>3
<1>4. o.loop = x.loop
  BY DEF Matches
<1> HIDE DEF y, z
<1>5. ASSUME NEW i \in Pos PROVE V(y.m, i) <= Elem(z, i)
  <2>1. V(x.m, i) \in Nat /\ Elem(o, i) \in Nat /\ V(x.m, i) <= Elem(o, i) /\ Elem(z, i) \in Nat
    BY <1>2, MatchedValues, ListValues
  <2>2. i \in Nat
    BY DEF Pos
  <2> QED
    BY <1>1, <1>2, <2>1, <2>2
<1> QED
  BY <1>1, <1>2, <1>3, <1>4, <1>5 DEF Matches, y, z

-----------------------------------------------------------------------------
(* Every object is a decreasing list                                       *)

AllLists ==
  /\ MaxSize \in Nat /\ val \in Valuations
  /\ Params \subseteq DOMAIN heap
  /\ \A p \in DOMAIN heap : heap[p] \in Lists
  /\ \A n \in DOMAIN w : w[n] \in DOMAIN heap

\* The iterations of the node, as the statement gets them.
BoundOf(f) == IF f.kind = "powerparam" THEN Clamp(val.form[f.param])
              ELSE IF f.param = None THEN f.k ELSE val.bound[f.param]

LEMMA Operation ==
  ASSUME Variables, AllLists, status = "run"
  PROVE  /\ Node = formula[pc] /\ pc \in DOMAIN formula /\ pc \in Nat \ {0}
         /\ Node.loop \in Int /\ Node.k \in Int
         /\ Node.kids \in Seq(1..(pc - 1)) /\ Node.kids \in Seq(DOMAIN w)
         /\ DOMAIN Ws = 1..Len(Ws) /\ Len(Ws) = Len(Node.kids) /\ DOMAIN Ws = DOMAIN Node.kids
         /\ \A i \in DOMAIN Ws : Ws[i] = w[Node.kids[i]] /\ Ws[i] \in DOMAIN heap
         /\ Node.kind = "annot" => Node.k >= -1
         /\ Node.kind = "product" => Node.k \in Nat
         /\ Node.kind = "param" => Node.param \in Params /\ Node.param \in DOMAIN heap
         /\ Node.kind = "const" => /\ Node.eta \in Seq(Nat) /\ Node.others \in Nat /\ Decreases(Node)
         /\ Node.kind \in {"power", "powerparam"} => BoundOf(Node) \in Int
         /\ Node.kind \notin {"const", "param"} =>
              Operands(Ws) /\ 1 \in DOMAIN Ws /\ 1 \in DOMAIN Node.kids /\ W1 \in Lists
<1>1. /\ WellFormed(formula) /\ pc \in DOMAIN formula /\ pc \in Nat /\ DOMAIN formula = 1..Len(formula)
      /\ Len(formula) \in Nat /\ Len(w) \in Nat /\ DOMAIN w = 1..Len(w) /\ Node = formula[pc]
  BY Program DEF Node
<1>2. Node.kids \in Seq(1..(pc - 1))
  BY <1>1 DEF WellFormed
<1>3. Node.loop \in Int /\ Node.k \in Int
  BY <1>1 DEF WellFormed
<1>4. Node.kids \in Seq(DOMAIN w) /\ DOMAIN Node.kids = 1..Len(Node.kids) /\ Len(Node.kids) \in Nat
  BY <1>1, <1>2, LenProperties DEF pc
<1>5. DOMAIN Ws = DOMAIN Node.kids /\ \A i \in DOMAIN Ws : Ws[i] = w[Node.kids[i]]
  BY DEF Ws
<1>6. \A i \in DOMAIN Ws : Ws[i] \in DOMAIN heap
  BY <1>4, <1>5, ElementOfSeq DEF AllLists
<1>7. Ws \in Seq(DOMAIN heap) /\ Len(Ws) = Len(Node.kids)
  <2>1. Ws = [i \in 1..Len(Node.kids) |-> Ws[i]]
    BY <1>4 DEF Ws
  <2>2. Ws \in [1..Len(Node.kids) -> DOMAIN heap]
    BY <1>4, <1>5, <1>6, <2>1
  <2> QED
    BY <1>4, <2>2
<1>8. Valuation(val)
  BY LibpwcetAssumption DEF AllLists
<1>9. ASSUME Node.kind \in {"power", "powerparam"} PROVE BoundOf(Node) \in Int
  <2>1. CASE Node.kind = "powerparam"
    <3>1. Node.param \in Forms
      BY <1>1, <2>1 DEF WellFormed
    <3> QED
      BY <1>8, <2>1, <3>1 DEF BoundOf, Clamp, Valuation
  <2>2. CASE Node.kind = "power"
    <3>1. Node.param \in Bounds \cup {None}
      BY <1>1, <2>2 DEF WellFormed
    <3> QED
      BY <1>3, <1>8, <2>2, <3>1 DEF BoundOf, Valuation
  <2> QED
    BY <1>9, <2>1, <2>2
<1>10. ASSUME Node.kind \notin {"const", "param"}
       PROVE  Operands(Ws) /\ 1 \in DOMAIN Ws /\ 1 \in DOMAIN Node.kids /\ W1 \in Lists
  <2>1. Node.kids # <<>>
    BY <1>1, <1>10 DEF WellFormed
  <2>2. Len(Node.kids) # 0
    BY <1>2, <2>1, EmptySeq
  <2>3. 1 \in DOMAIN Node.kids /\ Ws # <<>>
    BY <1>4, <1>7, <2>2
  <2>4. Operands(Ws)
    BY <1>7, <2>3 DEF Operands, AllLists
  <2>5. W1 \in Lists
    BY <1>5, <1>6, <2>3 DEF W1, AllLists
  <2> QED
    BY <1>5, <2>3, <2>4, <2>5
<1>11. Node.kind = "annot" => Node.k >= -1
  BY <1>1 DEF WellFormed
<1>12. Node.kind = "product" => Node.k \in Nat
  BY <1>1, <1>3 DEF WellFormed
<1>13. Node.kind = "param" => Node.param \in Params /\ Node.param \in DOMAIN heap
  BY <1>1 DEF WellFormed, AllLists
<1>14. Node.kind = "const" => Node.eta \in Seq(Nat) /\ Node.others \in Nat /\ Decreases(Node)
  BY <1>1 DEF WellFormed
<1>15. Node = formula[pc] /\ pc \in DOMAIN formula /\ pc \in Nat \ {0}
  BY <1>1
<1>16. /\ DOMAIN Ws = 1..Len(Ws) /\ Len(Ws) = Len(Node.kids) /\ DOMAIN Ws = DOMAIN Node.kids
       /\ \A i \in DOMAIN Ws : Ws[i] = w[Node.kids[i]] /\ Ws[i] \in DOMAIN heap
  BY <1>4, <1>5, <1>6, <1>7
<1> QED
  BY <1>2, <1>3, <1>4, <1>9, <1>10, <1>11, <1>12, <1>13, <1>14, <1>15, <1>16, Zenon

\* What the statement makes of its operands.
Computed(o, x) ==
  /\ Node.kind \in {"const", "param", "plus", "union", "power", "powerparam", "bproduct", "product",
                    "prune", "annot"}
  /\ Node.kind = "const" => x = [loop |-> Node.loop, eta |-> Node.eta, others |-> Node.others]
  /\ Node.kind = "param" => o = Node.param /\ x = heap[Node.param]
  /\ Node.kind = "plus" => \E i \in DOMAIN Ws : Widest(Ws, i) /\ x = SumOf(Ws, Ws[i])
  /\ Node.kind = "union" => x = MaxOf(Ws)
  /\ Node.kind \in {"power", "powerparam"} => x = Iterated(W1, Node.loop, BoundOf(Node))
  /\ Node.kind = "bproduct" => x = IF Node.conds \subseteq val.holds THEN W1 ELSE Nothing
  /\ Node.kind = "product" => x = Multiplied(W1, Node.k)
  /\ Node.kind = "prune" => x = Pruned(W1)
  /\ Node.kind = "annot" =>
       \/ Kept(W1, Node.loop, Node.k) /\ x = W1
       \/ ~Kept(W1, Node.loop, Node.k) /\ AnnotLimit(Node.k) >= 0 /\ x = Annotated(W1, Node.loop, Node.k)

LEMMA Effects ==
  ASSUME Variables, AllLists, Next
  PROVE  \/ UNCHANGED <<MaxSize, formula, val, heap, w>> /\ status' = "fault"
         \/ \E o, x : Left(o) /\ Assign(o, x) /\ Computed(o, x)
<1> DEFINE Good(o, x) == Left(o) /\ Assign(o, x) /\ Computed(o, x)
<1>1. status = "run"
  BY DEF Next
<1>2. Node.kind \notin {"const", "param"} => Left(Ws[1])
  BY <1>1, Operation DEF Left
<1>3. Left(NewObject)
  BY DEF Left, NewObject
<1>4. CASE FConst
  <2>1. Good(NewObject, [loop |-> Node.loop, eta |-> Node.eta, others |-> Node.others])
    BY <1>3, <1>4 DEF FConst, Computed
  <2> QED
    BY <2>1
<1>5. CASE FParam
  <2>1. Good(Node.param, heap[Node.param])
    BY <1>5 DEF FParam, Computed, Left
  <2> QED
    BY <2>1
<1>6. CASE FPlus
  <2>1. PICK i \in DOMAIN Ws : Widest(Ws, i) /\ Assign(Ws[i], SumOf(Ws, Ws[i]))
    BY <1>6 DEF FPlus
  <2>2. Node.kind = "plus"
    BY <1>6 DEF FPlus
  <2>3. Left(Ws[i])
    BY <1>1, <2>1, Operation DEF Left
  <2>4. Good(Ws[i], SumOf(Ws, Ws[i]))
    BY <2>1, <2>2, <2>3 DEF Computed
  <2> QED
    BY <2>4
<1>7. CASE FUnion
  <2>1. Good(NewObject, MaxOf(Ws))
    BY <1>3, <1>7 DEF FUnion, Computed
  <2> QED
    BY <2>1
<1>8. CASE FPower
  <2>1. Good(Ws[1], Iterated(W1, Node.loop, BoundOf(Node)))
    BY <1>2, <1>8 DEF FPower, Computed, BoundOf
  <2> QED
    BY <2>1
<1>9. CASE FPowerParam
  <2>1. Good(Ws[1], Iterated(W1, Node.loop, BoundOf(Node)))
    BY <1>2, <1>9 DEF FPowerParam, Computed, BoundOf
  <2> QED
    BY <2>1
<1>10. CASE FBProduct
  <2>1. CASE Node.conds \subseteq val.holds
    <3>1. Good(Ws[1], W1)
      BY <1>2, <1>10, <2>1 DEF FBProduct, Computed
    <3> QED
      BY <3>1
  <2>2. CASE ~(Node.conds \subseteq val.holds)
    <3>1. Good(NewObject, Nothing)
      BY <1>3, <1>10, <2>2 DEF FBProduct, Computed, Nothing
    <3> QED
      BY <3>1
  <2> QED
    BY <2>1, <2>2
<1>11. CASE FProduct
  <2>1. Good(Ws[1], Multiplied(W1, Node.k))
    BY <1>2, <1>11 DEF FProduct, Computed
  <2> QED
    BY <2>1
<1>12. CASE Prune
  <2>1. Good(Ws[1], Pruned(W1))
    BY <1>2, <1>12 DEF Prune, Computed
  <2> QED
    BY <2>1
<1>13. CASE FAnnot
  <2>1. CASE Kept(W1, Node.loop, Node.k) /\ Assign(Ws[1], W1)
    <3>1. Good(Ws[1], W1)
      BY <1>2, <1>13, <2>1 DEF FAnnot, Computed
    <3> QED
      BY <3>1
  <2>2. CASE /\ ~Kept(W1, Node.loop, Node.k) /\ AnnotLimit(Node.k) >= 0
             /\ Assign(Ws[1], Annotated(W1, Node.loop, Node.k))
    <3>1. Good(Ws[1], Annotated(W1, Node.loop, Node.k))
      BY <1>2, <1>13, <2>2 DEF FAnnot, Computed
    <3> QED
      BY <3>1
  <2> QED
    BY <1>13, <2>1, <2>2 DEF FAnnot
<1>14. CASE Fault
  BY <1>14 DEF Fault
<1> QED
  BY <1>4, <1>5, <1>6, <1>7, <1>8, <1>9, <1>10, <1>11, <1>12, <1>13, <1>14 DEF Next

LEMMA ComputedLists ==
  ASSUME Variables, AllLists, status = "run", NEW o, NEW x, Computed(o, x)
  PROVE  x \in Lists
<1>1. CASE Node.kind = "const"
  <2>1. x = [loop |-> Node.loop, eta |-> Node.eta, others |-> Node.others]
    BY <1>1 DEF Computed
  <2>2. Node.loop \in Int /\ Node.eta \in Seq(Nat) /\ Node.others \in Nat /\ Decreases(Node)
    BY <1>1, Operation
  <2> QED
    BY <2>1, <2>2 DEF Lists, Objects, Decreases, Elem
<1>2. CASE Node.kind = "param"
  BY <1>2, Operation DEF Computed, AllLists
<1>3. CASE Node.kind = "plus"
  <2>1. PICK i \in DOMAIN Ws : Widest(Ws, i) /\ x = SumOf(Ws, Ws[i])
    BY <1>3 DEF Computed
  <2>2. Operands(Ws)
    BY <1>3, Operation
  <2> QED
    BY <2>1, <2>2, SumOfLists
<1>4. CASE Node.kind = "union"
  BY <1>4, Operation, MaxOfLists DEF Computed
<1>5. CASE Node.kind \in {"power", "powerparam"}
  <2>1. x = Iterated(W1, Node.loop, BoundOf(Node)) /\ W1 \in Lists /\ BoundOf(Node) \in Int
    BY <1>5, Operation DEF Computed
  <2>2. CASE BoundOf(Node) <= 0
    BY <2>1, <2>2, NotIterated, NothingIsList
  <2>3. CASE ~(BoundOf(Node) <= 0)
    <3>1. BoundOf(Node) \in Pos
      BY <2>1, <2>3 DEF Pos
    <3> QED
      BY <2>1, <3>1, IteratedHere, IteratedAround
  <2> QED
    BY <2>2, <2>3
<1>6. CASE Node.kind = "bproduct"
  BY <1>6, Operation, NothingIsList DEF Computed
<1>7. CASE Node.kind = "product"
  <2>1. W1 \in Lists /\ Node.k \in Nat
    BY <1>7, Operation
  <2> QED
    BY <1>7, <2>1, MultipliedLists DEF Computed
<1>8. CASE Node.kind = "prune"
  BY <1>8, Operation, PrunedLists DEF Computed, AllLists
<1>9. CASE Node.kind = "annot"
  <2>1. W1 \in Lists /\ Node.loop \in Int /\ Node.k \in Int /\ Node.k >= -1 /\ MaxSize \in Nat
    BY <1>9, Operation DEF AllLists
  <2>2. CASE x = W1
    BY <2>1, <2>2
  <2>3. CASE ~Kept(W1, Node.loop, Node.k) /\ AnnotLimit(Node.k) >= 0 /\ x = Annotated(W1, Node.loop, Node.k)
    <3>1. Node.k \in Nat
      BY <2>1, <2>3 DEF Kept
    <3> QED
      BY <2>1, <2>3, <3>1, AnnotatedLists
  <2> QED
    BY <1>9, <2>2, <2>3 DEF Computed
<1> QED
  BY <1>1, <1>2, <1>3, <1>4, <1>5, <1>6, <1>7, <1>8, <1>9 DEF Computed

LEMMA StaysLists ==
  ASSUME IInv, AllLists, [Next]_vars
  PROVE  AllLists'
<1>1. CASE UNCHANGED <<MaxSize, formula, val, heap, w>>
  BY <1>1 DEF AllLists
<1>2. CASE Next /\ \E o, x : Left(o) /\ Assign(o, x) /\ Computed(o, x)
  <2>1. PICK o, x : Left(o) /\ Assign(o, x) /\ Computed(o, x)
    BY <1>2
  <2>2. status = "run" /\ Variables
    BY <1>2 DEF Next, IInv
  <2>3. x \in Lists
    BY <2>1, <2>2, ComputedLists
  <2>4. /\ heap' = [p \in DOMAIN heap \cup {o} |-> IF p = o THEN x ELSE heap[p]]
        /\ w' = Append(w, o) /\ MaxSize' = MaxSize /\ formula' = formula /\ val' = val
    BY <2>1 DEF Assign
  <2>5. /\ DOMAIN w' = DOMAIN w \cup {pc}
        /\ w'[pc] = o /\ \A n \in DOMAIN w : w'[n] = w[n]
    BY <2>1, <2>2, <2>4, Appended
  <2>6. \A p \in DOMAIN heap' : heap'[p] \in Lists
    BY <2>3, <2>4 DEF AllLists
  <2>7. \A n \in DOMAIN w' : w'[n] \in DOMAIN heap'
    BY <2>4, <2>5 DEF AllLists
  <2> QED
    BY <2>4, <2>6, <2>7 DEF AllLists, Lists, Decreases, Elem
<1>3. CASE Next
  BY <1>1, <1>2, <1>3, Effects DEF IInv
<1> QED
  BY <1>1, <1>3 DEF vars

LEMMA InitialLists == Init => AllLists
<1> SUFFICES ASSUME Init PROVE AllLists
  OBVIOUS
<1>1. MaxSize \in Nat /\ val \in Valuations /\ heap = val.aw /\ DOMAIN w = {}
  BY LibpwcetAssumption DEF Init
<1>2. Valuation(val)
  BY <1>1, LibpwcetAssumption
<1> QED
  BY <1>1, <1>2 DEF AllLists, Valuation, Lists

(* sum, max, iterate, prune and annot turn lists that decrease into such lists, *)
(* whatever MAX_WCET_SIZE is: every list that is still to be read decreases.    *)
THEOREM ListsDecrease == Spec => []LiveDecreasing
<1>1. IInv /\ AllLists /\ [Next]_vars => (IInv /\ AllLists)'
  BY InductiveStep, StaysLists
<1>2. Init => IInv /\ AllLists
  BY Initially, InitialLists
<1>3. AllLists => LiveDecreasing
  BY DEF AllLists, LiveDecreasing, Live, Lists
<1> QED
  BY <1>1, <1>2, <1>3, PTL DEF Spec

-----------------------------------------------------------------------------
(* What is live stands for what its node denotes                           *)

\* A parameter that no statement has named has its value still.
Untouched ==
  \A p \in Params :
    (\A m \in DOMAIN w : formula[m].kind = "param" => formula[m].param # p) => heap[p] = val.aw[p]

LiveMatch == Comparable => \A n \in Live : Matches(heap[w[n]], Denotation[n])

SoundInv == IInv /\ AllLists /\ Untouched /\ LiveMatch

LEMMA DenotedNode ==
  ASSUME Variables, AllLists, status = "run", NEW xs, xs = Kids(formula, pc, Denotation)
  PROVE  /\ Denotation[pc] \in AP!AWcets /\ Denotation[pc] = Meaning(val, Node, xs)
         /\ Len(xs) = Len(Ws) /\ \A i \in DOMAIN Ws : xs[i] = Denotation[Node.kids[i]]
         /\ Node.kind \notin {"const", "param"} =>
              AP!AreWcets(xs) /\ xs[1] \in AP!AWcets /\ xs[1] = Denotation[Node.kids[1]]
<1>1. /\ Node = formula[pc] /\ pc \in DOMAIN formula /\ formula \in Formulas /\ val \in Valuations
      /\ DOMAIN Ws = DOMAIN Node.kids /\ Len(Ws) = Len(Node.kids)
      /\ Node.kind \notin {"const", "param"} => 1 \in DOMAIN Ws
  BY Operation DEF Variables, AllLists
<1>2. Denotation[pc] \in AP!AWcets /\ Denotation[pc] = Meaning(val, Node, xs)
  BY <1>1, DenotedLaw DEF Denotation
<1>3. \A n \in DOMAIN formula : Denotation[n] \in AP!AWcets
  BY <1>1, DenotedLaw DEF Denotation
<1>4. /\ xs \in Seq(AP!AWcets) /\ Len(xs) = Len(Node.kids) /\ DOMAIN Node.kids = 1..Len(Node.kids)
      /\ \A i \in DOMAIN Node.kids : xs[i] = Denotation[Node.kids[i]]
  BY <1>1, <1>3, KidsLaw
<1>5. ASSUME Node.kind \notin {"const", "param"}
      PROVE  AP!AreWcets(xs) /\ xs[1] \in AP!AWcets /\ xs[1] = Denotation[Node.kids[1]]
  <2>1. xs # <<>>
    BY <1>1, <1>4, <1>5
  <2>2. AP!AreWcets(xs)
    BY <1>4, <2>1 DEF AP!AreWcets
  <2>3. xs[1] \in AP!AWcets
    BY <2>2, AP!Wcets
  <2> QED
    BY <1>1, <1>4, <1>5, <2>2, <2>3
<1> QED
  BY <1>1, <1>2, <1>4, <1>5

LEMMA ParameterMatches ==
  ASSUME Variables, AllLists, Untouched, Comparable, status = "run", Node.kind = "param"
  PROVE  Matches(heap[Node.param], Abstract(val.aw[Node.param]))
<1> DEFINE p == Node.param
<1>1. /\ Node = formula[pc] /\ pc \in DOMAIN formula /\ p \in Params /\ val \in Valuations
  BY Operation DEF AllLists
<1>2. \A m \in DOMAIN w : m \in DOMAIN formula /\ m # pc
  BY Program DEF Variables, pc
<1>3. \A m \in DOMAIN w : formula[m].kind = "param" => formula[m].param # p
  BY <1>1, <1>2 DEF Comparable, Linear
<1>4. heap[p] = val.aw[p]
  BY <1>1, <1>3 DEF Untouched
<1>5. val.aw[p] \in Lists
  BY <1>1, LibpwcetAssumption DEF Valuation, Lists
<1>7. /\ Abstract(val.aw[p]).loop = val.aw[p].loop
      /\ \A i \in Pos : V(Abstract(val.aw[p]).m, i) = Elem(val.aw[p], i) /\ Elem(val.aw[p], i) \in Nat
  BY <1>5, AbstractOfList, ListValues
<1> QED
  BY <1>4, <1>7 DEF Matches

LEMMA ConstantMatches ==
  ASSUME Variables, AllLists, status = "run", Node.kind = "const"
  PROVE  Matches(ListOf(Node), Abstract(Node))
<1>1. /\ Node = formula[pc] /\ pc \in DOMAIN formula /\ Node.loop \in Int
      /\ Node.eta \in Seq(Nat) /\ Node.others \in Nat /\ Decreases(Node)
  BY Operation
<1>3. /\ Abstract(Node).loop = Node.loop /\ ListOf(Node) \in Lists
      /\ \A i \in Pos : V(Abstract(Node).m, i) = Elem(ListOf(Node), i)
  BY <1>1, AbstractLaw
<1>4. \A i \in Pos : Elem(ListOf(Node), i) \in Nat
  BY <1>3, ListValues
<1> QED
  BY <1>3, <1>4 DEF Matches, ListOf

LEMMA ComputedMatches ==
  ASSUME Variables, AllLists, Untouched, LiveMatch, Comparable, SameLoop, status = "run",
         \A i \in DOMAIN Node.kids : Node.kids[i] \in Live,
         NEW o, NEW x, Computed(o, x)
  PROVE  Matches(x, Denotation[pc])
<1> DEFINE xs == Kids(formula, pc, Denotation)
<1>1. /\ Denotation[pc] \in AP!AWcets /\ Denotation[pc] = Meaning(val, Node, xs)
      /\ Len(xs) = Len(Ws) /\ \A i \in DOMAIN Ws : xs[i] = Denotation[Node.kids[i]]
      /\ Node.kind \notin {"const", "param"} =>
              AP!AreWcets(xs) /\ xs[1] \in AP!AWcets /\ xs[1] = Denotation[Node.kids[1]]
  BY DenotedNode
<1>2. /\ Node = formula[pc] /\ pc \in DOMAIN formula /\ Node.loop \in Int /\ MaxSize \in Nat
      /\ DOMAIN Ws = DOMAIN Node.kids /\ DOMAIN Ws = 1..Len(Ws)
      /\ \A i \in DOMAIN Ws : Ws[i] = w[Node.kids[i]]
      /\ Node.kind \notin {"const", "param"} => Operands(Ws) /\ 1 \in DOMAIN Ws /\ W1 \in Lists
  BY Operation DEF AllLists
<1> HIDE DEF xs
<1>3. \A i \in DOMAIN Ws : Matches(heap[Ws[i]], xs[i])
  BY <1>1, <1>2 DEF LiveMatch
<1>4. Node.kind \notin {"const", "param"} => MatchAll(Ws, xs) /\ Matches(W1, xs[1]) /\ W1 \in Lists
  BY <1>1, <1>2, <1>3 DEF MatchAll, W1
<1>5. CASE Node.kind = "const"
  <2>1. x = ListOf(Node) /\ Denotation[pc] = Abstract(Node)
    BY <1>1, <1>5 DEF Computed, ListOf, Meaning
  <2> QED
    BY <1>5, <2>1, ConstantMatches
<1>6. CASE Node.kind = "param"
  <2>1. x = heap[Node.param] /\ Denotation[pc] = Abstract(val.aw[Node.param])
    BY <1>1, <1>6 DEF Computed, Meaning
  <2> QED
    BY <1>6, <2>1, ParameterMatches
<1>7. CASE Node.kind = "plus"
  <2>1. Denotation[pc] = AP!SumAll(xs)
    BY <1>1, <1>7, SameAlgebra DEF Meaning
  <2>2. PICK i \in DOMAIN Ws : Widest(Ws, i) /\ x = SumOf(Ws, Ws[i])
    BY <1>7 DEF Computed
  <2>3. MatchAll(Ws, xs)
    BY <1>4, <1>7
  <2> QED
    BY <2>1, <2>2, <2>3, SumMatches
<1>8. CASE Node.kind = "union"
  <2>1. Denotation[pc] = AP!UnionAll(xs) /\ x = MaxOf(Ws)
    BY <1>1, <1>8, SameAlgebra DEF Meaning, Computed
  <2>2. MatchAll(Ws, xs)
    BY <1>4, <1>8
  <2> QED
    BY <2>1, <2>2, UnionMatches
<1>9. CASE Node.kind \in {"power", "powerparam"}
  <2> DEFINE b == BoundOf(Node)
  <2>1. b \in Int /\ x = Iterated(W1, Node.loop, b)
    BY <1>9, Operation DEF Computed
  <2>2. Iterations(val, Node) = Clamp(b)
    BY <1>9 DEF Iterations, BoundOf, Clamp
  <2>3. Denotation[pc] = AP!Pow(xs[1], AP!Bot, Node.loop, Clamp(b))
    BY <1>1, <1>9, <2>2, SameAlgebra DEF Meaning
  <2>4. W1 \in Lists /\ xs[1] \in AP!AWcets /\ Matches(W1, xs[1])
    BY <1>1, <1>4, <1>9
  <2>5. b <= 0 => xs[1].loop \in {Node.loop, LOOP_TOP}
    <3> SUFFICES ASSUME b <= 0 PROVE xs[1].loop \in {Node.loop, LOOP_TOP}
      OBVIOUS
    <3>1. Iterations(val, Node) = 0
      BY <2>1, <2>2 DEF Clamp
    <3>2. W1.loop = xs[1].loop
      BY <2>4 DEF Matches
    <3> QED
      BY <1>9, <3>1, <3>2 DEF SameLoop
  <2> HIDE DEF b
  <2> QED
    BY <1>2, <2>1, <2>3, <2>4, <2>5, PowerMatches
<1>10. CASE Node.kind = "bproduct"
  <2>1. AP!Bot \in AP!AWcets /\ Matches(Nothing, AP!Bot)
    BY AP!BotLaw, NothingMatches, SameTotals DEF V
  <2>2. Matches(W1, xs[1])
    BY <1>4, <1>10
  <2>3. /\ x = IF Node.conds \subseteq val.holds THEN W1 ELSE Nothing
        /\ Denotation[pc] = IF Node.conds \subseteq val.holds THEN xs[1] ELSE AP!Bot
    BY <1>1, <1>10, SameAlgebra DEF Computed, Meaning
  <2> QED
    BY <2>1, <2>2, <2>3
<1>11. CASE Node.kind = "product"
  <2>1. x = Multiplied(W1, Node.k) /\ Denotation[pc] = AP!Prod(Node.k, xs[1])
    BY <1>1, <1>11, SameAlgebra DEF Computed, Meaning
  <2>2. W1 \in Lists /\ xs[1] \in AP!AWcets /\ Matches(W1, xs[1]) /\ Node.k \in Nat
    BY <1>1, <1>4, <1>11, Operation
  <2> QED
    BY <2>1, <2>2, ProductMatches
<1>12. CASE Node.kind = "prune"
  <2>1. x = Pruned(W1) /\ Denotation[pc] = xs[1]
    BY <1>1, <1>12 DEF Computed, Meaning
  <2>2. W1 \in Lists /\ xs[1] \in AP!AWcets /\ Matches(W1, xs[1])
    BY <1>1, <1>4, <1>12
  <2> QED
    BY <1>2, <2>1, <2>2, PrunedMatches
<1>13. CASE Node.kind = "annot" /\ Node.k = -1
  <2>1. Denotation[pc] = xs[1]
    BY <1>1, <1>13 DEF Meaning
  <2>2. x = W1
    BY <1>13 DEF Computed, Kept
  <2> QED
    BY <1>4, <1>13, <2>1, <2>2
<1>14. CASE Node.kind = "annot" /\ Node.k # -1
  <2>1. Denotation[pc] = AP!Annot(xs[1], Node.loop, Node.k)
    BY <1>1, <1>14, SameAlgebra DEF Meaning
  <2>2. W1 \in Lists /\ xs[1] \in AP!AWcets /\ Matches(W1, xs[1])
    BY <1>1, <1>4, <1>14
  <2>3. Node.k \in Nat
    <3>1. Node.k \in Int /\ Node.k >= -1
      BY <1>14, Operation
    <3> QED
      BY <1>14, <3>1
  <2>4. /\ ~Kept(W1, Node.loop, Node.k)
        /\ W1.eta = <<>> => AP!Glb(W1.loop, Node.loop) = Node.loop
    BY <1>14, SameGlb DEF SameLoop
  <2>5. AnnotLimit(Node.k) >= 0 /\ x = Annotated(W1, Node.loop, Node.k)
    BY <1>14, <2>4 DEF Computed
  <2> QED
    BY <1>2, <2>1, <2>2, <2>3, <2>4, <2>5, AnnotMatches
<1> QED
  BY <1>5, <1>6, <1>7, <1>8, <1>9, <1>10, <1>11, <1>12, <1>13, <1>14 DEF Computed

LEMMA StaysSound == SoundInv /\ [SoundNext]_<<vars, sameLoops>> => SoundInv'
<1> SUFFICES ASSUME SoundInv, [SoundNext]_<<vars, sameLoops>> PROVE SoundInv'
  OBVIOUS
<1>1. IInv /\ AllLists /\ Untouched /\ LiveMatch /\ Variables
  BY DEF SoundInv, IInv
<1>2. IInv' /\ AllLists'
  <2>1. [Next]_vars
    BY DEF SoundNext
  <2> QED
    BY <1>1, <2>1, InductiveStep, StaysLists
<1>3. SoundNext => Next /\ (sameLoops' => sameLoops /\ SameLoop)
  BY Zenon DEF SoundNext
<1>4. CASE UNCHANGED <<MaxSize, formula, val, heap, w>> /\ (sameLoops' => sameLoops)
  <2>1. Untouched'
    BY <1>1, <1>4 DEF Untouched
  <2>2. Denotation' = Denotation /\ Live' = Live /\ (Comparable' => Comparable)
    BY <1>4 DEF Comparable, Live, Linear, Denotation
  <2>3. LiveMatch'
    BY <1>1, <1>4, <2>2 DEF LiveMatch, Matches, Elem
  <2> QED
    BY <1>2, <2>1, <2>3 DEF SoundInv
<1>5. CASE SoundNext /\ \E o, x : Left(o) /\ Assign(o, x) /\ Computed(o, x)
  <2>1. PICK o, x : Left(o) /\ Assign(o, x) /\ Computed(o, x)
    BY <1>5
  <2>2. status = "run"
    BY <1>3, <1>5 DEF Next
  <2>3. /\ heap' = [p \in DOMAIN heap \cup {o} |-> IF p = o THEN x ELSE heap[p]]
        /\ w' = Append(w, o) /\ MaxSize' = MaxSize /\ formula' = formula /\ val' = val
    BY <2>1 DEF Assign
  <2>4. /\ DOMAIN w' = DOMAIN w \cup {pc} /\ pc \notin DOMAIN w
        /\ w'[pc] = o /\ \A n \in DOMAIN w : w'[n] = w[n]
        /\ \A n \in Live' : n # pc => n \in Live
        /\ \A i \in DOMAIN Node.kids : Node.kids[i] \in Live
    BY <1>1, <2>1, <2>2, <2>3, Appended
  <2>5. /\ Node = formula[pc] /\ pc \in Nat /\ Len(w) \in Nat /\ DOMAIN w = 1..Len(w)
        /\ \A i \in DOMAIN Node.kids : Node.kids[i] \in DOMAIN w
    BY <1>1, <2>2, <2>4, Program DEF Node, Live
  <2>6. Untouched'
    <3> SUFFICES ASSUME NEW p \in Params,
                        \A m \in DOMAIN w' : formula[m].kind = "param" => formula[m].param # p
                 PROVE  heap'[p] = val.aw[p]
      BY <2>3 DEF Untouched
    <3>1. heap[p] = val.aw[p] /\ p \in DOMAIN heap
      BY <1>1, <2>4 DEF Untouched, AllLists
    <3>2. CASE o = pc
      <4>1. p # o
        BY <2>5, <3>2, LibpwcetAssumption
      <4> QED
        BY <2>3, <3>1, <4>1
    <3>3. CASE Node.kind = "param" /\ o = Node.param
      <4>1. p # o
        BY <2>4, <2>5, <3>3
      <4> QED
        BY <2>3, <3>1, <4>1
    <3>4. CASE \E i \in DOMAIN Node.kids : o = w[Node.kids[i]]
      <4>1. PICK i \in DOMAIN Node.kids : o = w[Node.kids[i]]
        BY <3>4
      <4>2. PICK n \in DOMAIN w : o = w[n]
        BY <2>5, <4>1
      <4>3. n \in 1..Len(w) /\ \A m \in 1..n : m \in DOMAIN w'
        BY <2>4, <2>5
      <4>4. \/ w[n] \in 1..n
            \/ \E m \in 1..n : m \in DOMAIN formula /\ formula[m].kind = "param" /\ formula[m].param = w[n]
        BY <1>1 DEF IInv, Names
      <4>5. p \notin 1..n
        BY <4>3, LibpwcetAssumption
      <4>6. p # o
        BY <4>2, <4>3, <4>4, <4>5
      <4> QED
        BY <2>3, <3>1, <4>6
    <3> QED
      BY <2>1, <3>2, <3>3, <3>4 DEF Left
  <2>7. LiveMatch'
    <3>1. Denotation' = Denotation /\ (Comparable' => Comparable /\ SameLoop)
      BY <1>3, <1>5, <2>3 DEF Denotation, Comparable, Linear
    <3>2. \A q, y : Matches(q, y)' <=> Matches(q, y)
      BY <2>3 DEF Matches, Elem
    <3> SUFFICES ASSUME Comparable, SameLoop, NEW n \in Live'
                 PROVE  Matches(heap'[w'[n]], Denotation[n])
      BY <2>3, <3>1, <3>2 DEF LiveMatch, Matches
    <3>3. CASE n = pc
      <4>1. heap'[w'[n]] = x
        BY <2>3, <2>4, <3>3
      <4>2. Matches(x, Denotation[pc])
        BY <1>1, <2>1, <2>2, <2>4, ComputedMatches
      <4> QED
        BY <3>3, <4>1, <4>2
    <3>4. CASE n # pc
      <4>1. n \in Live /\ n \in DOMAIN w /\ w'[n] = w[n] /\ w[n] \in DOMAIN heap
        BY <1>1, <2>4, <3>4 DEF Live, AllLists
      <4>2. w[n] # o
        BY <1>1, <2>1, <2>2, <2>3, <3>4, Apart DEF Comparable
      <4>3. heap'[w'[n]] = heap[w[n]]
        BY <2>3, <4>1, <4>2
      <4> QED
        BY <1>1, <4>1, <4>3 DEF LiveMatch
    <3> QED
      BY <3>3, <3>4
  <2> QED
    BY <1>2, <2>6, <2>7 DEF SoundInv
<1>6. CASE SoundNext
  <2>1. Next /\ (sameLoops' => sameLoops)
    BY <1>3, <1>6
  <2> QED
    BY <1>1, <1>4, <1>5, <1>6, <2>1, Effects
<1>7. CASE UNCHANGED <<vars, sameLoops>>
  BY <1>4, <1>7 DEF vars
<1> QED
  BY <1>6, <1>7

LEMMA InitiallySound == SoundInit => SoundInv
<1> SUFFICES ASSUME SoundInit PROVE SoundInv
  OBVIOUS
<1>1. IInv /\ AllLists
  BY Initially, InitialLists DEF SoundInit
<1>2. heap = val.aw /\ DOMAIN w = {}
  BY DEF SoundInit, Init
<1> QED
  BY <1>1, <1>2 DEF SoundInv, Untouched, LiveMatch, Live

LEMMA Compares ==
  ASSUME SoundInv, Comparable, NEW n \in Live
  PROVE  /\ n \in DOMAIN formula
         /\ \A i \in 1..(Len(heap[w[n]].eta) + Len(Denotation[n].m.wl) + 1) :
              /\ Elem(heap[w[n]], i) >= Algebra!Value(Denotation[n].m, i)
              /\ MaxSize = 0 => Elem(heap[w[n]], i) = Algebra!Value(Denotation[n].m, i)
<1> DEFINE o == heap[w[n]]
           x == Denotation[n]
<1>1. /\ Variables /\ AllLists /\ LiveMatch /\ n \in DOMAIN w
      /\ formula \in Formulas /\ val \in Valuations
  BY DEF SoundInv, IInv, Live, Variables, AllLists
<1>2. n \in DOMAIN formula
  BY <1>1, Program DEF Variables
<1>3. o \in Lists /\ x \in AP!AWcets /\ Matches(o, x)
  BY <1>1, <1>2, DenotedLaw DEF AllLists, LiveMatch, Denotation
<1>4. Len(o.eta) \in Nat /\ Len(x.m.wl) \in Nat
  <2>1. o.eta \in Seq(Nat)
    BY <1>3 DEF Lists, Objects
  <2>2. x.m \in AP!MultiWcets
    BY <1>3, AP!AWcetParts DEF AP!DecreasingWcets
  <2>3. Len(x.m.wl) \in Nat
    BY <2>2, AP!ListLength
  <2> QED
    BY <2>1, <2>3, LenProperties
<1> HIDE DEF o, x
<1>5. \A i \in 1..(Len(o.eta) + Len(x.m.wl) + 1) : i \in Pos
  BY <1>4 DEF Pos
<1>6. \A i \in Pos : /\ V(x.m, i) \in Nat /\ Elem(o, i) \in Nat
                     /\ Elem(o, i) >= V(x.m, i) /\ (MaxSize = 0 => Elem(o, i) = V(x.m, i))
  BY <1>3, MatchedValues
<1>7. \A i : Algebra!Value(x.m, i) = V(x.m, i)
  BY SameAlgebra
<1> QED
  BY <1>2, <1>5, <1>6, <1>7 DEF o, x

(* Without a limit on the size of lists, the library computes what the algebra *)
(* does, for every formula, valuation and loop hierarchy: in place, with        *)
(* cursors, dividing by subtraction.                                            *)
THEOREM ListsAreExact == SoundSpec => []LiveExact
<1>1. SoundInv => LiveExact
  BY Compares DEF LiveExact, LivePositions
<1> QED
  BY <1>1, InitiallySound, StaysSound, PTL DEF SoundSpec

(* With any limit, no value it computes is below the one of the algebra.         *)
THEOREM ListsAreSound == SoundSpec => []LiveSound
<1>1. SoundInv => LiveSound
  BY Compares DEF LiveSound, LivePositions
<1> QED
  BY <1>1, InitiallySound, StaysSound, PTL DEF SoundSpec

(* The number wcet() returns covers the WCET of the procedure, if no parameter    *)
(* occurs twice and every list was related to the loop the algebra relates it to. *)
THEOREM AnswersAreSound == SoundSpec => [](Comparable => AnswerSound)
<1>1. SoundInv => (Comparable => AnswerSound)
  <2> SUFFICES ASSUME SoundInv, Comparable, status = "done"
               PROVE  Answer >= Algebra!Value(Denotation[Len(formula)].m, 1)
    BY DEF AnswerSound
  <2> DEFINE n == Len(formula)
  <2>1. Variables /\ AllLists
    BY DEF SoundInv, IInv
  <2>2. /\ WellFormed(formula) /\ n \in Nat \ {0} /\ DOMAIN formula = 1..n
        /\ DOMAIN w = 1..Len(w) /\ Len(w) = n
    BY <2>1, Program DEF Variables
  <2>3. n \in Live
    <3> SUFFICES ASSUME NEW m \in DOMAIN w, NEW i \in DOMAIN formula[m].kids
                 PROVE  formula[m].kids[i] # n
      BY <2>2 DEF Live
    <3>1. formula[m].kids \in Seq(1..(m - 1))
      <4>1. m \in DOMAIN formula
        BY <2>2
      <4> QED
        BY <2>2, <4>1 DEF WellFormed
    <3>2. formula[m].kids[i] \in 1..(m - 1)
      <4>1. \A S : \A s \in Seq(S) : \A j \in DOMAIN s : s[j] \in S
        BY LenProperties, ElementOfSeq
      <4> QED
        BY <3>1, <4>1, Zenon
    <3> QED
      BY <2>2, <3>2
  <2>4. /\ Len(heap[w[n]].eta) \in Nat /\ Len(Denotation[n].m.wl) \in Nat
    <3>1. heap[w[n]] \in Lists /\ Denotation[n] \in AP!AWcets
      BY <2>1, <2>2, DenotedLaw DEF AllLists, Variables, Denotation
    <3>2. heap[w[n]].eta \in Seq(Nat) /\ Denotation[n].m \in AP!MultiWcets
      BY <3>1, AP!AWcetParts DEF Lists, Objects, AP!DecreasingWcets
    <3> QED
      BY <3>2, LenProperties, AP!ListLength
  <2>5. 1 \in 1..(Len(heap[w[n]].eta) + Len(Denotation[n].m.wl) + 1)
    <3>1. \A a, b \in Nat : 1 \in 1..(a + b + 1)
      OBVIOUS
    <3> QED
      BY <2>4, <3>1, Zenon
  <2>6. Elem(heap[w[n]], 1) >= Algebra!Value(Denotation[n].m, 1)
    <3> HIDE DEF n
    <3> QED
      BY <2>3, <2>5, Compares
  <2> QED
    BY <2>6 DEF Answer
<1> QED
  BY <1>1, InitiallySound, StaysSound, PTL DEF SoundSpec
=============================================================================
