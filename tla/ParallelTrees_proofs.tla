------------------------ MODULE ParallelTrees_proofs ------------------------
(***************************************************************************)
(* Proofs about ParallelTrees, for any number of paths, threads and trees. *)
(***************************************************************************)
EXTENDS ParallelTrees, FiniteSetTheorems, TLAPS

USE DEF Threads, None

\* The threads started so far, and where they may be.
Started == {t \in Threads : pc[t] # "none"}

\* How far the exporting thread has come in sharing out the paths.
Phases ==
  /\ main \in {"list", "NoPathException"} =>
       /\ i = 0 /\ beg = 1 /\ Started = {}
  /\ main \notin {"list", "NoPathException"} =>
       npaths > 0 /\ (1..Subtrees) \ Barren \subseteq cached
  /\ main = "spawn" =>
       /\ i <= nb_threads
       /\ i < nb_threads => beg = 1 + i * size
       /\ Started = 0..(i - 1)
  /\ main = "join" =>
       /\ i <= nb_threads
       /\ Started = 0..(nb_threads - 1)
       /\ \A t \in 0..(i - 1) : pc[t] = "end"
  /\ main \in {"check", "export", "ParallelizationException"} =>
       \A t \in Threads : pc[t] \in {"none", "end"}

Unshared == IF main = "list" \/ (main = "spawn" /\ i < nb_threads) THEN beg..npaths ELSE {}

\* Every path is in the map, with a thread, or still to be shared out, and in
\* one of these places only.
Places ==
  /\ main # "NoPathException" =>
       \A p \in 1..npaths : p \in trees \/ p \in Unshared \/ \E t \in Threads : p \in todo[t]
  /\ trees \cap Unshared = {}
  /\ \A t \in Threads : todo[t] \cap Unshared = {}

Work ==
  \A t \in Threads :
    /\ pc[t] \in {"none", "end"} => todo[t] = {}
    /\ pc[t] \in {"look", "read", "write", "lock", "emplace"} => todo[t] # {}
    /\ pc[t] \in {"read", "write"} => at[t] <= Subtrees
    /\ pc[t] = "write" => at[t] \in Barren

Mutex ==
  \A t \in Threads : /\ pc[t] = "emplace" <=> mtx = t
                     /\ pc[t] = "emplace" => seen[t] = trees

IInv == TypeOK /\ Phases /\ Places /\ Work /\ Mutex /\ BuiltOnce

-----------------------------------------------------------------------------
LEMMA MulMonotone ==
  ASSUME NEW a \in Nat, NEW b \in Nat, NEW c \in Nat, a <= b
  PROVE  a * c <= b * c
BY (b - a) * c >= 0, SMT

\* The chunks of all threads but the last lie inside of the set.
LEMMA ChunkFits ==
  ASSUME NEW n \in Nat \ {0}, NEW b \in 1..n, NEW k \in 0..(b - 1)
  PROVE  /\ n \div b \in Nat
         /\ (k + 1) * (n \div b) = k * (n \div b) + n \div b
         /\ (k + 1) * (n \div b) <= n
<1> DEFINE s == n \div b
<1>1. s \in Nat /\ b * s <= n
  BY SMT
<1>2. (k + 1) * s <= b * s
  BY <1>1, MulMonotone
<1>3. (k + 1) * s = k * s + s
  BY <1>1, SMT
<1> QED
  BY <1>1, <1>2, <1>3, SMT

-----------------------------------------------------------------------------
LEMMA InitIInv == Init => IInv
<1> SUFFICES ASSUME Init PROVE IInv
  OBVIOUS
<1> USE ParallelAssumption DEF Init
<1>1. TypeOK
  BY DEF TypeOK, MainStates, ThreadStates
<1>2. Phases
  BY DEF Phases, Started
<1>3. Places
  BY DEF Places, Unshared
<1>4. Work /\ Mutex /\ BuiltOnce
  BY DEF Work, Mutex, BuiltOnce
<1> QED
  BY <1>1, <1>2, <1>3, <1>4 DEF IInv

-----------------------------------------------------------------------------
(* Steps of the exporting thread                                           *)

LEMMA ListPathsIInv ==
  ASSUME IInv, ListPaths
  PROVE  IInv'
<1> USE ParallelAssumption DEF IInv, TypeOK, Phases, Work, ListPaths, mainVars, threadVars
<1>1. TypeOK'
  BY DEF MainStates, ThreadStates
<1>2. Phases'
  BY SMTT(40) DEF Started, nb_threads, size
<1>3. Places'
  BY SMTT(40) DEF Places, Unshared, nb_threads
<1>4. Work'
  OBVIOUS
<1>5. Mutex'
  BY DEF Mutex
<1>6. BuiltOnce'
  BY DEF BuiltOnce
<1> QED
  BY <1>1, <1>2, <1>3, <1>4, <1>5, <1>6

LEMMA SpawnIInv ==
  ASSUME IInv, Spawn
  PROVE  IInv'
<1> USE ParallelAssumption DEF IInv, TypeOK, Phases, Work, Spawn, mainVars, threadVars
<1> DEFINE hi == ChunkEnd - 1
<1>1. /\ nb_threads \in 1..npaths
      /\ nb_threads <= MaxThreads
      /\ i \in 0..(nb_threads - 1)
      /\ i \in Threads
  BY DEF nb_threads
<1>2. /\ size \in Nat
      /\ (i + 1) * size = i * size + size
      /\ (i + 1) * size <= npaths
  <2>1. npaths \in Nat \ {0}
    BY <1>1
  <2> QED
    BY ONLY <1>1, <2>1, ChunkFits DEF size
<1>3. i * size \in Nat /\ beg = 1 + i * size
  BY <1>1, <1>2
<1>4. beg \in 1..(npaths + 1) /\ beg + size \in 1..(npaths + 1)
  BY <1>1, <1>2, <1>3
<1>5. /\ ChunkEnd \in 1..(npaths + 1)
      /\ i < nb_threads - 1 => hi + 1 = beg' /\ beg' = 1 + i' * size
      /\ i = nb_threads - 1 => hi = npaths
      /\ beg <= hi + 1
  BY <1>1, <1>2, <1>3, <1>4 DEF ChunkEnd
<1>6. pc[i] = "none" /\ todo[i] = {}
  <2>1. i \notin Started
    BY <1>1
  <2>2. pc[i] = "none"
    BY ONLY <1>1, <2>1 DEF Started
  <2> QED
    BY <1>1, <2>2
<1>7. size' = size /\ nb_threads' = nb_threads
  BY DEF size, nb_threads
<1> HIDE DEF hi
<1>8. todo' = [todo EXCEPT ![i] = beg..hi]
  BY DEF hi
<1>9. Unshared = beg..npaths /\ Unshared' = IF i < nb_threads - 1 THEN (hi + 1)..npaths ELSE {}
  BY <1>1, <1>5, <1>7 DEF Unshared
<1>10. hi \in 0..npaths
  BY <1>5 DEF hi
<1>11. TypeOK'
  <2>1. todo' \in [Threads -> SUBSET (1..npaths)]
    <3>1. beg..hi \subseteq 1..npaths
      BY <1>4, <1>10
    <3> QED
      BY <1>1, <1>8, <3>1
  <2>2. beg' \in 1..(MaxPaths + 1) /\ i' \in 0..MaxThreads
    BY <1>1, <1>4
  <2>3. pc' \in [Threads -> ThreadStates]
    BY <1>1 DEF ThreadStates
  <2> QED
    BY <2>1, <2>2, <2>3 DEF MainStates
<1>12. Phases'
  <2>1. Started' = 0..i
    <3>1. \A t \in Threads : pc'[t] # "none" <=> pc[t] # "none" \/ t = i
      BY <1>1 DEF ThreadStates
    <3> QED
      BY <3>1, <1>1 DEF Started
  <2>2. i' <= nb_threads /\ (i' < nb_threads => beg' = 1 + i' * size)
    BY <1>1, <1>5
  <2> QED
    BY <1>1, <1>7, <2>1, <2>2
<1>13. Places'
  <2>1. ASSUME NEW q \in 1..npaths
        PROVE  q \in trees \/ q \in Unshared' \/ \E t \in Threads : q \in todo'[t]
    <3>1. q \in Unshared => q \in Unshared' \/ q \in todo'[i]
      BY <1>1, <1>4, <1>5, <1>8, <1>9, <1>10, SMTT(40)
    <3>2. ASSUME NEW t \in Threads, q \in todo[t]
          PROVE  q \in todo'[t]
      BY <1>6, <1>8, <3>2
    <3> QED
      BY <1>1, <3>1, <3>2 DEF Places
  <2>2. Unshared' \subseteq Unshared
    BY ONLY <1>4, <1>5, <1>9, <1>10
  <2>3. \A t \in Threads : todo'[t] \cap Unshared' = {}
    <3>1. (beg..hi) \cap Unshared' = {}
      BY ONLY <1>4, <1>9, <1>10
    <3> QED
      BY <1>1, <1>8, <2>2, <3>1 DEF Places
  <2> QED
    BY <2>1, <2>2, <2>3 DEF Places
<1>14. Work'
  <2>1. todo'[i] # {} \/ pc'[i] = "next"
    BY <1>1
  <2> QED
    BY <1>1, <2>1 DEF ThreadStates
<1>15. Mutex'
  BY <1>1, <1>6 DEF Mutex
<1>16. BuiltOnce'
  <2>1. beg..hi \subseteq Unshared
    BY <1>4, <1>9, <1>10
  <2>2. \A t \in Threads : todo[t] \cap (beg..hi) = {}
    BY <2>1 DEF Places
  <2>3. trees' \cap (beg..hi) = {}
    BY <2>1 DEF Places
  <2>4. \A t \in Threads : todo'[t] = IF t = i THEN beg..hi ELSE todo[t]
    BY <1>1, <1>8
  <2> QED
    BY <2>2, <2>3, <2>4 DEF BuiltOnce
<1> QED
  BY <1>11, <1>12, <1>13, <1>14, <1>15, <1>16

LEMMA SpawnedIInv ==
  ASSUME IInv, Spawned
  PROVE  IInv'
<1> USE ParallelAssumption DEF IInv, TypeOK, Phases, Work, Spawned, mainVars, threadVars
<1>1. TypeOK'
  BY DEF MainStates, ThreadStates
<1>2. Phases'
  BY SMTT(40) DEF Started, nb_threads, size
<1>3. Places'
  BY SMTT(40) DEF Places, Unshared, nb_threads
<1>4. Work'
  OBVIOUS
<1>5. Mutex'
  BY DEF Mutex
<1>6. BuiltOnce'
  BY DEF BuiltOnce
<1> QED
  BY <1>1, <1>2, <1>3, <1>4, <1>5, <1>6

LEMMA JoinIInv ==
  ASSUME IInv, Join
  PROVE  IInv'
<1> USE ParallelAssumption DEF IInv, TypeOK, Phases, Work, Join, mainVars, threadVars
<1>1. TypeOK'
  BY DEF MainStates, ThreadStates, nb_threads
<1>2. Phases'
  BY SMTT(40) DEF Started, nb_threads, size
<1>3. Places'
  BY SMTT(40) DEF Places, Unshared, nb_threads
<1>4. Work'
  OBVIOUS
<1>5. Mutex'
  BY DEF Mutex
<1>6. BuiltOnce'
  BY DEF BuiltOnce
<1> QED
  BY <1>1, <1>2, <1>3, <1>4, <1>5, <1>6

LEMMA JoinedIInv ==
  ASSUME IInv, Joined
  PROVE  IInv'
<1> USE ParallelAssumption DEF IInv, TypeOK, Phases, Work, Joined, mainVars, threadVars
<1>1. TypeOK'
  BY DEF MainStates, ThreadStates
<1>2. Phases'
  BY ZenonT(40) DEF Started, nb_threads, size
<1>3. Places'
  BY SMTT(40) DEF Places, Unshared, nb_threads
<1>4. Work'
  OBVIOUS
<1>5. Mutex'
  BY DEF Mutex
<1>6. BuiltOnce'
  BY DEF BuiltOnce
<1> QED
  BY <1>1, <1>2, <1>3, <1>4, <1>5, <1>6

LEMMA CheckIInv ==
  ASSUME IInv, Check
  PROVE  IInv'
<1> USE ParallelAssumption DEF IInv, TypeOK, Phases, Work, Check, mainVars, threadVars
<1>1. TypeOK'
  BY DEF MainStates, ThreadStates
<1>2. Phases'
  BY SMTT(40) DEF Started, nb_threads, size
<1>3. Places'
  BY SMTT(40) DEF Places, Unshared, nb_threads
<1>4. Work'
  OBVIOUS
<1>5. Mutex'
  BY DEF Mutex
<1>6. BuiltOnce'
  BY DEF BuiltOnce
<1> QED
  BY <1>1, <1>2, <1>3, <1>4, <1>5, <1>6

-----------------------------------------------------------------------------
(* Steps of the threads                                                    *)

LEMMA TakeIInv ==
  ASSUME IInv, NEW t \in Threads, Take(t)
  PROVE  IInv'
<1> USE ParallelAssumption DEF IInv, TypeOK, Phases, Work, Take, mainVars, threadVars, To
<1>1. TypeOK'
  BY DEF MainStates, ThreadStates
<1>2. Phases'
  BY SMTT(40) DEF Started, nb_threads, size
<1>3. Places'
  BY SMTT(40) DEF Places, Unshared, nb_threads
<1>4. Work'
  OBVIOUS
<1>5. Mutex'
  BY DEF Mutex
<1>6. BuiltOnce'
  BY DEF BuiltOnce
<1> QED
  BY <1>1, <1>2, <1>3, <1>4, <1>5, <1>6

LEMMA LookIInv ==
  ASSUME IInv, NEW t \in Threads, Look(t)
  PROVE  IInv'
<1> USE ParallelAssumption DEF IInv, TypeOK, Phases, Work, Look, mainVars, threadVars, To
<1>1. TypeOK'
  BY DEF MainStates, ThreadStates
<1>2. Phases'
  BY SMTT(40) DEF Started, nb_threads, size
<1>3. Places'
  BY SMTT(40) DEF Places, Unshared, nb_threads
<1>4. Work'
  OBVIOUS
<1>5. Mutex'
  BY DEF Mutex
<1>6. BuiltOnce'
  BY DEF BuiltOnce
<1> QED
  BY <1>1, <1>2, <1>3, <1>4, <1>5, <1>6

LEMMA ReuseIInv ==
  ASSUME IInv, NEW t \in Threads, Reuse(t)
  PROVE  IInv'
<1> USE ParallelAssumption DEF IInv, TypeOK, Phases, Work, Reuse, mainVars, threadVars, To
<1>1. TypeOK'
  BY DEF MainStates, ThreadStates
<1>2. Phases'
  BY SMTT(40) DEF Started, nb_threads, size
<1>3. Places'
  BY SMTT(40) DEF Places, Unshared, nb_threads
<1>4. Work'
  OBVIOUS
<1>5. Mutex'
  BY DEF Mutex
<1>6. BuiltOnce'
  BY DEF BuiltOnce
<1> QED
  BY <1>1, <1>2, <1>3, <1>4, <1>5, <1>6

LEMMA ComputeIInv ==
  ASSUME IInv, NEW t \in Threads, Compute(t)
  PROVE  IInv'
<1> USE ParallelAssumption DEF IInv, TypeOK, Phases, Work, Compute, mainVars, threadVars, To
<1>1. TypeOK'
  BY DEF MainStates, ThreadStates
<1>2. Phases'
  BY SMTT(40) DEF Started, nb_threads, size
<1>3. Places'
  BY SMTT(40) DEF Places, Unshared, nb_threads
<1>4. Work'
  <2>1. (1..Subtrees) \ Barren \subseteq cached
    BY DEF Started
  <2>2. at[t] \in 1..Subtrees /\ at[t] \in Barren
    BY <2>1
  <2> QED
    BY <2>2 DEF ThreadStates
<1>5. Mutex'
  BY DEF Mutex
<1>6. BuiltOnce'
  BY DEF BuiltOnce
<1> QED
  BY <1>1, <1>2, <1>3, <1>4, <1>5, <1>6

LEMMA KeepIInv ==
  ASSUME IInv, NEW t \in Threads, Keep(t)
  PROVE  IInv'
<1> USE ParallelAssumption DEF IInv, TypeOK, Phases, Work, Keep, mainVars, threadVars, To
<1>1. TypeOK'
  <2>1. at[t] \in 1..Subtrees
    OBVIOUS
  <2>2. at' \in [Threads -> 1..(Subtrees + 1)]
    BY <2>1
  <2>3. cached' \subseteq 1..Subtrees
    BY <2>1
  <2>4. pc' \in [Threads -> ThreadStates]
    BY DEF ThreadStates
  <2> QED
    BY <2>2, <2>3, <2>4 DEF MainStates
<1>2. Phases'
  BY SMTT(40) DEF Started, nb_threads, size
<1>3. Places'
  BY SMTT(40) DEF Places, Unshared, nb_threads
<1>4. Work'
  OBVIOUS
<1>5. Mutex'
  BY DEF Mutex
<1>6. BuiltOnce'
  BY DEF BuiltOnce
<1> QED
  BY <1>1, <1>2, <1>3, <1>4, <1>5, <1>6

LEMMA BuiltIInv ==
  ASSUME IInv, NEW t \in Threads, Built(t)
  PROVE  IInv'
<1> USE ParallelAssumption DEF IInv, TypeOK, Phases, Work, Built, mainVars, threadVars, To
<1>1. TypeOK'
  BY DEF MainStates, ThreadStates
<1>2. Phases'
  BY SMTT(40) DEF Started, nb_threads, size
<1>3. Places'
  BY SMTT(40) DEF Places, Unshared, nb_threads
<1>4. Work'
  OBVIOUS
<1>5. Mutex'
  BY DEF Mutex
<1>6. BuiltOnce'
  BY DEF BuiltOnce
<1> QED
  BY <1>1, <1>2, <1>3, <1>4, <1>5, <1>6

LEMMA LockIInv ==
  ASSUME IInv, NEW t \in Threads, Lock(t)
  PROVE  IInv'
<1> USE ParallelAssumption DEF IInv, TypeOK, Phases, Work, Lock, mainVars, threadVars, To
<1>1. TypeOK'
  BY DEF MainStates, ThreadStates
<1>2. Phases'
  BY SMTT(40) DEF Started, nb_threads, size
<1>3. Places'
  BY SMTT(40) DEF Places, Unshared, nb_threads
<1>4. Work'
  OBVIOUS
<1>5. Mutex'
  BY DEF Mutex
<1>6. BuiltOnce'
  BY DEF BuiltOnce
<1> QED
  BY <1>1, <1>2, <1>3, <1>4, <1>5, <1>6

LEMMA EmplaceIInv ==
  ASSUME IInv, NEW t \in Threads, Emplace(t)
  PROVE  IInv'
<1> USE ParallelAssumption DEF IInv, TypeOK, Work, Emplace, mainVars, To
<1>1. PICK p \in todo[t] : trees' = seen[t] \cup {p} /\ todo' = [todo EXCEPT ![t] = @ \ {p}]
  OBVIOUS
<1>2. trees' = trees \cup {p} /\ p \in 1..npaths
  BY <1>1 DEF Mutex
<1>3. main \in {"spawn", "join"} /\ t \in Started
  BY DEF Phases, Started, MainStates
<1>4. TypeOK'
  <2>1. todo' \in [Threads -> SUBSET (1..npaths)]
    BY <1>1
  <2>2. pc' \in [Threads -> ThreadStates]
    BY DEF ThreadStates
  <2> QED
    BY <1>2, <2>1, <2>2
<1>5. Phases'
  <2>1. \A u \in Threads : /\ pc'[u] = "none" <=> pc[u] = "none"
                           /\ pc[u] = "end" => pc'[u] = "end"
    OBVIOUS
  <2>2. Started' = Started
    BY <2>1 DEF Started
  <2>3. main = "join" => \A u \in 0..(i - 1) : pc'[u] = "end"
    BY <2>1, <1>3 DEF Phases, Started
  <2> QED
    BY <1>3, <2>2, <2>3 DEF Phases, nb_threads, size
<1>6. Places'
  <2>1. Unshared' = Unshared
    BY DEF Unshared, nb_threads
  <2>2. \A u \in Threads : todo'[u] \subseteq todo[u] /\ todo[u] \subseteq todo'[u] \cup {p}
    BY <1>1
  <2>3. p \notin Unshared
    BY DEF Places
  <2>4. ASSUME NEW q \in 1..npaths
        PROVE  q \in trees' \/ q \in Unshared' \/ \E u \in Threads : q \in todo'[u]
    BY <1>2, <1>3, <2>1, <2>2 DEF Places
  <2>5. \A u \in Threads : todo'[u] \cap Unshared' = {}
    BY <2>1, <2>2 DEF Places
  <2>6. trees' \cap Unshared' = {}
    BY <1>2, <2>1, <2>3 DEF Places
  <2> QED
    BY <2>4, <2>5, <2>6 DEF Places
<1>7. Work'
  BY <1>1 DEF ThreadStates
<1>8. Mutex'
  BY <1>2 DEF Mutex
<1>9. BuiltOnce'
  <2>1. \A u \in Threads : todo'[u] \subseteq todo[u] /\ p \notin todo'[u]
    BY <1>1 DEF BuiltOnce
  <2> QED
    BY <1>2, <2>1, SMTT(40) DEF BuiltOnce
<1> QED
  BY <1>4, <1>5, <1>6, <1>7, <1>8, <1>9

LEMMA EndIInv ==
  ASSUME IInv, NEW t \in Threads, End(t)
  PROVE  IInv'
<1> USE ParallelAssumption DEF IInv, TypeOK, Phases, Work, End, mainVars, threadVars, To
<1>1. TypeOK'
  BY DEF MainStates, ThreadStates
<1>2. Phases'
  BY SMTT(40) DEF Started, nb_threads, size
<1>3. Places'
  BY SMTT(40) DEF Places, Unshared, nb_threads
<1>4. Work'
  OBVIOUS
<1>5. Mutex'
  BY DEF Mutex
<1>6. BuiltOnce'
  BY DEF BuiltOnce
<1> QED
  BY <1>1, <1>2, <1>3, <1>4, <1>5, <1>6

-----------------------------------------------------------------------------
LEMMA StutterIInv == IInv /\ UNCHANGED vars => IInv'
BY DEF IInv, TypeOK, Phases, Started, Places, Unshared, Work, Mutex, BuiltOnce, vars,
       nb_threads, size

\* The places of the paths and the phases of the threads are invariant: they
\* are what TypeOK and BuiltOnce need to be inductive.
THEOREM Invariance == Spec => []IInv
<1>1. IInv /\ [Next]_vars => IInv'
  BY ListPathsIInv, SpawnIInv, SpawnedIInv, JoinIInv, JoinedIInv, CheckIInv,
     TakeIInv, LookIInv, ReuseIInv, ComputeIInv, KeepIInv, BuiltIInv,
     LockIInv, EmplaceIInv, EndIInv, StutterIInv
  DEF Next, Main, Thread
<1> QED
  BY <1>1, InitIInv, PTL DEF Spec

\* For any number of paths and threads the variables keep their types: no
\* iterator of parallelPTrees leaves the set of paths.
THEOREM Types == Spec => []TypeOK
<1>1. IInv => TypeOK
  BY DEF IInv
<1> QED
  BY <1>1, Invariance, PTL

\* parallelPTrees builds no path twice.
THEOREM PathsBuiltOnce == Spec => []BuiltOnce
<1>1. IInv => BuiltOnce
  BY DEF IInv
<1> QED
  BY <1>1, Invariance, PTL

\* The exporting thread reads the map only after the last thread has left it.
THEOREM QuietMap == Spec => []MapQuiet
<1>1. IInv => MapQuiet
  BY DEF IInv, Phases, MapQuiet
<1> QED
  BY <1>1, Invariance, PTL

\* Nobody writes the pseudo paths of a CFTree that has some while another
\* thread looks at them.
THEOREM PathsNotTorn == Spec => []NoTornPaths
<1>1. IInv => NoTornPaths
  BY DEF IInv, Work, NoTornPaths
<1> QED
  BY <1>1, Invariance, PTL

\* When the map is read every pseudo path has its tree.
THEOREM AllPathsBuilt == Spec => []NoPathLost
<1>1. IInv => NoPathLost
  <2> SUFFICES ASSUME IInv, main \in {"check", "export", "ParallelizationException"}
               PROVE  trees = 1..npaths
    BY DEF NoPathLost
  <2>1. \A t \in Threads : todo[t] = {}
    BY DEF IInv, Phases, Work
  <2>2. Unshared = {}
    BY DEF Unshared
  <2> QED
    BY <2>1, <2>2 DEF IInv, TypeOK, Places
<1> QED
  BY <1>1, Invariance, PTL

(* The size check after the join never fails: ParallelizationException is    *)
(* never thrown, whatever the number of paths.                               *)
NeverDeleted == main # "ParallelizationException"

THEOREM NoParallelizationException == Spec => []NeverDeleted
<1>1. Init => NeverDeleted
  BY DEF Init, NeverDeleted
<1>2. ASSUME TypeOK, NoPathLost, NeverDeleted, [Next]_vars
      PROVE  NeverDeleted'
  <2>1. CASE Check
    <3>1. trees = 1..npaths
      BY <1>2, <2>1 DEF Check, NoPathLost
    <3>2. Cardinality(trees) = npaths
      <4>1. npaths \in Nat
        BY <1>2, ParallelAssumption DEF TypeOK
      <4> QED
        BY <3>1, <4>1, FS_Interval
    <3> QED
      BY <2>1, <3>2 DEF Check, NeverDeleted
  <2>2. CASE UNCHANGED vars
    BY <1>2, <2>2 DEF vars, NeverDeleted
  <2>3. ASSUME NEW t \in Threads, Thread(t)
        PROVE  main' = main
    BY <2>3 DEF Thread, Take, Look, Reuse, Compute, Keep, Built, Lock, Emplace, End, mainVars
  <2>4. CASE ListPaths \/ Spawn \/ Spawned \/ Join \/ Joined
    BY <1>2, <2>4 DEF ListPaths, Spawn, Spawned, Join, Joined, NeverDeleted
  <2> QED
    BY <1>2, <2>1, <2>2, <2>3, <2>4 DEF Next, Main, NeverDeleted
<1> QED
  BY <1>1, <1>2, Types, AllPathsBuilt, PTL DEF Spec

=============================================================================
