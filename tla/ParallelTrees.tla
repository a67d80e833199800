---------------------------- MODULE ParallelTrees ----------------------------
(***************************************************************************)
(* Construction of the pseudo trees of a constrained node (CFTree.cpp,     *)
(* exportToAWCET with infeasible paths on).  The exporting thread computes *)
(* the feasible pseudo paths of the node, shares them out among at most    *)
(* MaxThreads threads, joins these, and goes on with a map that has to hold *)
(* one tree per path.  The threads meet in the map, under the mutex of     *)
(* putPPath, and in the pseudo paths each CFTree keeps once they have been *)
(* computed, which getPPaths reads and writes under no lock.               *)
(*                                                                         *)
(* Paths are numbered in the order of the std::set that holds them.        *)
(***************************************************************************)
EXTENDS Integers, FiniteSets

CONSTANTS
  MaxPaths,    \* bound of the model on the number of pseudo paths
  MaxThreads,  \* 8 in the code
  Subtrees,    \* number of CFTrees below the constrained node
  Barren       \* those of them without a feasible pseudo path

ASSUME ParallelAssumption ==
  /\ MaxPaths \in Nat
  /\ MaxThreads \in Nat \ {0}
  /\ Subtrees \in Nat
  /\ Barren \subseteq 1..Subtrees

Threads == 0..(MaxThreads - 1)
None == -1

VARIABLES
  npaths,  \* paths.size()
  main,    \* where the exporting thread is
  i,       \* its loop variable
  beg,     \* its iterator into paths
  cached,  \* CFTrees whose pseudo paths are kept, and not an empty set
  pc,      \* where each thread is
  todo,    \* paths a thread still has to build a tree for
  at,      \* CFTree the thread looks at
  seen,    \* the map as the thread found it when it entered emplace
  mtx,     \* holder of the mutex
  trees    \* keys of pseudoTrees

vars == <<npaths, main, i, beg, cached, pc, todo, at, seen, mtx, trees>>
mainVars == <<npaths, main, i, beg>>
threadVars == <<pc, todo, at, seen>>

MainStates == {"list", "spawn", "join", "check", "export", "NoPathException",
               "ParallelizationException"}
ThreadStates == {"none", "next", "look", "read", "write", "lock", "emplace", "end"}

nb_threads == IF npaths >= MaxThreads THEN MaxThreads ELSE npaths
size == npaths \div nb_threads

\* [beg, end) of the thread that is about to be started.
ChunkEnd_Inclusive == 1 + (IF i < nb_threads - 1 THEN beg + size ELSE npaths + 1)
ChunkEnd == IF i < nb_threads - 1 THEN beg + size ELSE npaths + 1

Init ==
  /\ npaths \in 0..MaxPaths
  /\ main = "list"
  /\ i = 0
  /\ beg = 1
  /\ cached = {}
  /\ pc = [t \in Threads |-> "none"]
  /\ todo = [t \in Threads |-> {}]
  /\ at = [t \in Threads |-> 1]
  /\ seen = [t \in Threads |-> {}]
  /\ mtx = None
  /\ trees = {}

-----------------------------------------------------------------------------
(* The exporting thread                                                    *)

\* getPPaths on the constrained node reaches every CFTree below it.
ListPaths_Lazy ==
  /\ main = "list"
  /\ main' = IF npaths = 0 THEN "NoPathException" ELSE "spawn"
  /\ UNCHANGED <<npaths, i, beg, cached, threadVars, mtx, trees>>

ListPaths ==
  /\ main = "list"
  /\ cached' = (1..Subtrees) \ Barren
  /\ main' = IF npaths = 0 THEN "NoPathException" ELSE "spawn"
  /\ UNCHANGED <<npaths, i, beg, threadVars, mtx, trees>>

Spawn ==
  /\ main = "spawn" /\ i < nb_threads
  /\ pc' = [pc EXCEPT ![i] = "next"]
  /\ todo' = [todo EXCEPT ![i] = beg..(ChunkEnd - 1)]
  /\ beg' = IF i # nb_threads - 1 THEN beg + size ELSE beg
  /\ i' = i + 1
  /\ UNCHANGED <<npaths, main, cached, at, seen, mtx, trees>>

Spawned ==
  /\ main = "spawn" /\ i = nb_threads
  /\ main' = "join"
  /\ i' = 0
  /\ UNCHANGED <<npaths, beg, cached, threadVars, mtx, trees>>

Join_First ==
  /\ main = "join" /\ i < nb_threads
  /\ pc[0] = "end"
  /\ i' = i + 1
  /\ UNCHANGED <<npaths, main, beg, cached, threadVars, mtx, trees>>

Join ==
  /\ main = "join" /\ i < nb_threads
  /\ pc[i] = "end"
  /\ i' = i + 1
  /\ UNCHANGED <<npaths, main, beg, cached, threadVars, mtx, trees>>

Joined ==
  /\ main = "join" /\ i = nb_threads
  /\ main' = "check"
  /\ UNCHANGED <<npaths, i, beg, cached, threadVars, mtx, trees>>

Check ==
  /\ main = "check"
  /\ main' = IF Cardinality(trees) # npaths THEN "ParallelizationException" ELSE "export"
  /\ UNCHANGED <<npaths, i, beg, cached, threadVars, mtx, trees>>

Main == ListPaths \/ Spawn \/ Spawned \/ Join \/ Joined \/ Check

-----------------------------------------------------------------------------
(* A thread: buildPTrees                                                   *)

To(t, where) == pc' = [pc EXCEPT ![t] = where]

Take(t) ==
  /\ pc[t] = "next" /\ todo[t] # {}
  /\ at' = [at EXCEPT ![t] = 1]
  /\ To(t, "look")
  /\ UNCHANGED <<mainVars, cached, todo, seen, mtx, trees>>

\* pseudoTree and remove call getPPaths on the CFTrees below the node.
Look(t) ==
  /\ pc[t] = "look" /\ at[t] <= Subtrees
  /\ To(t, "read")
  /\ UNCHANGED <<mainVars, cached, todo, at, seen, mtx, trees>>

Reuse(t) ==
  /\ pc[t] = "read" /\ at[t] \in cached
  /\ at' = [at EXCEPT ![t] = @ + 1]
  /\ To(t, "look")
  /\ UNCHANGED <<mainVars, cached, todo, seen, mtx, trees>>

Compute(t) ==
  /\ pc[t] = "read" /\ at[t] \notin cached
  /\ To(t, "write")
  /\ UNCHANGED <<mainVars, cached, todo, at, seen, mtx, trees>>

\* setPseudoPaths; an empty set looks as if none had been computed.
Keep(t) ==
  /\ pc[t] = "write"
  /\ cached' = cached \cup ({at[t]} \ Barren)
  /\ at' = [at EXCEPT ![t] = @ + 1]
  /\ To(t, "look")
  /\ UNCHANGED <<mainVars, todo, seen, mtx, trees>>

Built(t) ==
  /\ pc[t] = "look" /\ at[t] > Subtrees
  /\ To(t, "lock")
  /\ UNCHANGED <<mainVars, cached, todo, at, seen, mtx, trees>>

Lock_Free(t) ==
  /\ pc[t] = "lock"
  /\ mtx' = t
  /\ seen' = [seen EXCEPT ![t] = trees]
  /\ To(t, "emplace")
  /\ UNCHANGED <<mainVars, cached, todo, at, trees>>

Lock(t) ==
  /\ pc[t] = "lock" /\ mtx = None
  /\ mtx' = t
  /\ seen' = [seen EXCEPT ![t] = trees]
  /\ To(t, "emplace")
  /\ UNCHANGED <<mainVars, cached, todo, at, trees>>

\* The tree of the first path left goes into the map as emplace found it.
Emplace_Locked(t) ==
  /\ pc[t] = "emplace"
  /\ \E p \in todo[t] :
       /\ trees' = seen[t] \cup {p}
       /\ todo' = [todo EXCEPT ![t] = @ \ {p}]
  /\ To(t, "next")
  /\ UNCHANGED <<mainVars, cached, at, seen, mtx>>

Emplace(t) ==
  /\ pc[t] = "emplace"
  /\ \E p \in todo[t] :
       /\ \A q \in todo[t] : p <= q
       /\ trees' = seen[t] \cup {p}
       /\ todo' = [todo EXCEPT ![t] = @ \ {p}]
  /\ mtx' = None
  /\ To(t, "next")
  /\ UNCHANGED <<mainVars, cached, at, seen>>

End(t) ==
  /\ pc[t] = "next" /\ todo[t] = {}
  /\ To(t, "end")
  /\ UNCHANGED <<mainVars, cached, todo, at, seen, mtx, trees>>

Thread(t) ==
  \/ Take(t) \/ Look(t) \/ Reuse(t) \/ Compute(t) \/ Keep(t) \/ Built(t)
  \/ Lock(t) \/ Emplace(t) \/ End(t)

Next == Main \/ \E t \in Threads : Thread(t)

Spec == Init /\ [][Next]_vars
FairSpec == Spec /\ WF_vars(Main) /\ \A t \in Threads : WF_vars(Thread(t))

-----------------------------------------------------------------------------
(* Type invariant: of the loop variables, the chunks and the program         *)
(* counters; no iterator leaves the set of paths.                            *)
TypeOK ==
  /\ npaths \in 0..MaxPaths
  /\ main \in MainStates
  /\ i \in 0..MaxThreads
  /\ beg \in 1..(MaxPaths + 1)
  /\ cached \subseteq 1..Subtrees
  /\ pc \in [Threads -> ThreadStates]
  /\ todo \in [Threads -> SUBSET (1..npaths)]
  /\ at \in [Threads -> 1..(Subtrees + 1)]
  /\ seen \in [Threads -> SUBSET (1..npaths)]
  /\ mtx \in Threads \cup {None}
  /\ trees \subseteq 1..npaths

(* Once the threads are joined the map has a tree for every path: no path is  *)
(* lost between two chunks, to a chunk of size 0, or in two calls of emplace  *)
(* at a time, and parallelization never deletes a path.                       *)
NoPathLost == main \in {"check", "export", "ParallelizationException"} => trees = 1..npaths

(* No path is built by two threads, or once more by the one that built it.    *)
BuiltOnce ==
  \A t \in Threads :
    /\ todo[t] \cap trees = {}
    /\ \A u \in Threads \ {t} : todo[t] \cap todo[u] = {}

(* The exporting thread reads the map, without the mutex, only when no        *)
(* thread can be inside of it.                                                *)
MapQuiet ==
  main \in {"check", "export"} => \A t \in Threads : pc[t] \in {"none", "end"}

(* Two threads never touch the pseudo paths of one CFTree at a time, one of   *)
(* them writing, unless the CFTree has none and what is written over an empty  *)
(* set is an empty set: there is no lock, only the order of the phases.       *)
NoTornPaths ==
  \A t, u \in Threads :
    t # u /\ at[t] = at[u] /\ pc[t] = "write" /\ pc[u] \in {"read", "write"}
      => at[t] \in Barren

(* The export goes on: no thread waits for ever for the mutex, and the        *)
(* exporting thread does not wait for ever for a thread.                      *)
ExportEnds == <>(main \in {"export", "NoPathException"})

=============================================================================
