----------------------------- MODULE CacheMutator -----------------------------
(***************************************************************************)
(* CFTCacheMutator: puts in front of every block leaf a leaf for each of    *)
(* its cache lines that may miss.  prog.lines maps blocks to sequences of   *)
(* lines [cat, header], the category of the line and its CATEGORY_HEADER.   *)
(***************************************************************************)
EXTENDS Trees

Categories == {"ALWAYS_HIT", "ALWAYS_MISS", "FIRST_HIT", "FIRST_MISS",
               "NOT_CLASSIFIED", "INVALID_CATEGORY"}

\* Mutant: a first hit is a hit.
TransformLBlock_Hit(g, line, b) ==
  IF line.cat \in {"ALWAYS_HIT", "FIRST_HIT"} THEN <<>>
  ELSE <<CacheLeaf(FALSE, line.cat, line.header)>>

\* The leaves of a cache line: none or one tree.
TransformLBlock(g, line, b) ==
  LET persistent == line.cat \in {"FIRST_MISS", "FIRST_HIT"}
      moved == line.header # None /\ persistent /\ ~IsHeader(g, line.header)
      loop == IF moved THEN g.enclosing[b] ELSE line.header
      cat == IF moved /\ loop = None THEN "ALWAYS_MISS" ELSE line.cat
  IN  CASE cat = "ALWAYS_HIT" -> <<>>
        [] cat = "FIRST_HIT" -> <<Alt(<<CacheLeaf(TRUE, cat, loop), CacheLeaf(FALSE, cat, loop)>>)>>
        [] OTHER -> <<CacheLeaf(FALSE, cat, loop)>>

\* The leaf stays behind its lines, the last child of a sequence.
TransformLeaf(prog, g, leaf) ==
  LET lines == IF IsBlockLeaf(leaf) THEN prog.lines[leaf.block] ELSE <<>>
  IN  Seqn(FlattenSeq([i \in DOMAIN lines |-> TransformLBlock(g, lines[i], leaf.block)])
           \o <<leaf>>)

RECURSIVE Transform(_, _, _)
Transform(prog, g, t) ==
  CASE t.kind = "LEAF" -> TransformLeaf(prog, g, t)
    [] t.kind = "LOOP" -> Loop(t.header, t.bound, Transform(prog, g, t.body),
                               Transform(prog, g, t.exit))
    [] OTHER -> [t EXCEPT !.ch = [i \in DOMAIN t.ch |-> Transform(prog, g, t.ch[i])]]

=============================================================================
