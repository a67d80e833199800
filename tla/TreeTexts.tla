------------------------------ MODULE TreeTexts ------------------------------
(***************************************************************************)
(* The two texts dumpcft writes of a control-flow tree: a graph in the dot *)
(* language (write_tree, exportToDot) and C code (write_code, exportToC).  *)
(* A text is a sequence of lines, layout left out.  The readers say what a  *)
(* reader of the texts makes of them.                                      *)
(***************************************************************************)
EXTENDS Trees

\* Lines of the graph: [node, label], the label a leaf or the kind of the
\* node, and [from, to, cond].
NodeLine(lab, kind, of) == [line |-> "node", lab |-> lab, kind |-> kind, of |-> of]
EdgeLine(lab, to, cond) == [line |-> "edge", lab |-> lab, to |-> to, cond |-> cond]

\* lab is the last label used; the text of a subtree starts with its own.
RECURSIVE WriteTree(_, _)
WriteTree(t, lab) ==
  LET conds(i) == IF t.kind = "COND_ALT" THEN t.conds[i] ELSE None
      upto[n \in 0..Len(t.ch)] ==
        IF n = 0 THEN [text |-> <<NodeLine(lab, t.kind, None)>>, lab |-> lab]
        ELSE LET prev == upto[n - 1]
                 old == prev.lab + 1
                 sub == WriteTree(t.ch[n], old)
             IN  [text |-> prev.text \o sub.text \o <<EdgeLine(lab, old, conds(n))>>,
                  lab |-> sub.lab]
      body == WriteTree(t.body, lab + 1)
      mid == body.lab + 1
      exit == WriteTree(t.exit, mid + 1)
  IN  CASE t.kind = "LEAF" -> [text |-> <<NodeLine(lab, "LEAF", t)>>, lab |-> lab]
        [] t.kind = "LOOP" ->
             [text |-> <<NodeLine(lab, "LOOP", t.header)>>
                       \o body.text \o <<EdgeLine(lab, lab + 1, None)>>
                       \o <<NodeLine(mid, "EXIT", None), EdgeLine(lab, mid, None)>>
                       \o exit.text \o <<EdgeLine(mid, mid + 1, None)>>,
              lab |-> exit.lab]
        [] OTHER -> upto[Len(t.ch)]

ExportToDot(t) == WriteTree(t, 0).text

\* The tree below a node of the graph.
RECURSIVE ReadDot(_, _)
ReadDot(text, lab) ==
  LET node == CHOOSE l \in Range(text) : l.line = "node" /\ l.lab = lab
      out == SelectSeq(text, LAMBDA l : l.line = "edge" /\ l.lab = lab)
      ch == [i \in DOMAIN out |-> ReadDot(text, out[i].to)]
      conds == [i \in DOMAIN out |-> out[i].cond]
  IN  CASE node.kind = "LEAF" -> node.of
        [] node.kind = "LOOP" -> Loop(node.of, None, ch[1], ch[2])
        [] node.kind = "EXIT" -> ch[1]
        [] node.kind = "COND_ALT" -> ConditionalAlt(ch, conds)
        [] OTHER -> [kind |-> node.kind, ch |-> ch]

\* The tree without the bounds of its loops, which the text does not give.
RECURSIVE WithoutBounds(_)
WithoutBounds(t) ==
  CASE t.kind = "LEAF" -> t
    [] t.kind = "LOOP" -> Loop(t.header, None, WithoutBounds(t.body), WithoutBounds(t.exit))
    [] OTHER -> [t EXCEPT !.ch = [i \in DOMAIN t.ch |-> WithoutBounds(t.ch[i])]]

-----------------------------------------------------------------------------
\* Tokens of the code: statements, "for", "if", "else if", "else" and the
\* brace that ends the last of them.
Token(word, of) == [word |-> word, of |-> of]

RECURSIVE WriteCode(_)

\* Mutant: the last branch that is written is an "else".
WriteCode_Alt_Else(t) ==
  LET written == SelectSeq([i \in DOMAIN t.ch |-> i], LAMBDA i : ~IsNone(t.ch[i]))
      word(k) == IF k = 1 THEN "if" ELSE IF k < Len(written) THEN "else if" ELSE "else"
  IN  FlattenSeq([k \in DOMAIN written |->
        <<Token(word(k), None)>> \o WriteCode(t.ch[written[k]])]) \o <<Token("}", None)>>

\* A branch of nothing is not written; it only makes the last branch written
\* an "else if".
WriteCode_Alt(t) ==
  LET written == SelectSeq([i \in DOMAIN t.ch |-> i], LAMBDA i : ~IsNone(t.ch[i]))
      hasNone(i) == \E j \in 1..(i - 1) : IsNone(t.ch[j])
      word(k) == IF k = 1 THEN "if"
                 ELSE IF hasNone(written[k]) \/ k - 1 < Len(t.ch) - 1 THEN "else if"
                 ELSE "else"
  IN  FlattenSeq([k \in DOMAIN written |->
        <<Token(word(k), None)>> \o WriteCode(t.ch[written[k]])]) \o <<Token("}", None)>>

WriteCode(t) ==
  CASE t.kind = "LEAF" -> <<Token("statement", t)>>
    [] t.kind = "SEQ" -> FlattenSeq([i \in DOMAIN t.ch |-> WriteCode(t.ch[i])])
    [] t.kind = "LOOP" -> <<Token("for", t.header)>> \o WriteCode(t.body)
                          \o <<Token("}", None)>> \o WriteCode(t.exit)
    [] OTHER -> WriteCode_Alt(t)

\* The paths of the statements from token p to the end of their block, and
\* where they end; a branch chain without "else" may run none of them.
RECURSIVE ReadCode(_, _, _)
RECURSIVE ReadBranches(_, _, _)
ReadBranches(code, p, k) ==
  LET block == ReadCode(code, p + 1, k)
      more == ReadBranches(code, block.end, k)
  IN  IF code[p].word = "}" THEN [paths |-> {<<>>}, end |-> p]
      ELSE IF code[p].word = "else" THEN block
      ELSE [paths |-> block.paths \cup more.paths, end |-> more.end]
ReadCode(code, p, k) ==
  LET seq(first, at) == LET rest == ReadCode(code, at, k)
                        IN  [paths |-> Concat(first, rest.paths), end |-> rest.end]
      body == ReadCode(code, p + 1, k)
      times[n \in 0..k] ==
        IF n = 0 THEN {<<>>} ELSE {<<>>} \cup Concat(body.paths, times[n - 1])
      chain == ReadBranches(code, p, k)
  IN  IF p > Len(code) \/ code[p].word \in {"}", "else if", "else"}
      THEN [paths |-> {<<>>}, end |-> p]
      ELSE CASE code[p].word = "statement" -> seq(TreePaths(code[p].of, k), p + 1)
             [] code[p].word = "for" -> seq(times[k], body.end + 1)
             [] code[p].word = "if" -> seq(chain.paths, chain.end + 1)

=============================================================================
