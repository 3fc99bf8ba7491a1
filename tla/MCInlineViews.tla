---------------------------- MODULE MCInlineViews ---------------------------
(* The documents TLC starts from: one inline table under the key a.        *)
EXTENDS InlineViews

CONSTANTS a, b, one, two

E(path, label, val) == [path |-> path, label |-> label, val |-> val]
Leafs == {one, <<>>, <<E(<<a>>, 0, one)>>}
Short == {<<a>>, <<a, b>>}
Deep  == {<<a>>, <<b>>, <<a, a>>, <<a, b>>, <<b, a>>, <<a, a, b>>}

Tables(n, paths, vals) ==
  {[i \in 1..n |-> E(p[i], i - 1, x[i])] :
     <<p, x>> \in {q \in [1..n -> paths] : Parses(q)} \X [1..n -> vals]}
Docs(tables) == {<<E(<<a>>, 0, t)>> : t \in tables}
From(docs, held, edits) == {[doc |-> d, held |-> held, edits |-> edits] : d \in docs}

Free1 == <<<<[key |-> a, val |-> one]>>>>

(* Under one call every table of two entries, and of three scalars; under  *)
(* two the tables of at most one entry, and three that are nested, dotted  *)
(* and grouped. *)
Wide  == {<<E(<<a>>, 0, <<E(<<a>>, 0, one)>>), E(<<b>>, 1, one)>>,
          <<E(<<a, a>>, 0, one), E(<<b>>, 1, <<>>), E(<<a, b>>, 2, one)>>,
          <<E(<<a, b>>, 0, <<E(<<a>>, 0, one)>>)>>}
MCStart ==
  From(Docs(Tables(2, Deep, Leafs)), Free1, 1)
    \cup From(Docs(Tables(3, Deep, {one})), <<>>, 1)
    \cup From(Docs(UNION {Tables(n, Short, Leafs) : n \in 0..1}), Free1, 2)
    \cup From(Docs(Wide), <<>>, 2)
MCWritten == {two}
MCScalar == {one, two}
MCKey == {a, b}
=============================================================================
