---------------------------- MODULE MCLiveViews ---------------------------
(***************************************************************************)
(* Small documents for LiveViews.  `last` and `moves` follow from the step *)
(* taken, so states are told apart by the documents alone.                 *)
(***************************************************************************)
EXTENDS LiveViews

DocumentView == <<docs, left, scope>>

Dotted(path) == KV(<<>>, path, NoEntry, "v")
Opened(path) == Header(path, NoEntry, NoEntry, FALSE)
Entry(path)  == Header(path, NoEntry, 1, FALSE)

LinesOver(paths) == UNION {{Dotted(p), Opened(p), Entry(p)} : p \in paths}

(* Two calls on any document of two lines over two keys; three calls on    *)
(* one line, whose tables move, and are copied, again; and a dotted table  *)
(* of an array entry, taken out, written to and put back.                  *)
Small ==
  "two calls" :>
    [keys |-> {"a", "b"}, lines |-> LinesOver({<<"a">>, <<"b">>, <<"a", "b">>}),
     length |-> 2, calls |-> 2]
  @@ "three calls" :>
    [keys |-> {"a"}, lines |-> LinesOver({<<"a">>, <<"a", "a">>}), length |-> 1, calls |-> 3]
  @@ "away" :>
    [keys |-> {"b"}, lines |-> {Entry(<<"a">>), Dotted(<<"a", "a">>)}, length |-> 2, calls |-> 3]
=============================================================================
