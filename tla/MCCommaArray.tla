---------------------------- MODULE MCCommaArray ----------------------------
(* The arrays TLC starts from: every choice of a gap around up to three    *)
(* items, with and without a trailing comma.                               *)
EXTENDS CommaArray

CONSTANT C   \* stands for a comment in a gap, before it is numbered

MCRemarks == <<"#x", "#y">>
MCComment == {"#1", "#2", "#3", "#4", "#5", "#6", "#7", "#8", "#9", "#10", "#11", "#12",
              "#x", "#y"}
MCNames   == <<"a", "b", "c", "d", "e">>
MCPad     == <<>>

Break    == <<NL, WS>>
RowEol   == <<WS, C, NL, WS>>
RowAbove == <<NL, WS, C, NL, WS>>
RowBoth  == <<WS, C, NL, WS, C, NL, WS>>
Blank    == <<NL, NL, WS>>

(* Number the comments in their order. *)
Numbered(t) ==
  [i \in DOMAIN t |->
     IF t[i] # C THEN t[i]
     ELSE "#" \o ToString(Cardinality({j \in 1..i : t[j] = C}))]

(* What may stand between two items, and after the last. *)
Seams(G) == {pre \o <<COMMA>> \o post : <<pre, post>> \in G \X (G \cup {<<WS>>})}
Ends(G)  == G \cup Seams(G)

TextsOf(opens, seams, ends) ==
  {Numbered(o \o <<"a">> \o e) : <<o, e>> \in opens \X ends}
    \cup {Numbered(o \o <<"a">> \o m \o <<"b">> \o e) : <<o, m, e>> \in opens \X seams \X ends}
Threes(opens, seams, ends) ==
  {Numbered(o \o <<"a">> \o m1 \o <<"b">> \o m2 \o <<"c">> \o e) :
     <<o, m1, m2, e>> \in opens \X seams \X seams \X ends}

Few  == {<<>>, Break, RowEol, RowAbove}
Many == Few \cup {RowBoth, Blank}

(* Three items, comma-last and comma-first, some with blocks, one packed *)
Laid == {<<COMMA>> \o Break, <<COMMA>> \o RowEol, <<COMMA>> \o RowAbove,
         RowEol \o <<COMMA, WS>>, Break \o <<COMMA, WS>>, <<COMMA, WS>>}

Once(texts)  == {[text |-> t, edits |-> 1] : t \in texts}
Twice(texts) == {[text |-> t, edits |-> 2] : t \in texts}

MCText ==
  Twice({Numbered(o) : o \in Many})
    \cup Once(TextsOf(Few, Seams(Many), Ends(Few)))
    \cup Twice(TextsOf({<<>>, Break, RowAbove}, Laid \cup {RowEol \o <<COMMA>> \o RowEol},
                      {<<>>, Break, RowEol, RowAbove, <<COMMA>> \o Break, RowAbove \o <<COMMA>>}))
    \cup Once(Threes({<<>>, Break, RowAbove}, Laid, {Break, RowAbove, <<COMMA>> \o RowEol}))
=============================================================================
