--------------------------- MODULE MCSectionLayout --------------------------
(***************************************************************************)
(* Small documents for SectionLayout.  `call` and `seen` follow from the   *)
(* step taken, so states are told apart by the document alone.             *)
(***************************************************************************)
EXTENDS SectionLayout

KeySymmetry == Permutations(Key)
DocumentView == <<doc, edits, scope>>

LinesOver(keys, depth) ==
  LET Paths == UNION {[1..n -> keys] : n \in 1..depth}
  IN  {KV(<<>>, k, NoEntry, "v") : k \in Paths}
        \cup {Header(p, NoEntry, NoEntry, FALSE) : p \in Paths}
        \cup {Header(p, NoEntry, 1, FALSE) : p \in Paths}

AllCalls == {"set", "delete", "clear", "ensure", "install", "sort",
             "insert", "remove", "assign", "reorder"}
ChainCalls == AllCalls \ {"install", "sort", "assign"}

(* One new value of each form: a scalar, an inline table, an empty and a   *)
(* filled section, an empty array of tables and one with an entry.         *)
ChainValues == {Scalar("w"), Section(<<>>), Tables(<<>>), Tables(<<<<>>>>)}
EmptyValues == ChainValues \cup {Scalar(EmptyInline)}
AllValues   == EmptyValues \cup {Section(<<<<k, Scalar("w")>>>>) : k \in Key}

AllBodies == {<<>>} \cup {<<<<k, Scalar("w")>>>> : k \in Key}
EmptyBody == {<<>>}

(* One edit of any document of three lines over the keys. *)
OneEdit ==
  "one edit" :>
    [keys |-> Key, lines |-> LinesOver(Key, 2), length |-> 3, slots |-> 7, edits |-> 1,
     values |-> AllValues, calls |-> AllCalls]

(* Two edits of any document of two lines over the keys, and one edit of   *)
(* any document of five lines whose keys are all spelled alike. *)
TwiceOrNested ==
  "two edits" :>
    [keys |-> Key, lines |-> LinesOver(Key, 2), length |-> 2, slots |-> 6, edits |-> 2,
     values |-> ChainValues, calls |-> ChainCalls]
  @@ [k \in Key |->
    [keys |-> {k}, lines |-> LinesOver({k}, 3), length |-> 5, slots |-> 9, edits |-> 1,
     values |-> EmptyValues, calls |-> AllCalls]]
=============================================================================
