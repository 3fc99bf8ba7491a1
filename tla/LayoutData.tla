----------------------------- MODULE LayoutData ----------------------------
(* What the tables of a document hold, as plain data and as bindings.      *)
EXTENDS LayoutEdits, PlainNodes

(* The dict a container is, read off its bindings and the lines filed on   *)
(* it: to_dict.                                                            *)
RECURSIVE PlainMap(_, _)
PlainMap(d, c) ==
  [k \in KeysOf(d, c) |->
     CASE KindOf(d, c, k) = "section" -> Dict(PlainMap(d, Child(c, k)))
       [] KindOf(d, c, k) = "aot"     ->
            List([i \in DOMAIN d.aot[Child(c, k)] |->
                    PlainMap(d, EntryTable(Child(c, k), d.aot[Child(c, k)][i]))])
       [] OTHER -> NodeOf(Scalar((CHOOSE s \in IndexSet(d, c, k) : TRUE).val))]

(* A binding as data: an empty array of tables is written `key = []`. *)
AsRead(d, c) ==
  {IF b.kind = "aot" /\ EntriesOf(d, Child(c, b.key)) = <<>>
     THEN Binding(b.key, "value") ELSE b : b \in Range(Bindings(d, c))}
=============================================================================
