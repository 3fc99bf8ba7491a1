----------------------------- MODULE PlainNodes -----------------------------
(***************************************************************************)
(* Plain data: leaves, dicts and lists of dicts, as Python has them.       *)
(***************************************************************************)
EXTENDS Integers, Sequences, SequencesExt

Leaf(v)   == [form |-> "leaf", val |-> v]
Dict(map) == [form |-> "dict", map |-> map]
List(seq) == [form |-> "list", seq |-> seq]

EmptyMap        == [k \in {} |-> Leaf("")]
Put(map, k, n)  == [j \in DOMAIN map \cup {k} |-> IF j = k THEN n ELSE map[j]]
Without(map, K) == [j \in DOMAIN map \ K |-> map[j]]

(* The node a new value stands for. *)
RECURSIVE NodeOf(_)
MapOf(items) ==
  FoldLeft(LAMBDA map, item : Put(map, item[1], NodeOf(item[2])), EmptyMap, items)
NodeOf(x) ==
  CASE x.form = "section" -> Dict(MapOf(x.items))
    [] x.form = "aot"     -> List([i \in DOMAIN x.entries |-> MapOf(x.entries[i])])
    [] x.val = "{}"       -> Dict(EmptyMap)
    [] x.val = "[]"       -> List(<<>>)
    [] OTHER              -> Leaf(x.val)

(* A step down: the key, and the list position if a list is bound there    *)
(* (0 if a dict is).                                                       *)
Step(k, i) == [key |-> k, at |-> i]
=============================================================================
