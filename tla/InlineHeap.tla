----------------------------- MODULE InlineHeap -----------------------------
(***************************************************************************)
(* Inline tables as objects (tomlrt/_container.py, _inline_ops.py,         *)
(* _layout_ops.py, _build.py): a heap of views, each with its own dict     *)
(* storage, some owning an inline value, and the effect of every call on   *)
(* the heap.  A view is its index in the heap and keeps it for good; view  *)
(* 1 is the document.  A value has the name of the view that owns it.      *)
(***************************************************************************)
EXTENDS InlineEntries

CONSTANTS
  Scalar,    \* the scalar values
  None       \* Python's None

Doc == 1

(* A Container.  In the document the value stands for its key lines, one   *)
(* slot each. *)
NewView(host, root, path) ==
  [host |-> host, root |-> root, path |-> path, dict |-> <<>>, value |-> None]
Factory == NewView(None, None, <<>>)

(* Container._kind *)
IsFactory(h, v)   == v # Doc /\ h[v].value = None /\ h[v].host = None
IsNavigator(h, v) == h[v].value = None /\ h[v].host # None
Owns(h, v)        == h[v].value # None

(* dict storage: [key, val] in insertion order *)
KeysOf(h, v) == [i \in DOMAIN h[v].dict |-> h[v].dict[i].key]
Bound(h, v)  == ToSet(KeysOf(h, v))
Get(h, v, k) == h[v].dict[SelectInSeq(KeysOf(h, v), LAMBDA j : j = k)].val
Children(h, v) == {b.val : b \in ToSet(h[v].dict)} \ Scalar

Put(h, v, k, x) ==
  [h EXCEPT ![v].dict = IF k \in Bound(h, v)
                          THEN [i \in DOMAIN @ |-> IF @[i].key = k THEN [@[i] EXCEPT !.val = x] ELSE @[i]]
                          ELSE Append(@, [key |-> k, val |-> x])]
Drop(h, v, k) == [h EXCEPT ![v].dict = SelectSeq(@, LAMBDA b : b.key # k)]

(* _walk_views: everything reachable through dict storage *)
Below(h, v) ==
  LET within[n \in 0..Len(h)] ==
        IF n = 0 THEN {v}
        ELSE LET near == within[n - 1] IN near \cup UNION {Children(h, u) : u \in near}
  IN  within[Len(h)]

-----------------------------------------------------------------------------
(* _outermost_inline, _entry_key_path *)
Outermost(h, v) ==
  LET up[u \in DOMAIN h] == IF IsNavigator(h, u) THEN up[h[u].host] ELSE u
  IN  up[v]
PrefixOf(h, v) == Rest(h[v].path, Len(h[Outermost(h, v)].path))
EntryPath(h, v, k) == Append(PrefixOf(h, v), k)

(* _detach_displaced_inline: the value's views forget the document; what   *)
(* no value holds together any more comes apart. *)
(* Mutant: the value stays hosted where it was. *)
DetachMutant(h, x) ==
  IF x \in Scalar THEN h
  ELSE [u \in DOMAIN h |-> [h[u] EXCEPT !.root = IF u \in Below(h, x) THEN None ELSE @]]
Detach(h, x) ==
  LET loose[n \in 0..Len(h)] ==
        IF n = 0 THEN {x}
        ELSE LET near == loose[n - 1]
             IN  near \cup UNION {Children(h, u) : u \in {w \in near : ~Owns(h, w)}}
      all   == Below(h, x)
      apart == loose[Len(h)]
  IN  IF x \in Scalar THEN h
      ELSE [u \in DOMAIN h |-> [h[u] EXCEPT !.root = IF u \in all THEN None ELSE @,
                                             !.host = IF u \in apart THEN None ELSE @]]

-----------------------------------------------------------------------------
(* A value apart from the heap: [path, label, val], val a scalar or a tree. *)

(* copy.deepcopy of a value, which numbers the entries afresh *)
RECURSIVE TreeOf(_, _)
TreeOf(h, v) ==
  [i \in DOMAIN h[v].value.items |->
     LET e == h[v].value.items[i]
     IN  [path |-> e.path, label |-> i - 1,
          val |-> IF e.val \in Scalar THEN e.val ELSE TreeOf(h, e.val)]]

(* copy_dotted_table *)
DottedTree(h, v) ==
  LET prefix == PrefixOf(h, v)
      below  == SelectSeq(TreeOf(h, Outermost(h, v)), LAMBDA e : IsStrictPrefix(prefix, e.path))
  IN  [i \in DOMAIN below |-> [below[i] EXCEPT !.path = Rest(@, Len(prefix))]]

DetachedTree(h, v) == IF Owns(h, v) THEN TreeOf(h, v) ELSE DottedTree(h, v)

(* _resolve_table_child along a dotted path, for inline tables *)
Navigated(h, v, names) ==
  FoldLeft(LAMBDA acc, k :
             IF k \in Bound(acc.heap, acc.at) THEN [acc EXCEPT !.at = Get(acc.heap, acc.at, k)]
             ELSE [heap |-> Append(Put(acc.heap, acc.at, k, Len(acc.heap) + 1),
                                   NewView(acc.at, acc.heap[acc.at].root, Append(acc.heap[acc.at].path, k))),
                   at |-> Len(acc.heap) + 1],
           [heap |-> h, at |-> v], names)

PathUnder(h, parent, name) == IF parent = None THEN <<>> ELSE Append(h[parent].path, name)

(* _decode_value, _decode_inline_table: the first view made is the table's *)
RECURSIVE Decoded(_, _, _, _, _)
Decoded(h, tree, parent, name, root) ==
  LET v == Len(h) + 1
      fresh == [NewView(parent, root, PathUnder(h, parent, name)) EXCEPT !.value = EmptyValue]
  IN  FoldLeft(LAMBDA g, e :
                 LET nav  == Navigated(g, v, Front(e.path))
                     leaf == IF e.val \in Scalar THEN nav.heap
                             ELSE Decoded(nav.heap, e.val, nav.at, Last(e.path), root)
                     val  == IF e.val \in Scalar THEN e.val ELSE Len(nav.heap) + 1
                 IN  [Put(leaf, nav.at, Last(e.path), val)
                        EXCEPT ![v].value = Recorded(@, e.path, val, e.label)],
               Append(h, fresh), tree)

-----------------------------------------------------------------------------
(* _is_adoptable_inline *)
Free(h, x) == h[x].host = None /\ h[x].root = None

(* _attach_inline_view: a free value moves with its views *)
(* Mutant: the views take the host for their document. *)
AdoptedMutant(h, x, parent, name, root) ==
  [u \in DOMAIN h |-> IF u \in Below(h, x) THEN [h[u] EXCEPT !.root = parent] ELSE h[u]]
Adopted(h, x, parent, name, root) ==
  LET moved == Below(h, x)
      path[u \in moved] ==
        IF u = x THEN Append(h[parent].path, name)
        ELSE IF h[u].host # None THEN Append(path[h[u].host], Last(h[u].path)) ELSE h[u].path
  IN  [u \in DOMAIN h |->
         IF u \in moved
           THEN [h[u] EXCEPT !.root = root, !.path = path[u], !.host = IF u = x THEN parent ELSE @]
           ELSE h[u]]

(* _synth_value and _populate_inline_table: the value bound under a key of *)
(* parent, and the heap with it: a scalar, a free value moved, a factory   *)
(* filled in, or else a copy. *)
RECURSIVE Synth(_, _, _, _)
Populated(h, x, parent, name) ==
  LET wired == [h EXCEPT ![x] = [NewView(parent, h[parent].root, PathUnder(h, parent, name))
                                   EXCEPT !.value = EmptyValue]]
  IN  FoldLeft(LAMBDA g, b :
                 LET s == Synth(g, b.val, x, b.key)
                 IN  [Put(s.heap, x, b.key, s.val)
                        EXCEPT ![x].value = AppendEntry(@, <<b.key>>, s.val)],
               wired, h[x].dict)
Synth(h, x, parent, name) ==
  CASE x \in Scalar -> [heap |-> h, val |-> x]
    [] x \notin Scalar /\ Free(h, x) /\ Owns(h, x) ->
         [heap |-> Adopted(h, x, parent, name, h[parent].root), val |-> x]
    [] x \notin Scalar /\ Free(h, x) /\ ~Owns(h, x) ->
         [heap |-> Populated(h, x, parent, name), val |-> x]
    [] OTHER ->
         [heap |-> Decoded(h, DetachedTree(h, x), parent, name, h[parent].root), val |-> Len(h) + 1]

-----------------------------------------------------------------------------
(* v[k] = x: Container._setitem_validated, _inline_setitem; in the document *)
(* _replace_with_inline and _insert_new. *)
SetItem(h, v, k, x) ==
  LET s   == Synth(h, x, v, k)
      out == IF k \in Bound(h, v) THEN Detach(s.heap, Get(h, v, k)) ELSE s.heap
      r   == Outermost(h, v)
  IN  IF k \in Bound(h, v) /\ Get(h, v, k) = x THEN h
      ELSE IF IsFactory(h, v) THEN Put(h, v, k, x)
      ELSE Put([out EXCEPT ![r].value =
                  IF k \in Bound(h, v) THEN OverwriteEntry(@, EntryPath(h, v, k), s.val)
                  ELSE AppendEntry(@, EntryPath(h, v, k), s.val)], v, k, s.val)

(* del v[k]: __delitem__, _inline_delitem; in the document delete_key *)
DelItem(h, v, k) ==
  LET out   == Detach(h, Get(h, v, k))
      r     == Outermost(h, v)
      path  == EntryPath(h, v, k)
      entries == h[r].value
  IN  IF IsFactory(h, v) THEN Drop(h, v, k)
      ELSE IF IsNavigator(h, v) /\ Len(h[v].dict) = 1
        THEN Drop([out EXCEPT ![r].value = EmptiedParent(entries, path, v),
                              ![v].value = EmptyValue], v, k)
        ELSE Drop([out EXCEPT ![r].value = RemoveEntries(entries, Departing(entries, path))], v, k)

(* clear, on an inline table *)
Cleared(h, v) == FoldLeft(LAMBDA g, k : DelItem(g, v, k), h, KeysOf(h, v))

(* sort, with the order it finds *)
Sorted(h, v, order) ==
  LET moved == IF IsFactory(h, v) THEN h
               ELSE [h EXCEPT ![Outermost(h, v)].value = ReorderEntries(@, PrefixOf(h, v), order)]
  IN  [moved EXCEPT ![v].dict = [i \in DOMAIN @ |-> [key |-> order[i], val |-> Get(h, v, order[i])]]]

(* _make_inline_chain: factories one in the other; the first is new, and   *)
(* the last holds what binds under the last name. *)
Chained(h, names) ==
  h \o [i \in 1..(Len(names) + 1) |->
          [Factory EXCEPT !.dict = IF i > Len(names) THEN <<>>
                                   ELSE <<[key |-> names[i], val |-> Len(h) + i + 1]>>]]

(* _walk_existing_tables: the last on the way that exists; refused if it is *)
(* no table. *)
Walked(h, v, names) ==
  FoldLeft(LAMBDA w, k :
             IF w.open /\ w.table \notin Scalar /\ k \in Bound(h, w.table)
               THEN [w EXCEPT !.table = Get(h, w.table, k), !.steps = @ + 1]
               ELSE [w EXCEPT !.open = FALSE],
           [table |-> v, steps |-> 0, open |-> TRUE], names)

(* ensure_table, within inline tables *)
EnsureTable(h, v, names) ==
  LET w == Walked(h, v, names)
  IN  IF w.steps = Len(names) THEN h
      ELSE SetItem(Chained(h, Rest(names, w.steps + 1)), w.table, names[w.steps + 1], Len(h) + 1)

(* install, within inline tables: the source is read before any new parent *)
(* is published. *)
(* Mutant: the parents are there when the source is read. *)
InstallMutant(h, v, names, x) ==
  LET made == EnsureTable(h, v, Front(names))
  IN  SetItem(made, Walked(made, v, Front(names)).table, Last(names), x)
Install(h, v, names, x) ==
  LET w     == Walked(h, v, Front(names))
      chain == Chained(h, Rest(Front(names), w.steps + 1))
  IN  IF w.steps = Len(names) - 1 THEN SetItem(h, w.table, Last(names), x)
      ELSE SetItem(Put(chain, Len(chain), Last(names), x), w.table, names[w.steps + 1], Len(h) + 1)

(* copy.copy and copy.deepcopy: Container.__copy__, _copy_input *)
RECURSIVE Copied(_, _)
Copied(h, x) ==
  IF ~IsFactory(h, x) THEN Decoded(h, DetachedTree(h, x), None, None, None)
  ELSE FoldLeft(LAMBDA g, b :
                  LET n == Len(g) + 1
                  IN  IF b.val \in Scalar THEN Put(g, Len(h) + 1, b.key, b.val)
                      ELSE Put(Copied(g, b.val), Len(h) + 1, b.key, n),
                Append(h, Factory), h[x].dict)
=============================================================================
