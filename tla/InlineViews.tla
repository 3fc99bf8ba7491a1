---------------------------- MODULE InlineViews -----------------------------
(***************************************************************************)
(* A document of inline tables under the calls its holder may make through *)
(* any view obtained so far, still bound or long displaced: what the text  *)
(* says, what each view shows, and who owns what.                          *)
(***************************************************************************)
EXTENDS InlineHeap

CONSTANTS
  Key,       \* the bare keys
  Start,     \* what is parsed: records [doc |-> tree, held |-> dict storages
             \* of factories, edits |-> Nat]
  Written,   \* the scalars written
  MaxViews   \* bound: most views made

VARIABLES
  heap,      \* the views
  left,      \* bound: calls still allowed
  last       \* the call just made, for the action properties

vars == <<heap, left, last>>
view == <<heap, left>>

ASSUME InlineViewsAssumption ==
  /\ MaxViews \in Nat /\ None \notin Scalar /\ Written \subseteq Scalar
  /\ \A s \in Start : s.edits \in Nat

Views   == DOMAIN heap
Inlines == Views \ {Doc}
Inputs  == Written \cup Inlines

(* Storing a factory below itself in plain dicts is no call of the library. *)
Storable(v, x) == IsFactory(heap, v) /\ x \notin Scalar => v \notin Below(heap, x)

Did(h, op, v, k, x) ==
  /\ Len(h) <= MaxViews
  /\ heap' = h /\ left' = left - 1
  /\ last' = [op |-> op, view |-> v, key |-> k, source |-> x]

-----------------------------------------------------------------------------
Init ==
  \E s \in Start :
    LET root == [NewView(None, Doc, <<>>) EXCEPT !.value = EmptyValue]
        doc == FoldLeft(LAMBDA h, e :
                          LET leaf == IF e.val \in Scalar THEN h ELSE Decoded(h, e.val, Doc, e.path[1], Doc)
                              val  == IF e.val \in Scalar THEN e.val ELSE Len(h) + 1
                          IN  [Put(leaf, Doc, e.path[1], val)
                                 EXCEPT ![Doc].value = AppendEntry(@, e.path, val)],
                        <<root>>, s.doc)
    IN  /\ heap = doc \o [i \in DOMAIN s.held |-> [Factory EXCEPT !.dict = s.held[i]]]
        /\ left = s.edits
        /\ last = [op |-> "load", view |-> Doc, key |-> <<>>, source |-> None]

Set(v, k, x)  == Storable(v, x) /\ Did(SetItem(heap, v, k, x), "set", v, <<k>>, x)
Delete(v, k)  == k \in Bound(heap, v) /\ Did(DelItem(heap, v, k), "delete", v, <<k>>, None)
Clear(v)      == heap[v].dict # <<>> /\ Did(Cleared(heap, v), "clear", v, <<>>, None)
Sort(v, order) ==
  /\ order # KeysOf(heap, v)
  /\ Did(Sorted(heap, v, order), "sort", v, <<>>, None)

(* ensure_table and install, from an inline table down *)
Ensure(v, names) ==
  LET w == Walked(heap, v, names)
  IN  /\ w.table \notin Scalar /\ ~IsFactory(heap, w.table)
      /\ Did(EnsureTable(heap, v, names), "ensure", v, names, None)
InstallAt(v, names, x) ==
  LET w == Walked(heap, v, Front(names))
  IN  /\ w.table \notin Scalar /\ ~IsFactory(heap, w.table)
      /\ Did(Install(heap, v, names, x), "install", v, names, x)
Copy(v) == Did(Copied(heap, v), "copy", v, <<>>, None)

Call ==
  \/ \E v \in Views, k \in Key, x \in Inputs : Set(v, k, x)
  \/ \E v \in Views, k \in Key : Delete(v, k)
  \/ \E v \in Inlines : \/ Clear(v) \/ Copy(v)
                        \/ \E order \in SetToSeqs(Bound(heap, v)) : Sort(v, order)
                        \/ \E j, k \in Key : \/ Ensure(v, <<j, k>>)
                                             \/ \E x \in Inputs : InstallAt(v, <<j, k>>, x)

(* No table is below itself. *)
Acyclic(h) == \A v \in DOMAIN h : v \notin UNION {Below(h, u) : u \in Children(h, v)}

Next == left > 0 /\ Acyclic(heap) /\ Call

Spec == Init /\ [][Next]_vars

-----------------------------------------------------------------------------
(* What a view shows, and what the text below it says: nested functions    *)
(* from keys to scalars and to the views that own values. *)
RECURSIVE Shown(_, _), Said(_)
Shown(h, v) ==
  [k \in Bound(h, v) |->
     LET x == Get(h, v, k) IN IF x \in Scalar \/ Owns(h, x) THEN x ELSE Shown(h, x)]
Said(bindings) ==
  [k \in {b[1][1] : b \in bindings} |->
     LET under == {b \in bindings : b[1][1] = k}
     IN  IF \E b \in under : Len(b[1]) = 1
           THEN (CHOOSE b \in under : Len(b[1]) = 1)[2]
           ELSE Said({<<Tail(b[1]), b[2]>> : b \in under})]

(* Plain data: to_dict *)
RECURSIVE Plain(_, _)
Plain(h, v) ==
  [k \in Bound(h, v) |-> LET x == Get(h, v, k) IN IF x \in Scalar THEN x ELSE Plain(h, x)]

-----------------------------------------------------------------------------
TypeOK ==
  /\ left \in Nat /\ Len(heap) <= MaxViews
  /\ \A v \in Views :
       /\ heap[v].host \in Views \cup {None} /\ heap[v].root \in {Doc, None}
       /\ heap[v].path \in Seq(Key)
       /\ heap[v].dict \in Seq([key : Key, val : Scalar \cup Inlines])
       /\ Owns(heap, v) => heap[v].value.items \in
            Seq([id : Nat, path : Seq(Key), val : Scalar \cup Inlines, label : Nat])

(* Every value parses, and reads as the views over it show, table by table *)
(* and object by object. *)
TextMatchesViews ==
  Acyclic(heap) =>
    \A v \in Views : Owns(heap, v) =>
      LET items == heap[v].value.items
      IN  /\ Parses([i \in DOMAIN items |-> items[i].path])
          /\ Said({<<items[i].path, items[i].val>> : i \in DOMAIN items}) = Shown(heap, v)

(* Every entry is indexed, and found where it stands: what the code asserts *)
(* as "inline entry index is stale". *)
EntriesFound ==
  \A v \in Views : Owns(heap, v) =>
    LET t == heap[v].value
    IN  /\ DOMAIN t.index = PathsIn(t)
        /\ \A i \in DOMAIN t.items :
             /\ t.index[t.items[i].path] = t.items[i].id
             /\ BisectLeft(Labels(t), t.items[i].label) = i - 1

(* A view is bound where its host says, once, and under the path it has;   *)
(* what has no host is bound nowhere but in factories. *)
HostsExact ==
  Acyclic(heap) =>
    \A x \in Inlines :
      LET hosts == {v \in Views : ~IsFactory(heap, v) /\ x \in Children(heap, v)}
          host  == heap[heap[x].host]
      IN  IF heap[x].host = None
            THEN hosts = {} /\ heap[x].root = None
            ELSE /\ hosts = {heap[x].host}
                 /\ {i \in DOMAIN host.dict : host.dict[i].val = x}
                      = {i \in DOMAIN host.dict : host.dict[i].key = Last(heap[x].path)}
                 /\ Front(heap[x].path) = host.path /\ heap[x].root = host.root

(* A call changes the data of the table it is made on as it would a dict's, *)
(* through every view that contains that table, and nothing else: no write *)
(* through a copy or a displaced view reaches what it was taken from.  A   *)
(* factory written takes a copy, made before the write, of what it held.   *)
RECURSIVE Instead(_, _, _, _, _), Nest(_, _)
Instead(h, u, v, new, kept) ==
  IF u = v THEN new
  ELSE [k \in Bound(h, u) |->
          LET x == Get(h, u, k)
          IN  IF x \in Scalar THEN x
              ELSE IF u \in kept THEN Plain(h, x) ELSE Instead(h, x, v, new, kept)]
NoKeys == [k \in {} |-> None]
With(map, k, x) == [j \in DOMAIN map \cup {k} |-> IF j = k THEN x ELSE map[j]]
Nest(names, x)  == IF names = <<>> THEN x ELSE With(NoKeys, names[1], Nest(Tail(names), x))
SourceData(h, x) == IF x = None THEN NoKeys ELSE IF x \in Scalar THEN x ELSE Plain(h, x)

(* The table a call changes: the last existing one on the way to its key.  *)
Target(h, call) ==
  IF call.op \in {"set", "install"} THEN Walked(h, call.view, Front(call.key))
  ELSE IF call.op = "ensure" THEN Walked(h, call.view, call.key)
  ELSE [table |-> call.view, steps |-> 0]
DataAfter(h, call) ==
  LET target == Target(h, call)
      before == Plain(h, target.table)
      names  == Rest(call.key, target.steps)
  IN  CASE call.op \in {"set", "install", "ensure"} /\ names # <<>> ->
             With(before, names[1], Nest(Tail(names), SourceData(h, call.source)))
        [] call.op = "delete" -> [k \in DOMAIN before \ ToSet(call.key) |-> before[k]]
        [] call.op = "clear"  -> NoKeys
        [] OTHER              -> before
OnlyThatTableChanges ==
  [][Acyclic(heap') =>
       LET table == Target(heap, last').table
           data  == DataAfter(heap, last')
           kept  == {u \in Inlines : /\ IsFactory(heap, u) /\ ~IsFactory(heap, table)
                                     /\ last'.source \in Inlines
                                     /\ u \in Below(heap, last'.source)}
       IN  \A u \in Views : Plain(heap', u) = Instead(heap, u, table, data, kept)]_vars

(* Sorting a table sorts its entries in the text too, and moves no other. *)
FirstKeys(h, v) ==
  LET t  == h[Outermost(h, v)].value
      at == Len(PrefixOf(h, v)) + 1
      own == SelectSeq(t.items, LAMBDA e : IsStrictPrefix(PrefixOf(h, v), e.path))
  IN  [i \in DOMAIN own |-> own[i].path[at]]
Distinct(s) == SelectSeq([i \in DOMAIN s |-> IF s[i] \in ToSet(SubSeq(s, 1, i - 1)) THEN None ELSE s[i]],
                         LAMBDA k : k # None)
SortReachesText ==
  [][last'.op = "sort" /\ ~IsFactory(heap, last'.view) =>
       LET v == last'.view
           old == heap[Outermost(heap, v)].value.items
           new == heap'[Outermost(heap, v)].value.items
       IN  /\ Distinct(FirstKeys(heap', v)) = KeysOf(heap', v)
           /\ \A i \in DOMAIN old : IsStrictPrefix(PrefixOf(heap, v), old[i].path) \/ new[i] = old[i]]_vars

(* An inline table installed inside itself is copied, not moved: no view   *)
(* becomes its own descendant. *)
NothingInsideItself == Acyclic(heap)
=============================================================================
