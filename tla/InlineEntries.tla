---------------------------- MODULE InlineEntries ---------------------------
(***************************************************************************)
(* One inline table value (tomlrt/_values.py, _inline_ops.py): its entries *)
(* in the order of the text, each with a dotted path, a value and an order *)
(* label, and the index from paths to entries.  Entries are objects that   *)
(* the index and the list share: id stands for the object.  The text       *)
(* between the entries is that of CommaEdits and is left out.              *)
(***************************************************************************)
EXTENDS ListOps, FiniteSetsExt

NoIndex    == [path \in {} |-> 0]
EmptyValue == [items |-> <<>>, index |-> NoIndex]

Labels(t)  == [i \in DOMAIN t.items |-> t.items[i].label]
PathsIn(t) == {t.items[i].path : i \in DOMAIN t.items}
Rest(path, n) == SubSeq(path, n + 1, Len(path))

Unlisted(index, paths) == [path \in DOMAIN index \ paths |-> index[path]]
Listed(index, path, id) ==
  [p \in DOMAIN index \cup {path} |-> IF p = path THEN id ELSE index[p]]

(* An object not there yet *)
FreshId(t) ==
  Min(1..(Len(t.items) + Cardinality(DOMAIN t.index) + 1)
        \ ({t.items[i].id : i \in DOMAIN t.items} \cup {t.index[p] : p \in DOMAIN t.index}))

-----------------------------------------------------------------------------
(* What the parser refuses: a path bound before, one that a dotted key     *)
(* before made a table, one that goes through a value. *)
Above(path) == {SubSeq(path, 1, n) : n \in 1..(Len(path) - 1)}
Conflict(path, seen) ==
  path \in seen \cup UNION {Above(p) : p \in seen} \/ Above(path) \cap seen # {}
Parses(paths) ==
  \A j \in DOMAIN paths : ~Conflict(paths[j], {paths[i] : i \in 1..(j - 1)})

(* InlineTableValue.find_entry: the index gives the entry, its label the   *)
(* position. *)
FindEntry(t, path) ==
  LET entry == CHOOSE i \in DOMAIN t.items : t.items[i].id = t.index[path]
  IN  BisectLeft(Labels(t), t.items[entry].label) + 1
PrefixEntries(t, path) == {i \in DOMAIN t.items : IsStrictPrefix(path, t.items[i].path)}

(* record_entry, for an entry that has its label already (a copy) or takes *)
(* the next one. *)
Recorded(t, path, val, label) ==
  LET entry == [id |-> FreshId(t), path |-> path, val |-> val, label |-> label]
  IN  [items |-> Append(t.items, entry), index |-> Listed(t.index, path, entry.id)]
AppendEntry(t, path, val) ==
  Recorded(t, path, val, IF t.items = <<>> THEN 0 ELSE Last(t.items).label + 1)

(* Mutant: a removed entry stays indexed. *)
RemoveEntriesMutant(t, I) ==
  [t EXCEPT !.items = SelectSeq(@, LAMBDA e : e \notin {t.items[i] : i \in I})]
RemoveEntries(t, I) ==
  LET gone == {t.items[i] : i \in I}
  IN  [items |-> SelectSeq(t.items, LAMBDA e : e \notin gone),
       index |-> Unlisted(t.index, {e.path : e \in gone})]

(* overwrite_entry: in place, or in place of all the entries below path *)
(* Mutant: those entries stay. *)
OverwriteEntryMutant(t, path, val) ==
  IF path \in DOMAIN t.index
    THEN [t EXCEPT !.items[FindEntry(t, path)].val = val]
    ELSE AppendEntry(t, path, val)
OverwriteEntry(t, path, val) ==
  IF path \in DOMAIN t.index
    THEN [t EXCEPT !.items = [i \in DOMAIN @ |->
            IF @[i].id = t.index[path] THEN [@[i] EXCEPT !.val = val] ELSE @[i]]]
    ELSE AppendEntry(RemoveEntries(t, PrefixEntries(t, path)), path, val)

(* delete_entry *)
Departing(t, path) ==
  IF path \in DOMAIN t.index THEN {FindEntry(t, path)} ELSE PrefixEntries(t, path)
(* The last entry below a dotted parent becomes `parent = {}`. *)
EmptiedParent(t, path, val) ==
  LET kept  == t.items[Max(Departing(t, path))]
      cut   == [kept EXCEPT !.path = Front(path), !.val = val]
      gone  == {t.items[i] : i \in Departing(t, path)} \ {kept}
  IN  [items |-> SelectSeq([i \in DOMAIN t.items |-> IF t.items[i] = kept THEN cut ELSE t.items[i]],
                           LAMBDA e : e \notin gone),
       index |-> Listed(Unlisted(t.index, {e.path : e \in gone} \cup {kept.path}), cut.path, cut.id)]

(* reorder_inline: the entries below prefix change places among themselves, *)
(* those of one key together; labels stay with the places. *)
(* Mutant: the key is looked up at the head of the path, labels move along. *)
ReorderEntriesMutant(t, prefix, order) ==
  LET block(key) == SelectSeq(t.items, LAMBDA e : e.path[1] = key)
  IN  [t EXCEPT !.items = FlattenSeq([j \in DOMAIN order |-> block(order[j])])
                            \o SelectSeq(@, LAMBDA e : e.path[1] \notin ToSet(order))]
ReorderEntries(t, prefix, order) ==
  LET at    == Len(prefix) + 1
      owned == SelectSeq([i \in DOMAIN t.items |-> i],
                         LAMBDA i : i \in PrefixEntries(t, prefix) /\ t.items[i].path[at] \in ToSet(order))
      block(key) == SelectSeq(owned, LAMBDA i : t.items[i].path[at] = key)
      moved == FlattenSeq([j \in DOMAIN order |-> block(order[j])])
      from(i) == t.items[moved[SelectInSeq(owned, LAMBDA j : j = i)]]
  IN  [t EXCEPT !.items = [i \in DOMAIN @ |->
         IF i \in ToSet(owned) THEN [from(i) EXCEPT !.label = t.items[i].label] ELSE @[i]]]
=============================================================================
