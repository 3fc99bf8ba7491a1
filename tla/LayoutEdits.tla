----------------------------- MODULE LayoutEdits ----------------------------
(***************************************************************************)
(* The edits of one binding (_layout_ops.py, and the dispatch of           *)
(* _container.py and _array.py): insert, replace, delete, reorder.         *)
(*                                                                         *)
(* A new value is [form |-> "value", val], [form |-> "section", items] or  *)
(* [form |-> "aot", entries]; items is a sequence of <<key, new value>>,   *)
(* entries a sequence of items.                                            *)
(***************************************************************************)
EXTENDS DocLayout

Scalar(x)      == [form |-> "value", val |-> x]
Section(items) == [form |-> "section", items |-> items]
Tables(bodies) == [form |-> "aot", entries |-> bodies]

EmptyArray  == "[]"    \* the placeholder line of an empty array of tables

(* What a reinstalled binding knows of the one it replaces (Replacement).  *)
NoReplacement == [anchor |-> NoSlot, inBody |-> FALSE, dotted |-> FALSE]

-----------------------------------------------------------------------------
(* One key = value line.                                                   *)

(* install_dotted_kv_slot: under the nearest header, spelled in full. *)
InstallDottedKV(d, c, key, val) ==
  LET host == HeaderHost(d, c)
      tail == IF BodyTail(d, c) # NoSlot THEN BodyTail(d, c) ELSE BodyTail(d, host)
      s    == KV(host[2], SubSeq(c[2], Len(host[2]) + 1, Len(c[2])) \o <<key>>, host[1], val)
  IN  FileOn(Splice(d, Posn(d, tail), <<s>>), s, Between(d, host, c))

(* _synthesise_header_then_insert_kv: an implicit table with no line of    *)
(* its own gets a header, ahead of its first descendant if it has one.     *)
SynthesiseHeaderThenInsertKV(d, c, key, val) ==
  LET h  == Header(c[2], c[1], NoEntry, TRUE)
      s  == KV(c[2], <<key>>, c[1], val)
      d1 == IF RefSet(d, c) # {}
              THEN Splice(d, Min(Positions(d, RefSet(d, c))) - 1, <<h, s>>)
              ELSE SpliceBlockAfter(d, HostTail(d, c), <<h, s>>)
  IN  FileOn(FileOn(d1, h, Lineage(d, c)), s, {c})

AppendDirectKV(d, c, key, val, repl) ==
  IF Implicit(d, c)
    THEN IF BodyTail(d, c) = NoSlot /\ ~repl.dotted
           THEN SynthesiseHeaderThenInsertKV(d, c, key, val)
           ELSE InstallDottedKV(d, c, key, val)
    ELSE LET tail == IF repl.inBody THEN repl.anchor ELSE BodyTail(d, c)
             s    == KV(c[2], <<key>>, c[1], val)
         IN  FileOn(Splice(d, Posn(d, tail), <<s>>), s, {c})

-----------------------------------------------------------------------------
(* Sections and arrays of tables.                                          *)

(* Mutant: a header the user wrote is demoted as well. *)
DemoteEmptyHeaderMutant(d, c) ==
  LET h == OwnHeader(d, c)
      p == Posn(d, h)
  IN  IF h # NoSlot /\ h.entry = NoEntry /\ p < Len(d.stream) /\ ~KVAt(d, p + 1)
        THEN Unlink(d, {h})
        ELSE d

(* _maybe_demote_synthetic_empty_header: a placeholder header gives way to *)
(* the child header that follows it.                                       *)
DemoteEmptyHeader(d, c) ==
  LET h == OwnHeader(d, c)
      p == Posn(d, h)
  IN  IF /\ h # NoSlot /\ h.synthetic /\ h.entry = NoEntry
         /\ p < Len(d.stream) /\ ~KVAt(d, p + 1)
        THEN Unlink(d, {h})
        ELSE d

(* ensure_implicit_chain *)
WithImplicit(d, c, path) ==
  WithChain(d, [i \in 1..(Len(path) + 1) |-> <<c[1], c[2] \o Prefix(path, i - 1)>>])

Below(c, path) == <<c[1], c[2] \o path>>

(* attach_section_at, up to the section's own contents. *)
AttachHeader(d, c, path) ==
  LET t  == Below(c, path)
      h  == Header(t[2], c[1], NoEntry, TRUE)
      d1 == Bind(WithImplicit(d, c, Front(path)), Below(c, Front(path)), Last(path), "section")
      d2 == [d1 EXCEPT !.tree = (t :> <<>>) @@ @]
  IN  DemoteEmptyHeader(
        FileOn(SpliceBlockAfter(d2, HostTail(d, c), <<h>>), h, Lineage(d2, t)), c)

ParentOfArray(a)   == <<a[1], Front(a[2])>>

(* Mutant: the placeholder is looked up on the array, not on its parent. *)
PlaceholderOfMutant(d, a) == IndexSet(d, a, Last(a[2]))

PlaceholderOf(d, a) == IndexSet(d, ParentOfArray(a), Last(a[2]))

(* _install_entry: a header for a new entry at list position i (from 0);   *)
(* the first one takes the place of the array's placeholder line.          *)
InstallEntryHeader(d, a, i) ==
  LET e     == FreshEntry(d)
      es    == EntriesOf(d, a)
      c     == ParentOfArray(a)
      h     == Header(a[2], e, e, TRUE)
      d0    == IF es = <<>> THEN Unlink(d, PlaceholderOf(d, a)) ELSE d
      at    == IF i < Len(es) THEN Posn(d0, OwnHeader(d0, EntryTable(a, es[i + 1]))) - 1
               ELSE LET p == IF es # <<>> THEN SubtreeTail(d0, EntryTable(a, Last(es)))
                                          ELSE ChildHeaderAnchor(d0, c)
                    IN  IF p = 0 THEN Len(d0.stream) ELSE p
      d1    == [FileOn(Splice(d0, at, <<h>>), h, Lineage(d0, c) \cup {EntryTable(a, e)})
                  EXCEPT !.aot[a] = InsertAt(@, i + 1, e),
                         !.tree   = (EntryTable(a, e) :> <<>>) @@ @]
  IN  DemoteEmptyHeader(d1, c)

BindArray(d, c, key) ==
  [Bind(d, c, key, "aot")
     EXCEPT !.aot = (Child(c, key) :> <<>>) @@ @]

(* _insert_new: bind an unbound key, at the place its form appends to.     *)
RECURSIVE InsertNew(_, _, _, _, _)

InsertItems(d, t, items) ==
  FoldLeft(LAMBDA x, item : InsertNew(x, t, item[1], item[2], NoReplacement), d, items)

(* add_aot_entry; the body is set in the order given. *)
AddEntry(d, a, i, items) ==
  InsertItems(InstallEntryHeader(d, a, i), EntryTable(a, FreshEntry(d)), items)

(* attach_section_at: plain values first, then the structural children. *)
AttachSection(d, c, path, items) ==
  LET plain(item) == item[2].form = "value"
      nested(item) == item[2].form # "value"
  IN  InsertItems(AttachHeader(d, c, path), Below(c, path),
                  SelectSeq(items, plain) \o SelectSeq(items, nested))

(* _attach_aot: an empty array still needs a line. *)
AttachArray(d, c, key, bodies) ==
  LET a == Child(c, key)
  IN  IF bodies = <<>>
        THEN BindArray(AppendDirectKV(d, c, key, EmptyArray, NoReplacement), c, key)
        ELSE FoldLeft(LAMBDA x, items : AddEntry(x, a, Len(x.aot[a]), items),
                      BindArray(d, c, key), bodies)

InsertNew(d, c, key, new, repl) ==
  CASE new.form = "value"   ->
         Bind(AppendDirectKV(d, c, key, new.val, repl), c, key, "value")
    [] new.form = "section" -> AttachSection(d, c, <<key>>, new.items)
    [] new.form = "aot"     -> AttachArray(d, c, key, new.entries)
-----------------------------------------------------------------------------
(* Deletion.                                                               *)

(* _clear_child_refs *)
ClearChildRefs(d, c) ==
  [d EXCEPT !.filed = [s \in DOMAIN @ |-> IF s = OwnHeader(d, c) THEN @[s] ELSE @[s] \ {c}]]

(* delete_keys: one key, or all of them.  Public deletion leaves an        *)
(* emptied headerless table a line of its own: `a = {}`, which turns it    *)
(* into an inline table, or `[a]`, whichever its first line was.           *)
DeleteKeys(d, c, keys, materialise) ==
  LET all     == Len(keys) = Len(d.tree[c])
      gone    == UNION {Departing(d, c, k) : k \in Range(keys)}
      primary == FirstOf(d, IndexSet(d, c, Last(keys)))
      revive  == materialise /\ all /\ Implicit(d, c)
      inline  == revive /\ IsKV(primary)
      d1      == IF ~revive THEN d
                 ELSE IF inline THEN MaterialiseInline(d, c, primary)
                 ELSE MaterialiseHeader(d, c, primary)
      d2      == Unlink(IF all THEN ClearChildRefs(d1, c) ELSE d1, gone)
      tables  == UNION {BelowKey(d, c, k) : k \in Range(keys)}
      arrays  == {Child(c, k) : k \in Range(keys)}
      d3      == [DropTables(d2, tables, arrays)
                    EXCEPT !.tree[c] = SelectSeq(@, LAMBDA b : b.key \notin Range(keys))]
  IN  IF inline
        THEN DropTables(Bind(d3, Parent(d, c), Last(c[2]), "value"), {c}, {})
        ELSE d3

DeleteKey(d, c, key, materialise) == DeleteKeys(d, c, <<key>>, materialise)


(* remove_aot_entries: the array keeps a line when its last entry leaves. *)
RemoveEntries(d, a, I) ==
  LET leaving == {d.aot[a][i] : i \in I}
      tables  == {x \in DOMAIN d.tree : \E e \in leaving : EntryTable(a, e) \in Lineage(d, x)}
      gone    == UNION {OwnedByContainer(d, EntryTable(a, e)) : e \in leaving}
      c       == ParentOfArray(a)
      d1      == [DropTables(Unlink(d, gone), tables, {})
                    EXCEPT !.aot[a] = SelectSeq(@, LAMBDA e : e \notin leaving)]
  IN  IF d1.aot[a] = <<>> /\ PlaceholderOf(d1, a) = {}
        THEN AppendDirectKV(d1, c, Last(a[2]), EmptyArray, NoReplacement)
        ELSE d1

-----------------------------------------------------------------------------
(* Replacement.                                                            *)

(* _slot_binding_root, _binding_primary_slot *)
BindingRoot(s) == IF IsHeader(s) THEN s.path ELSE Append(s.host, s.key[1])

PrimarySlot(d, c, key) ==
  LET S      == IndexSet(d, c, key)
      direct == {s \in S : BindingRoot(s) = Append(c[2], key)}
  IN  FirstOf(d, IF direct # {} THEN direct ELSE S)

(* _binding_run_neighbours: the slot before the binding's first run. *)
RunPredecessor(d, c, key) ==
  LET outside(i) == ~IsPrefix(Append(c[2], key), BindingRoot(d.stream[i]))
      before     == {i \in 1..(Posn(d, PrimarySlot(d, c, key)) - 1) : outside(i)}
  IN  IF before = {} THEN NoSlot ELSE SlotAt(d, Max(before))

(* _anchor_in_parent_direct_body: would a KV placed there be c's own?     *)
InDirectBody(d, c, anchor) ==
  LET host == HeaderHost(d, c)
  IN  CASE anchor = NoSlot  -> OwnHeader(d, host) = NoSlot
        [] IsHeader(anchor) -> anchor = OwnHeader(d, host)
        [] OTHER            -> anchor.host = host[2] /\ anchor.owner = host[1]

(* _binding_slots, with the header a promotion gave the parent. *)
BindingSlots(d, c, key) ==
  CASE KindOf(d, c, key) = "section" -> OwnedByContainer(d, Child(c, key))
    [] KindOf(d, c, key) = "aot" /\ d.aot[Child(c, key)] # <<>> -> OwnedByArray(d, Child(c, key))
    [] OTHER -> IndexSet(d, c, key)

(* _installed_span *)
Contiguous(d, S) ==
  LET P == Positions(d, S) IN Cardinality(P) = Max(P) - Min(P) + 1

(* _effective_header_path_before: the document root is no path at all, so  *)
(* a mixed block that opens with a root KV is not moved.                   *)
ScopeIs(d, p, path) ==
  LET H == {i \in 1..p : IsHeader(d.stream[i])}
  IN  H # {} /\ d.stream[Max(H)].path = path

(* _anchor_accepts_install *)
AnchorAccepts(d, S, anchor, inBody) ==
  LET P     == Positions(d, S)
      p     == Posn(d, anchor)
      after == IF p + 1 = Min(P) THEN Max(P) + 1 ELSE p + 1
  IN  /\ anchor \notin S
      /\ IF \A s \in S : IsKV(s) THEN inBody
         ELSE /\ ~KVAt(d, after)
              /\ KVAt(d, Min(P)) => ScopeIs(d, p, d.stream[Min(P)].host)

(* What the deletion must not forget (Replacement). *)
Replacing(d, c, key) ==
  LET anchor == RunPredecessor(d, c, key)
  IN  [anchor |-> anchor,
       inBody |-> InDirectBody(d, c, anchor),
       dotted |-> IsKV(PrimarySlot(d, c, key))]

(* Move the binding installed, a header its parent was given with it, back *)
(* behind the anchor when that changes no scope.                           *)
MovedBack(d, block, repl) ==
  IF /\ repl.anchor = NoSlot \/ repl.anchor \in Range(d.stream)
     /\ Contiguous(d, block)
     /\ AnchorAccepts(d, block, repl.anchor, repl.inBody)
    THEN MoveRun(d, InOrder(d, block), repl.anchor)
    ELSE d

PromotedHeader(before, after, c) ==
  IF OwnHeader(before, c) = NoSlot THEN {OwnHeader(after, c)} \ {NoSlot} ELSE {}

Settled(before, after, c, key, repl) ==
  MovedBack(after, BindingSlots(after, c, key) \cup PromotedHeader(before, after, c), repl)

Reinstalled(d, c, key, new, repl) ==
  Settled(d, InsertNew(d, c, key, new, repl), c, key, repl)

(* reposition_install: delete, install at the append position, move back. *)
Reposition(d, c, key, new) ==
  Reinstalled(DeleteKey(d, c, key, FALSE), c, key, new, Replacing(d, c, key))

(* A value kept on its line: _replace_scalar, _replace_with_inline. *)
ReplaceValue(d, c, key, val) ==
  LET s == FirstOf(d, IndexSet(d, c, key))
      t == [s EXCEPT !.val = val]
  IN  [d EXCEPT !.stream = [i \in DOMAIN @ |-> IF @[i] = s THEN t ELSE @[i]],
                !.filed  = (t :> @[s]) @@ [x \in DOMAIN @ \ {s} |-> @[x]]]

(* _setitem_validated *)
SetKey(d, c, key, new) ==
  CASE KindOf(d, c, key) = "none" -> InsertNew(d, c, key, new, NoReplacement)
    [] KindOf(d, c, key) = "value" /\ new.form = "value" -> ReplaceValue(d, c, key, new.val)
    [] OTHER -> Reposition(d, c, key, new)
-----------------------------------------------------------------------------
Upto(m) == [i \in 1..m |-> i]

(* Assignment to the n list positions after `start` (assign_aot_entries):  *)
(* the first bodies replace entries on the spot, the entries left over     *)
(* leave, the bodies left over are inserted behind.                        *)

(* _replace_entry_header, _orphan_aot_entries: a fresh entry takes over    *)
(* the header's place and its filing above the entry; the old one leaves.  *)
ReplaceEntry(d, a, i) ==
  LET e    == FreshEntry(d)
      old  == EntryTable(a, d.aot[a][i])
      h    == OwnHeader(d, old)
      new  == [h EXCEPT !.entry = e, !.owner = e]
      d1   == FileOn(Splice(d, Posn(d, h) - 1, <<new>>), new,
                     (d.filed[h] \ {old}) \cup {EntryTable(a, e)})
      gone == {x \in DOMAIN d.tree : old \in Lineage(d, x)}
  IN  [DropTables(Unlink(d1, OwnedByContainer(d, old)), gone, {})
         EXCEPT !.aot[a][i] = e,
                !.tree = (EntryTable(a, e) :> <<>>) @@ @]

(* The first k list positions after start get the bodies' items. *)
Filled(d, a, start, bodies, k) ==
  FoldLeft(LAMBDA x, i : InsertItems(x, EntryTable(a, d.aot[a][start + i]), bodies[i]),
           d, Upto(k))

AssignEntries(d, a, start, n, bodies) ==
  LET k       == Min({n, Len(bodies)})
      swapped == FoldLeft(LAMBDA x, i : ReplaceEntry(x, a, start + i), d, Upto(k))
      shorter == IF n > k THEN RemoveEntries(swapped, a, (start + k + 1)..(start + n)) ELSE swapped
  IN  FoldLeft(LAMBDA x, i : AddEntry(x, a, start + i - 1, bodies[i]),
               Filled(shorter, a, start, bodies, k),
               [i \in 1..(Len(bodies) - k) |-> k + i])

-----------------------------------------------------------------------------
(* Reordering.                                                             *)

(* renormalise_aot_order: the entries' blocks, headers first, exchange the *)
(* places of their headers; the foreign lines found after the k-th header  *)
(* stay after whichever block comes k-th.  `order` is the new entry list.  *)
RenormaliseEntries(d, a, order) ==
  LET es       == d.aot[a]
      block(e) == InOrder(d, OwnedByContainer(d, EntryTable(a, e)))
      owned    == OwnedByArray(d, a)
      head(k)  == Posn(d, Head(block(es[k])))
      stop     == Posn(d, Last(block(Last(es)))) + 1
      upto(k)  == IF k = Len(es) THEN stop ELSE head(k + 1)
      strays(k) == SelectSeq(SubSeq(d.stream, head(k), upto(k) - 1), LAMBDA s : s \notin owned)
      placed   == FoldLeft(LAMBDA run, k : run \o block(order[k]) \o strays(k), <<>>,
                           Upto(Len(es)))
  IN  IF Len(es) <= 1 THEN d
      ELSE [d EXCEPT !.aot[a] = order,
                     !.stream = SubSeq(@, 1, head(1) - 1) \o placed
                                  \o SubSeq(@, stop, Len(@))]

(* _owned_child_key: the child of c an owned slot belongs to. *)
OwnedChildKey(s, c) ==
  LET path == IF IsKV(s) THEN s.host \o s.key ELSE s.path
  IN  IF Len(path) > Len(c[2]) THEN path[Len(c[2]) + 1] ELSE "own header"

(* has_header, and the groups `sort` keeps apart: keys of plain lines,     *)
(* then keys with both lines and headers, then keys with headers only.     *)
SortGroup(d, c, key) ==
  LET S == IndexSet(d, c, key)
  IN  IF \A s \in S : IsHeader(s) THEN 3 ELSE IF \E s \in S : IsHeader(s) THEN 2 ELSE 1

(* The children's blocks of c, each in document order. *)
ChildBlock(d, c, k) == InOrder(d, {s \in OwnedByContainer(d, c) : OwnedChildKey(s, c) = k})
Blocks(d, c, keys)  == [i \in DOMAIN keys |-> ChildBlock(d, c, keys[i])]
Joined(blocks)      == FoldLeft(LAMBDA run, b : run \o b, <<>>, blocks)

(* c's own header takes part unless it is a placeholder nothing needs. *)
KeptHeader(d, c) ==
  LET h == OwnHeader(d, c)
  IN  IF h # NoSlot /\ (h.entry # NoEntry \/ ~h.synthetic \/ KVAt(d, Posn(d, h) + 1))
        THEN <<h>> ELSE <<>>

(* Foreign KVs inside the span, up to the first foreign header, leave by   *)
(* its front.  P are the positions of the movable slots.                   *)
Hoisted(d, P) ==
  LET stray(i) == i \notin P /\ \A j \in Min(P)..i : j \in P \/ KVAt(d, j)
      front    == InOrder(d, {d.stream[i] : i \in {i \in Min(P)..Max(P) : stray(i)}})
  IN  IF front = <<>> THEN d ELSE MoveRun(d, front, SlotAt(d, Min(P) - 1))

(* Where the blocks go: the place of the first one, or, when a child       *)
(* declared ahead of the header that hosts plain lines comes first, under  *)
(* that header.                                                            *)
BlockAnchor(d, placed, host) ==
  LET first == Min(Positions(d, Range(placed)))
      h     == OwnHeader(d, host)
      under == {i \in 1..Posn(d, BodyTail(d, host)) : d.stream[i] \notin Range(placed)}
  IN  SlotAt(d, IF IsKV(Head(placed)) /\ h # NoSlot /\ Posn(d, h) > first
                  THEN Max(under) ELSE first - 1)

MovedTo(d, placed, host) == MoveRun(d, placed, BlockAnchor(d, placed, host))

(* A line spelled by a header above its key's own table is a plain line. *)
PlainLines(run, c) == SelectSeq(run, LAMBDA s : IsKV(s) /\ Len(s.host) <= Len(c[2]))
TableLines(run, c) == SelectSeq(run, LAMBDA s : IsHeader(s) \/ Len(s.host) > Len(c[2]))

Reordered(d, c, kept, blocks) ==
  MovedTo(Hoisted(d, Positions(d, Range(kept) \cup Range(blocks))),
          kept \o PlainLines(blocks, c) \o TableLines(blocks, c),
          HeaderHost(d, c))

(* reorder_container: gather the blocks of the children of c in the order  *)
(* of `keys`, plain lines before headers, after c's own header.            *)
ReorderContainer(d, c, keys) ==
  Reordered(d, c, KeptHeader(d, c), Joined(Blocks(d, c, keys)))
=============================================================================
