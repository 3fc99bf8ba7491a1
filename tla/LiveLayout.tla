----------------------------- MODULE LiveLayout ----------------------------
(***************************************************************************)
(* Tables that change documents (_layout_ops.py): what leaves a document   *)
(* keeps its lines in a private document of its own; a table assigned from *)
(* a private document moves, one from a public document is copied.         *)
(*                                                                         *)
(* A document is here a record of                                          *)
(*   layout   the document as in TomlRules                                 *)
(*   private  made by the library to hold what left another one            *)
(*   above    its scaffold: the tables that stand in for those above what  *)
(*            left, which no caller can reach                              *)
(* Array entries are objects: no two documents number theirs alike.        *)
(***************************************************************************)
EXTENDS LayoutData

Public(d) == [layout |-> d, private |-> FALSE, above |-> {}]

(* The tables below and including those of `tops`. *)
Subtree(d, tops) == {x \in DOMAIN d.tree : Lineage(d, x) \cap tops # {}}

-----------------------------------------------------------------------------
(* Leaving.                                                                *)

(* What is bound at key of c, as far as it is in `kept`, in a document of  *)
(* its own: its slots S, filed as they were, below tables on the same path *)
(* (_transplant_to_orphan, _root_orphan_subtree).                          *)
Orphan(d, c, key, kept, S) ==
  LET path    == Append(c[2], key)
      up      == Lineage(d, c)
      step(x) == SelectSeq(d.tree[x], LAMBDA b : b.key = path[Len(x[2]) + 1])
      arrays  == {a \in DOMAIN d.aot : \/ ParentOfArray(a) \in kept
                                       \/ ParentOfArray(a) \in up /\ IsPrefix(a[2], path)}
      left(a) == SelectSeq(d.aot[a], LAMBDA e : EntryTable(a, e) \in kept \cup up)
  IN  [layout  |-> [stream |-> InOrder(d, S),
                    filed  |-> [s \in S |-> d.filed[s]],
                    tree   |-> [x \in up |-> step(x)] @@ [x \in kept |-> d.tree[x]],
                    aot    |-> [a \in arrays |-> left(a)]],
       private |-> TRUE,
       above   |-> up]

OrphanOfKey(d, c, key) == Orphan(d, c, key, BelowKey(d, c, key), Departing(d, c, key))

(* Mutant: the tables below the entry stay behind. *)
OrphanOfEntryMutant(d, a, e) ==
  LET t == EntryTable(a, e)
  IN  Orphan(d, ParentOfArray(a), Last(a[2]), {t}, OwnedByContainer(d, t))

OrphanOfEntry(d, a, e) ==
  LET t == EntryTable(a, e)
  IN  Orphan(d, ParentOfArray(a), Last(a[2]), Subtree(d, {t}), OwnedByContainer(d, t))

(* The binding of a table that has left: its parent's key, or its place in *)
(* an array, which goes too with its last entry.                           *)
(* (_unfile_stale_same_orphan_ancestors)                                   *)
Unbound(d, w) ==
  LET c    == Parent(d, w)
      key  == Last(w[2])
      drop == [d EXCEPT !.tree[c] = SelectSeq(@, LAMBDA b : b.key # key)]
  IN  IF ~IsEntry(d, w) THEN drop
      ELSE LET a == ArrayOf(d, w[1])
           IN  IF Len(d.aot[a]) > 1
                 THEN [d EXCEPT !.aot[a] = SelectSeq(@, LAMBDA e : e # w[1])]
                 ELSE [drop EXCEPT !.aot = [x \in DOMAIN @ \ {a} |-> @[x]]]

(* The document a table has been moved out of (_detach_from_source_doc).   *)
WithoutTable(d, w) ==
  LET S == OwnedByContainer(d, w)
      X == Subtree(d, {w})
  IN  DropTables(Unlink(Unbound(d, w), S), X, {})

(* Mutant: an emptied table is left without a line. *)
SynthesiseHeaderForEmptiedMutant(d, c) == d

(* synthesise_header_for_emptied *)
SynthesiseHeaderForEmptied(d, c) ==
  LET h == Header(c[2], c[1], NoEntry, TRUE)
  IN  IF c = Root \/ RefSet(d, c) # {} \/ d.tree[c] # <<>> THEN d
      ELSE FileOn(SpliceBlockAfter(d, HostTail(d, c), <<h>>), h, Lineage(d, c))

-----------------------------------------------------------------------------
(* Rebasing.                                                               *)

(* A table's block: its slots in order, and all that is filed and bound    *)
(* below it.                                                               *)
Block(d, w) ==
  LET S == OwnedByContainer(d, w)
      X == Subtree(d, {w})
      A == {a \in DOMAIN d.aot : ParentOfArray(a) \in X}
  IN  [top    |-> w,
       headed |-> OwnHeader(d, w) # NoSlot,
       header |-> OwnHeader(d, w),
       slots  |-> InOrder(d, S),
       filed  |-> [s \in S |-> d.filed[s] \cap X],
       tree   |-> [x \in X |-> d.tree[x]],
       aot    |-> [a \in A |-> d.aot[a]]]

Rest(path, prefix) == SubSeq(path, Len(prefix) + 1, Len(path))

(* _rebase_slot: lines below the table follow its path; a dotted key of    *)
(* the table's, hosted above it, is spelled under the new host.            *)
RebasedSlot(s, old, new, host) ==
  IF IsHeader(s) THEN [s EXCEPT !.path = new \o Rest(@, old)]
  ELSE IF IsPrefix(old, s.host) THEN [s EXCEPT !.host = new \o Rest(@, old)]
  ELSE [s EXCEPT !.host = host, !.key = Rest(new \o Rest(s.host \o @, old), host)]

(* _transfer_stale_owner *)
Transferred(s, stale, owner) ==
  IF s.owner # stale THEN s
  ELSE IF IsHeader(s) /\ s.entry = stale THEN [s EXCEPT !.owner = owner, !.entry = NoEntry]
  ELSE [s EXCEPT !.owner = owner]

(* Where the table x goes when its subtree `top` moves to `new`            *)
(* (_rehome_view_tree).                                                    *)
Rehomed(x, top, new, owner) ==
  <<IF x[1] = top[1] THEN owner ELSE x[1], new \o Rest(x[2], top[2])>>

(* _move_private_subtree *)
MovedBlock(b, new, owner, host) ==
  LET at(x)   == Rehomed(x, b.top, new, owner)
      slot(s) == Transferred(RebasedSlot(s, b.top[2], new, host), b.top[1], owner)
      was(t)  == CHOOSE s \in Range(b.slots) : slot(s) = t
      old(y)  == CHOOSE x \in DOMAIN b.tree : at(x) = y
      oldA(y) == CHOOSE a \in DOMAIN b.aot : at(a) = y
  IN  [top    |-> at(b.top),
       headed |-> b.headed,
       slots  |-> [i \in DOMAIN b.slots |-> slot(b.slots[i])],
       filed  |-> [t \in {slot(s) : s \in Range(b.slots)} |-> {at(x) : x \in b.filed[was(t)]}],
       tree   |-> [y \in {at(x) : x \in DOMAIN b.tree} |-> b.tree[old(y)]],
       aot    |-> [y \in {at(a) : a \in DOMAIN b.aot} |-> b.aot[oldA(y)]]]

(* _clone_entry_slots: arrays below the table get entries of their own, an *)
(* entry's own header becomes a plain one.                                 *)
ClonedSlots(b, new, owner, host, fresh) ==
  LET entries == SelectSeq(b.slots, LAMBDA s : IsHeader(s) /\ s.entry # NoEntry /\ s # b.header)
      old(e)  == \E i \in DOMAIN entries : entries[i].entry = e
      copy(e) == IF old(e) THEN fresh + SelectInSeq(entries, LAMBDA s : s.entry = e) ELSE owner
      slot(s) == LET t == [RebasedSlot(s, b.top[2], new, host) EXCEPT !.owner = copy(@)]
                 IN  IF IsKV(s) \/ s.entry = NoEntry THEN t
                     ELSE [t EXCEPT !.entry = IF s = b.header THEN NoEntry ELSE copy(@)]
  IN  [i \in DOMAIN b.slots |-> slot(b.slots[i])]

-----------------------------------------------------------------------------
(* Arriving.                                                               *)

(* Headers bind at every table above them (_extend_header_bindings_to_root)*)
HeadersFiledOn(d, slots, C) ==
  FoldLeft(LAMBDA x, s : IF IsHeader(s) THEN FileOn(x, s, C) ELSE x, d, slots)

(* Mutant: the body goes to the end of the host's tables. *)
SpliceImplicitRunMutant(d, c, slots) ==
  LET own(s) == IsKV(s) /\ Len(s.host) <= Len(c[2])
      body   == SelectSeq(slots, own)
      blocks == SelectSeq(slots, LAMBDA s : ~own(s))
      d1     == IF body = <<>> THEN d ELSE SpliceBlockAfter(d, HostTail(d, c), body)
      under  == IF body = <<>> THEN ChildHeaderAnchor(d, c)
                               ELSE SafeAnchor(d1, Posn(d1, Last(body)))
  IN  IF blocks = <<>> THEN d1 ELSE SpliceBlockAfter(d1, under, blocks)

(* _splice_implicit_run: dotted keys after the host's body, or ahead of a  *)
(* document that has none; headed blocks below.                            *)
SpliceImplicitRun(d, c, slots) ==
  LET host   == HeaderHost(d, c)
      tail   == BodyTail(d, host)
      own(s) == IsKV(s) /\ Len(s.host) <= Len(c[2])
      body   == SelectSeq(slots, own)
      blocks == SelectSeq(slots, LAMBDA s : ~own(s))
      d1     == IF body = <<>> THEN d ELSE Splice(d, Posn(d, tail), body)
      under  == IF body = <<>> THEN ChildHeaderAnchor(d, c)
                               ELSE SafeAnchor(d1, Posn(d1, Last(body)))
  IN  IF blocks = <<>> THEN d1 ELSE SpliceBlockAfter(d1, under, blocks)

Holding(d, b) ==
  [d EXCEPT !.filed = b.filed @@ @, !.tree = b.tree @@ @, !.aot = b.aot @@ @]

(* adopt_private_section *)
AdoptSection(d, c, key, b) ==
  LET new == Append(c[2], key)
      m   == MovedBlock(b, new, c[1], new)
      d1  == Holding(SpliceBlockAfter(d, ChildHeaderAnchor(d, c), m.slots), m)
  IN  DemoteEmptyHeader(
        Bind(HeadersFiledOn(d1, m.slots, Lineage(d, c)), c, key, "section"), c)

(* adopt_private_implicit *)
AdoptImplicit(d, c, key, b) ==
  LET host == HeaderHost(d, c)
      m    == MovedBlock(b, Append(c[2], key), c[1], host[2])
      d1   == Holding(SpliceImplicitRun(d, c, m.slots), m)
      d2   == FoldLeft(LAMBDA x, s : IF IsKV(s) /\ s.host = host[2]
                                       THEN FileOn(x, s, Between(d, host, c)) ELSE x,
                       HeadersFiledOn(d1, m.slots, Lineage(d, c)), m.slots)
  IN  Bind(d2, c, key, "section")

(* The containers a copied KV passes, those down to `leaf` as they stand.  *)
ChainPast(d, leaf, s) ==
  LET at(n) == CHOOSE x \in Lineage(d, leaf) : Len(x[2]) = n
  IN  [i \in DOMAIN s.key |->
         IF Len(s.host) + i - 1 <= Len(leaf[2]) THEN at(Len(s.host) + i - 1) ELSE KVChain(s)[i]]

BuiltSlot(d, root, leaf, s) ==
  LET chain == ChainPast(d, leaf, s)
  IN  IF IsHeader(s)
        THEN IF s.path = root[2] THEN FileOn(d, s, {root}) ELSE OpenHeader(d, root, s)
      ELSE IF s.val = EmptyArray
        THEN BindArray(ApplyKV(d, chain, s), Last(chain), Last(s.key))
      ELSE ApplyKV(d, chain, s)

(* _populate_entry_views: build the linked slots below `root`, of a table  *)
(* at or below `leaf`.  The line of an empty array of tables is one again. *)
Built(d, root, leaf, slots) ==
  FoldLeft(LAMBDA x, s : BuiltSlot(x, root, leaf, s), d, slots)

(* clone_section: a document is copied below a header of its own.          *)
CloneSection(d, c, key, b, fresh) ==
  LET new   == Append(c[2], key)
      t     == <<c[1], new>>
      own   == IF b.top = Root THEN <<Header(new, c[1], NoEntry, TRUE)>> ELSE <<>>
      slots == own \o ClonedSlots(b, new, c[1], new, fresh)
      d1    == [SpliceBlockAfter(d, ChildHeaderAnchor(d, c), slots)
                  EXCEPT !.tree = (t :> <<>>) @@ @]
  IN  Bind(DemoteEmptyHeader(HeadersFiledOn(Built(d1, t, t, slots), slots, Lineage(d, c)), c),
           c, key, "section")

(* clone_implicit_section *)
CloneImplicit(d, c, key, b, fresh) ==
  LET host  == HeaderHost(d, c)
      slots == ClonedSlots(b, Append(c[2], key), c[1], host[2], fresh)
  IN  HeadersFiledOn(Built(SpliceImplicitRun(d, c, slots), host, c, slots), slots,
                     Lineage(d, host) \ {host})

Adopt(d, c, key, b) ==
  IF b.headed THEN AdoptSection(d, c, key, b) ELSE AdoptImplicit(d, c, key, b)

Clone(d, c, key, b, fresh) ==
  IF b.headed \/ b.top = Root THEN CloneSection(d, c, key, b, fresh)
                              ELSE CloneImplicit(d, c, key, b, fresh)

-----------------------------------------------------------------------------
(* The copy of a whole document a snapshot is taken in is built from its   *)
(* slots (Document.__copy__): whether the builder accepts them.            *)
Copyable(d) ==
  LET read[i \in 0..Len(d.stream)] ==
        IF i = 0 THEN [ok |-> TRUE, d |-> EmptyDocument, at |-> Root]
        ELSE LET x == read[i - 1]
                 s == d.stream[i]
             IN  IF x.ok /\ NoDrift(x.d, x.at, s)
                   THEN [ok |-> TRUE, d |-> ApplySlot(x.d, s), at |-> Current(x.d, x.at, s)]
                   ELSE [x EXCEPT !.ok = FALSE]
  IN  read[Len(d.stream)].ok

(* Mutant: only the table written to counts. *)
OverlapsMutant(d, c, key, w) == w = c

(* _snapshot_for_overlapping_install: w contains the place written to, or  *)
(* is a headerless table two steps below it.                               *)
Overlaps(d, c, key, w) ==
  \/ w \in Lineage(d, c)
  \/ /\ Implicit(d, w)
     /\ Len(w[2]) >= Len(c[2]) + 3
     /\ IsPrefix(Append(c[2], key), w[2])
=============================================================================
