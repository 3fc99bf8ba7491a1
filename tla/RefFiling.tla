------------------------------ MODULE RefFiling ------------------------------
(***************************************************************************)
(* The projections of the slot stream that editing keeps up to date: each  *)
(* container's `_refs` (its slots in document order), `_index` (the same,  *)
(* by child key), `_header` and `_body_tail`, and each slot's              *)
(* `_containers`.  The code never recomputes them: it bisects by order key *)
(* and patches.  Here are those patches, driven by the kinds of change the *)
(* editor makes to a document; what they should amount to is defined by    *)
(* building the text from nothing (TomlText) and reading it (DocLayout).   *)
(* What the editor does to the text is in LayoutEdits; a change is taken   *)
(* here only where the text it leaves reads as its slots say.              *)
(***************************************************************************)
EXTENDS RefPatches, TomlTokens

CONSTANTS
  Lines,         \* the lines of the documents, unstamped
  Fits(_)        \* whether a stream is within the bounds of the model

ASSUME LinesAssumption ==
  \A s \in Lines :
    \/ /\ IsKV(s) /\ s = KV(<<>>, s.key, NoEntry, s.val)
       /\ s.key \in Seq(Key) /\ s.key # <<>> /\ s.val \in Vals
    \/ /\ IsHeader(s) /\ s = Header(s.path, NoEntry, s.entry, s.synthetic)
       /\ s.path \in Seq(Key) /\ s.path # <<>> /\ s.entry \in Nat /\ s.synthetic \in BOOLEAN

(* No key is the mark of a header filed on its own table. *)
ASSUME KeysAssumption == OwnKey \notin Key

ASSUME EmptyAssumption == EmptyInline \in Vals

VARIABLES
  doc,           \* what building the present text gives
  caches         \* the projections

filingVars == <<doc, caches>>

(* Module SlotStream: order keys increase along the stream, so a position  *)
(* is as good a key.  A handler that compares an unlinked slot's key uses  *)
(* the keys of the stream it was linked in.                                *)
Keys(run) == [s \in Range(run) |-> CHOOSE i \in DOMAIN run : run[i] = s]

-----------------------------------------------------------------------------
(* The changes.                                                            *)

(* A table no slot stands for keeps nothing. *)
Trimmed(F) ==
  [F EXCEPT !.view  = [c \in {c \in DOMAIN @ : c = Root \/ @[c] # NewView} |-> @[c]]]

(* The views and slots that left for a document of their own. *)
Without(F, views, slots) ==
  [F EXCEPT !.view  = [c \in DOMAIN @ \ views |-> @[c]],
            !.backs = [s \in DOMAIN @ \ Range(slots) |-> @[s]]]

(* The stream becomes `run`, its projections F.  The text is accepted, and *)
(* no line that was there changes its scope or the tables it is filed on   *)
(* (what SectionLayout shows of every edit).                               *)
Becomes(run, F) ==
  LET r == Reparsed(run)
  IN  /\ r.ok
      /\ r.d.stream = run
      /\ \A s \in Range(run) \cap Range(doc.stream) : r.d.filed[s] = doc.filed[s]
      /\ doc' = r.d
      /\ caches' = Trimmed(F)

OwnTable(chain, h) ==
  IF h.entry # NoEntry THEN <<h.entry, h.path>> ELSE Child(Last(chain), Last(h.path))

(* A line of its own: _apply_kv, _open_table and _open_aot_entry at the    *)
(* end of the stream, append_direct_kv, install_dotted_kv_slot,            *)
(* attach_section_at and _install_entry at the place they choose.          *)
InsertLine ==
  \E p \in 0..Len(doc.stream) :
    LET above == Reparsed(SubSeq(doc.stream, 1, p))
    IN  \E line \in Lines :
          LET s     == Stamped(above.v, line, FreshEntry(doc))
              run   == InsertAt(doc.stream, p + 1, s)
              chain == IF IsKV(s) THEN KVChain(s) ELSE HeaderChain(above.d, Root, s.path)
              own   == IF IsKV(s) THEN {} ELSE {OwnTable(chain, s)}
          IN  /\ Fits(run)
              /\ Allowed(above.v, s)
              /\ Becomes(run, File(caches, Keys(run), Range(chain), own, s))

(* _maybe_demote_synthetic_empty_header: the header is unlinked first.     *)
DemoteHeader ==
  \E c \in DOMAIN caches.view :
    LET h == caches.view[c].header
    IN  /\ h # NoSlot /\ h.synthetic /\ h.entry = NoEntry
        /\ Posn(doc, h) < Len(doc.stream) /\ ~KVAt(doc, Posn(doc, h) + 1)
        /\ Len(caches.view[c].refs) > 1
        /\ Becomes(Dropping(doc.stream, {h}),
                   Without(Scrub(caches, Keys(doc.stream), <<h>>, {}), {}, <<h>>))

(* delete_keys: one binding, or all of c's, which a headerless table       *)
(* outlives on a line put in place of its first.                           *)
DeleteBindings ==
  \E c \in DOMAIN doc.tree :
    \E keys \in {<<k>> : k \in KeysOf(doc, c)} \cup ({AllKeys(doc, c)} \ {<<>>}), public \in BOOLEAN :
      LET all     == Len(keys) = Len(doc.tree[c])
          slots   == InOrder(doc, UNION {Departing(doc, c, k) : k \in Range(keys)})
          skip    == UNION {BelowKey(doc, c, k) : k \in Range(keys)}
          primary == FirstOf(doc, IndexSet(doc, c, Last(keys)))
          revive  == public /\ all /\ Implicit(doc, c)
          d1      == IF ~revive THEN doc
                     ELSE IF IsKV(primary) THEN MaterialiseInline(doc, c, primary)
                     ELSE MaterialiseHeader(doc, c, primary)
          ord     == Keys(d1.stream)
          s       == d1.stream[Posn(doc, primary)]
          F1      == IF ~revive THEN caches
                     ELSE File(caches, ord, d1.filed[s] \ {c}, d1.filed[s] \cap {c}, s)
          F2      == IF all THEN ClearChildProjections(F1, c) ELSE F1
      IN  Becomes(Dropping(d1.stream, Range(slots)), Without(Scrub(F2, ord, slots, skip), skip, slots))

EntryViews(d, a, e) == {x \in DOMAIN d.tree : EntryTable(a, e) \in Lineage(d, x)}
EntrySlots(d, a, e) == InOrder(d, OwnedByContainer(d, EntryTable(a, e)))

(* _orphan_aot_entries: the slots of each entry, entry after entry. *)
OrphanEntries ==
  \E a \in DOMAIN doc.aot : \E I \in (SUBSET DOMAIN doc.aot[a]) \ {{}} :
    LET gone  == Keeping(doc.aot[a], {doc.aot[a][i] : i \in I})
        slots == FlattenSeq([i \in DOMAIN gone |-> EntrySlots(doc, a, gone[i])])
        skip  == UNION {EntryViews(doc, a, e) : e \in Range(gone)}
    IN  Becomes(Dropping(doc.stream, Range(slots)),
                Without(Scrub(caches, Keys(doc.stream), slots, skip), skip, slots))

(* _replace_entry_header, then _orphan_aot_entries for the entry replaced: *)
(* the new header takes the old one's place in every projection above.     *)
ReplaceEntryHeader ==
  \E a \in DOMAIN doc.aot : \E i \in DOMAIN doc.aot[a] :
    LET e     == doc.aot[a][i]
        prior == EntryTable(a, e)
        old   == caches.view[prior].header
        new   == [old EXCEPT !.entry = FreshEntry(doc), !.owner = FreshEntry(doc)]
        run   == InsertAt(doc.stream, Posn(doc, old), new)
        ord   == Keys(run)
        F1    == File(caches, ord, {}, {EntryTable(a, FreshEntry(doc))}, new)
        F2    == Replaced(F1, ord, old, new, prior)
        slots == EntrySlots(doc, a, e)
    IN  Becomes(Dropping(run, Range(slots)),
                Without(Scrub(F2, ord, slots, EntryViews(doc, a, e)), EntryViews(doc, a, e), slots))

(* _move_slots_to_anchor: a run i..j moves to follow the slot at p. *)
MoveSlots ==
  \E i, j \in DOMAIN doc.stream : \E p \in 0..Len(doc.stream) \ ((i - 1)..j) :
    LET run == SubSeq(doc.stream, i, j)
        new == MoveRun(doc, run, SlotAt(doc, p)).stream
    IN  /\ i <= j
        /\ Becomes(new, Refile(caches, Keys(doc.stream), run, Keys(new)))

(* reorder_container, renormalise_aot_order: a region is permuted. *)
PermuteRegion ==
  \E i, j \in DOMAIN doc.stream :
    /\ i < j
    /\ \E order \in Permuted(i..j) :
         LET region == SubSeq(doc.stream, i, j)
             new    == SubSeq(doc.stream, 1, i - 1) \o [k \in DOMAIN order |-> doc.stream[order[k]]]
                         \o SubSeq(doc.stream, j + 1, Len(doc.stream))
         IN  Becomes(new, Refile(caches, Keys(doc.stream), region, Keys(new)))

Init ==
  /\ doc = EmptyDocument
  /\ caches = NoCaches

Next ==
  \/ InsertLine \/ DemoteHeader \/ DeleteBindings \/ OrphanEntries
  \/ ReplaceEntryHeader \/ MoveSlots \/ PermuteRegion

Spec == Init /\ [][Next]_filingVars

-----------------------------------------------------------------------------
(* A slot points back to exactly the containers that list it, and is       *)
(* listed once.                                                            *)
TypeOK ==
  /\ DOMAIN caches.backs = Range(doc.stream)
  /\ \A s \in DOMAIN caches.backs :
       caches.backs[s] = {c \in DOMAIN caches.view : s \in Range(caches.view[c].refs)}
  /\ \A c \in DOMAIN caches.view : IsInjective(caches.view[c].refs)

(* `_refs` and every bucket of `_index` are the container's slots in       *)
(* document order, `_header` its own header: as a build from nothing would *)
(* have them, after any sequence of patches, whichever order they file in. *)
ProjectionsExact ==
  /\ DOMAIN caches.view = {Root} \cup UNION Range(doc.filed)
  /\ \A c \in DOMAIN caches.view :
       LET v == caches.view[c]
       IN  /\ v.refs = Refs(doc, c)
           /\ v.header = OwnHeader(doc, c)
           /\ v.index = [k \in {LocalKey(s, c) : s \in RefSet(doc, c) \ {v.header}} |->
                           InOrder(doc, IndexSet(doc, c, k))]

(* `_body_tail`, which only some patches recompute, is the last of the     *)
(* container's own lines, or its header: where the next line must go.      *)
BodyTailsCurrent ==
  \A c \in DOMAIN caches.view : caches.view[c].tail = BodyTail(doc, c)

(* Bisecting finds what it looks for, also by the key of a slot already    *)
(* unlinked or by the keys of before a move: none of the assertions on the *)
(* way ("slot must be filed in doc order", "region refs must be one run",  *)
(* "bulk removal retains subtree containers' own refs") fails.             *)
AssertionsHold == caches.sound
=============================================================================
