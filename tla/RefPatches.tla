----------------------------- MODULE RefPatches -----------------------------
(***************************************************************************)
(* How the projections of the slot stream are patched.  A view is what a   *)
(* container caches: `_refs` (its slots in document order), `_index` (the  *)
(* same, by child key), `_header` and `_body_tail`; F gathers the views,   *)
(* and each slot's `_containers`.  The patches bisect by order key; `ord`  *)
(* holds the keys of the slots.                                            *)
(***************************************************************************)
EXTENDS DocLayout, ListOps

NewView == [refs |-> <<>>, index |-> [k \in {} |-> <<>>], header |-> NoSlot, tail |-> NoSlot]

(* `sound` collects the assertions the code makes on its way. *)
NoCaches == [view |-> [c \in {Root} |-> NewView], backs |-> [s \in {} |-> {}], sound |-> TRUE]

View(F, c)  == IF c \in DOMAIN F.view THEN F.view[c] ELSE NewView
Listing(F, c) == {s \in DOMAIN F.backs : c \in F.backs[s]}
Bucket(v, k) == IF k \in DOMAIN v.index THEN v.index[k] ELSE <<>>

WithBucket(index, k, bucket) ==
  IF bucket = <<>> THEN [j \in DOMAIN index \ {k} |-> index[j]] ELSE PutAt(index, k, bucket)

IsOwnLine(s, c) == IsKV(s) /\ s.owner = c[1]
OwnKey == "own header"

(* Mutant: bisect_right. *)
OrderedIndexMutant(refs, ord, o) == BisectLeft([i \in DOMAIN refs |-> ord[refs[i]]], o + 1)

(* _ordered_index *)
OrderedIndex(refs, ord, o) == BisectLeft([i \in DOMAIN refs |-> ord[refs[i]]], o)

-----------------------------------------------------------------------------
(* Filing.                                                                 *)

(* record_slot: s goes to the end of `refs` and of its bucket if it comes  *)
(* after all of the refs, else where bisecting says.                       *)
IsLatest(refs, ord, s) == refs = <<>> \/ ord[Last(refs)] < ord[s]
WithRef(refs, ord, s, latest) ==
  IF latest THEN Append(refs, s)
  ELSE InsertAt(refs, OrderedIndex(refs, ord, ord[s]) + 1, s)

Recorded(v, ord, c, s) ==
  LET k      == LocalKey(s, c)
      latest == IsLatest(v.refs, ord, s)
  IN  [v EXCEPT !.refs  = WithRef(@, ord, s, latest),
                !.index = IF k = OwnKey THEN @
                          ELSE WithBucket(@, k, WithRef(Bucket(v, k), ord, s, latest)),
                !.tail  = IF IsOwnLine(s, c) /\ (@ = NoSlot \/ ord[@] < ord[s]) THEN s ELSE @]

(* file_own_header *)
OwnHeaderFiled(v, ord, c, h) ==
  [Recorded(v, ord, c, h) EXCEPT !.header = h, !.tail = IF IsKV(@) THEN @ ELSE h]

(* Mutant: a header does not point back to the table it opens. *)
FileMutant(F, ord, chain, own, s) ==
  [F EXCEPT !.view  = Overlaid(@, [c \in chain \cup own |->
                                     IF c \in own THEN OwnHeaderFiled(View(F, c), ord, c, s)
                                                  ELSE Recorded(View(F, c), ord, c, s)]),
            !.backs = PutAt(@, s, chain)]

(* The containers `chain` record s; if s is the header of `own`, it files it. *)
File(F, ord, chain, own, s) ==
  [F EXCEPT !.view  = Overlaid(@, [c \in chain \cup own |->
                                     IF c \in own THEN OwnHeaderFiled(View(F, c), ord, c, s)
                                                  ELSE Recorded(View(F, c), ord, c, s)]),
            !.backs = PutAt(@, s, chain \cup own)]

(* _recompute_body_tail, among the first n refs. *)
RecomputeBodyTail(v, c, n) ==
  LET I == {i \in 1..n : IsOwnLine(v.refs[i], c)}
  IN  IF I = {} THEN v.header ELSE v.refs[Max(I)]

-----------------------------------------------------------------------------
(* Unfiling.                                                               *)

(* _unfile_ordered: the position it removes (0 when its assertion fails). *)
Place(refs, ord, s) ==
  LET i == IF refs = <<>> THEN 0
           ELSE IF Last(refs) = s THEN Len(refs)
           ELSE IF refs[1] = s THEN 1
           ELSE OrderedIndex(refs, ord, ord[s]) + 1
  IN  IF i \in DOMAIN refs /\ refs[i] = s THEN i ELSE 0

UnfileOrdered(refs, ord, s) ==
  LET i == Place(refs, ord, s) IN IF i = 0 THEN refs ELSE RemoveAt(refs, i)

(* unfile_slot, on the view of c, and its assertions *)
Unfiled(v, ord, c, s) ==
  LET k    == LocalKey(s, c)
      refs == UnfileOrdered(v.refs, ord, s)
      new  == [v EXCEPT !.refs   = refs,
                        !.header = IF k = OwnKey THEN NoSlot ELSE @,
                        !.index  = IF k = OwnKey THEN @
                                   ELSE WithBucket(@, k, UnfileOrdered(Bucket(v, k), ord, s))]
  IN  IF v.tail = s
        THEN [new EXCEPT !.tail = RecomputeBodyTail(new, c, OrderedIndex(refs, ord, ord[s]))]
        ELSE new

UnfileSound(v, ord, c, s) ==
  LET k == LocalKey(s, c)
  IN  /\ Place(v.refs, ord, s) # 0
      /\ IF k = OwnKey THEN v.header = s ELSE Place(Bucket(v, k), ord, s) # 0

(* _unfile_ordered_many *)
PlacesOf(refs, ord, removed) ==
  LET at[n \in 0..Len(removed)] ==
        IF n = 0 THEN <<>>
        ELSE LET s == removed[n]
                 i == IF n = 1 THEN 0 ELSE Last(at[n - 1]) + 1
             IN  Append(at[n - 1], IF i < Len(refs) /\ refs[i + 1] = s THEN i
                                   ELSE OrderedIndex(refs, ord, ord[s]))
  IN  at[Len(removed)]

FoundMany(refs, ord, removed) ==
  \/ Len(refs) = Len(removed)
  \/ LET at == PlacesOf(refs, ord, removed)
     IN  \A j \in DOMAIN at : at[j] < Len(refs) /\ refs[at[j] + 1] = removed[j]

UnfileOrderedMany(refs, ord, removed) ==
  IF Len(refs) = Len(removed) THEN <<>>
  ELSE DeleteRuns(refs, IndexRuns(PlacesOf(refs, ord, removed)))

(* The share of one container in a bulk removal: slots of one binding. *)
ManyUnfiled(v, ord, c, removed) ==
  LET k   == LocalKey(removed[1], c)
      new == [v EXCEPT !.refs  = UnfileOrderedMany(@, ord, removed),
                       !.index = WithBucket(@, k, UnfileOrderedMany(Bucket(v, k), ord, removed))]
  IN  IF v.tail \in Range(removed)
        THEN [new EXCEPT !.tail = RecomputeBodyTail(new, c, OrderedIndex(new.refs, ord, ord[v.tail]))]
        ELSE new

ManySound(v, ord, c, removed) ==
  LET k == LocalKey(removed[1], c)
  IN  /\ k # OwnKey
      /\ FoundMany(v.refs, ord, removed)
      /\ FoundMany(Bucket(v, k), ord, removed)

(* _scrub_owned_slots_via_backptrs: unfile document-ordered slots          *)
(* everywhere but on the departing views `skip`.                           *)
Scrub(F, ord, owned, skip) ==
  LET listed(c) == Keeping(owned, Listing(F, c))
      affected  == (UNION {F.backs[s] : s \in Range(owned)}) \ skip
      single    == Len(owned) = 1
      sound     == \A c \in affected :
                     IF single THEN UnfileSound(F.view[c], ord, c, owned[1])
                               ELSE ManySound(F.view[c], ord, c, listed(c))
  IN  IF ~sound THEN [F EXCEPT !.sound = FALSE]
      ELSE [F EXCEPT !.view  = Overlaid(@, [c \in affected |->
                                              IF single THEN Unfiled(@[c], ord, c, owned[1])
                                              ELSE ManyUnfiled(@[c], ord, c, listed(c))]),
                     !.backs = Overlaid(@, [s \in Range(owned) |-> @[s] \cap skip])]

(* _clear_child_refs *)
ClearChildProjections(F, c) ==
  LET h == F.view[c].header
  IN  [F EXCEPT !.view[c] = [NewView EXCEPT !.refs = IF h = NoSlot THEN <<>> ELSE <<h>>,
                                            !.header = h, !.tail = h],
                !.backs   = Overlaid(@, [s \in Range(F.view[c].refs) \ {h} |-> @[s] \ {c}])]

-----------------------------------------------------------------------------
(* Re-filing a region of the stream around a change of its order.          *)

(* sorted(run, key=order): each slot goes where bisecting those before it  *)
(* says.                                                                   *)
SortedBy(ord, run) ==
  LET sorted[n \in 0..Len(run)] ==
        IF n = 0 THEN <<>>
        ELSE InsertAt(sorted[n - 1], OrderedIndex(sorted[n - 1], ord, ord[run[n]]) + 1, run[n])
  IN  sorted[Len(run)]

(* Mutant: a re-filed run never leaves its place among the others. *)
ReplaceOrderedRunMutant(refs, ord, run, start) ==
  Slice(refs, 0, start) \o SortedBy(ord, run)
    \o Slice(refs, start + Len(run), Len(refs))

(* _replace_ordered_run, under the new keys *)
ReplaceOrderedRun(refs, ord, run, start) ==
  LET sorted == SortedBy(ord, run)
      stop   == start + Len(run)
      stays  == /\ start = 0 \/ ord[refs[start]] < ord[Head(sorted)]
                /\ stop = Len(refs) \/ ord[Last(sorted)] < ord[refs[stop + 1]]
      others == Slice(refs, 0, start) \o Slice(refs, stop, Len(refs))
      at     == OrderedIndex(others, ord, ord[Head(sorted)])
  IN  IF stays THEN Slice(refs, 0, start) \o sorted \o Slice(refs, stop, Len(refs))
      ELSE Slice(others, 0, at) \o sorted \o Slice(others, at, Len(others))

(* Whether the body tail of c may no longer be its last line, now that its *)
(* slots `run` have been re-filed and its refs read `refs`.                *)
TailMovedMutant(v, c, run, refs) == FALSE   \* mutant: moving never changes it

TailMoved(v, c, run, refs) ==
  /\ Len(refs) > 1 /\ run # <<>>
  /\ IsKV(v.tail) /\ v.tail # Last(refs)
  /\ Len(run) = Len(refs) \/ \E s \in Range(run) : IsOwnLine(s, c)

(* _refile_slot_refs: runs are located under the keys `ord` of before the  *)
(* change and put back under those of after it, `ord2`.                    *)
Refile(F, ord, region, ord2) ==
  LET listed(c)   == Keeping(region, Listing(F, c))
      inBucket(c, k) == Keeping(region, {s \in Listing(F, c) : LocalKey(s, c) = k})
      start(refs, run) == OrderedIndex(refs, ord, ord[run[1]])
      moves(refs, run) == Len(refs) > 1 /\ run # <<>>
      \* the assertion "region refs must be one run"
      ok(refs, run)   == moves(refs, run) =>
                           Slice(refs, start(refs, run), start(refs, run) + Len(run)) = run
      put(refs, run)  == IF moves(refs, run) THEN ReplaceOrderedRun(refs, ord2, run, start(refs, run))
                                             ELSE refs
      moved(c) ==
        LET v   == F.view[c]
            run == listed(c)
            new == [v EXCEPT !.refs  = put(@, run),
                             !.index = [k \in DOMAIN @ |-> put(@[k], inBucket(c, k))]]
        IN  IF TailMoved(v, c, run, new.refs) THEN [new EXCEPT !.tail = RecomputeBodyTail(new, c, Len(new.refs))] ELSE new
      touched == UNION {F.backs[s] : s \in Range(region)}
      sound == \A c \in touched :
                 /\ ok(F.view[c].refs, listed(c))
                 /\ \A k \in DOMAIN F.view[c].index : ok(F.view[c].index[k], inBucket(c, k))
  IN  IF sound THEN [F EXCEPT !.view = Overlaid(@, [c \in touched |-> moved(c)])]
               ELSE [F EXCEPT !.sound = FALSE]

-----------------------------------------------------------------------------
(* One header takes another's place in the projections above it.           *)

PutFor(refs, ord, old, new) == [refs EXCEPT ![OrderedIndex(refs, ord, ord[old]) + 1] = new]

ReplacedView(v, ord, c, old, new) ==
  [v EXCEPT !.refs = PutFor(@, ord, old, new), !.index[LocalKey(old, c)] = PutFor(@, ord, old, new)]

(* The assertion "refs[at] is old". *)
ReplaceSound(v, ord, c, old) ==
  LET b == Bucket(v, LocalKey(old, c))
  IN  /\ v.refs[OrderedIndex(v.refs, ord, ord[old]) + 1] = old
      /\ b[OrderedIndex(b, ord, ord[old]) + 1] = old

(* _replace_entry_header's loop: `prior` is the table of the old entry.    *)
Replaced(F, ord, old, new, prior) ==
  LET above == F.backs[old] \ {prior}
      sound == \A c \in above : ReplaceSound(F.view[c], ord, c, old)
  IN  [F EXCEPT !.view = Overlaid(@, [c \in above |-> ReplacedView(@[c], ord, c, old, new)]),
                !.backs[old] = {prior},
                !.backs[new] = @ \cup above,
                !.sound = @ /\ sound]
=============================================================================
