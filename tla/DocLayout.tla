------------------------------ MODULE DocLayout -----------------------------
(***************************************************************************)
(* The layout editor (_layout_ops.py): how a change of one binding becomes *)
(* a change of the slot stream.  Operators take a document and return the  *)
(* edited one; module SectionLayout makes one action of each public call.  *)
(*                                                                         *)
(* A position p in 0..Len(stream) names the slot at p, or the start of the *)
(* document (Python's None) when it is 0.                                  *)
(***************************************************************************)
EXTENDS TomlText, ListOps

NoSlot == [kind |-> "none"]

-----------------------------------------------------------------------------
(* Reading a document.                                                     *)

Posn(d, s)      == IF s = NoSlot THEN 0 ELSE CHOOSE i \in DOMAIN d.stream : d.stream[i] = s
SlotAt(d, p)    == IF p = 0 THEN NoSlot ELSE d.stream[p]
InOrder(d, S)   == Keeping(d.stream, S)
Positions(d, S) == {i \in DOMAIN d.stream : d.stream[i] \in S}
KVAt(d, p)      == p \in DOMAIN d.stream /\ IsKV(d.stream[p])

(* Container._refs, and slot_local_key: the child of c a filed slot binds. *)
RefSet(d, c) == {s \in DOMAIN d.filed : c \in d.filed[s]}
Refs(d, c)   == InOrder(d, RefSet(d, c))
LocalKey(s, c) ==
  LET depth == Len(c[2])
  IN  IF IsKV(s) THEN s.key[depth - Len(s.host) + 1]
      ELSE IF Len(s.path) > depth THEN s.path[depth + 1]
      ELSE "own header"

IndexSet(d, c, key) ==
  {s \in RefSet(d, c) : (IsHeader(s) => s.path # c[2]) /\ LocalKey(s, c) = key}

OwnHeader(d, c) ==
  LET H == {s \in RefSet(d, c) : IsHeader(s) /\ s.path = c[2]}
  IN  IF H = {} THEN NoSlot ELSE CHOOSE h \in H : TRUE

(* _recompute_body_tail: the last KV of the container's own entry. *)
BodyTail(d, c) ==
  LET K == {i \in Positions(d, RefSet(d, c)) : IsKV(d.stream[i]) /\ d.stream[i].owner = c[1]}
  IN  IF K # {} THEN SlotAt(d, Max(K)) ELSE OwnHeader(d, c)

(* A table with neither a header of its own nor a document's root. *)
Implicit(d, c) == c # Root /\ OwnHeader(d, c) = NoSlot

(* The array of tables an entry belongs to; a container's path to the root.*)
ArrayOf(d, e)  == CHOOSE a \in DOMAIN d.aot : e \in Range(d.aot[a])
IsEntry(d, c)  == c[1] # NoEntry /\ ArrayOf(d, c[1])[2] = c[2]
Parent(d, c)   == <<IF IsEntry(d, c) THEN ArrayOf(d, c[1])[1] ELSE c[1], Front(c[2])>>
Lineage(d, c)  ==
  LET up[i \in 0..Len(c[2])] == IF i = 0 THEN c ELSE Parent(d, up[i - 1])
  IN  {up[i] : i \in 0..Len(c[2])}

Deepest(C) == CHOOSE c \in C : \A x \in C : Len(x[2]) <= Len(c[2])

(* Mutant: a table counts as its own host, header or not. *)
HeaderHostMutant(d, c) == c

(* _nearest_header_host *)
HeaderHost(d, c) == Deepest({x \in Lineage(d, c) : ~Implicit(d, x)})

(* Mutant: all but the host. *)
BetweenMutant(d, host, leaf) == {x \in Lineage(d, leaf) : Len(x[2]) > Len(host[2])}

(* The containers of [host, ..., leaf] (_dotted_chain). *)
Between(d, host, leaf) == {x \in Lineage(d, leaf) : Len(x[2]) >= Len(host[2])}

-----------------------------------------------------------------------------
(* owned_slots: a container's refs, and the body lines under the headers   *)
(* of its descendants.                                                     *)
BodyRun(d, p) ==
  {j \in (p + 1)..Len(d.stream) :
     \A k \in (p + 1)..j : KVAt(d, k) /\ d.stream[k].host = d.stream[p].path}

OwnedByContainer(d, c) ==
  IF c = Root THEN Range(d.stream)
  ELSE LET R == Positions(d, RefSet(d, c))
           H == {p \in R : IsHeader(d.stream[p]) /\ d.stream[p].path # c[2]}
       IN  {d.stream[p] : p \in R \cup UNION {BodyRun(d, h) : h \in H}}

EntryTable(a, e) == <<e, a[2]>>

OwnedByArray(d, a) ==
  UNION {OwnedByContainer(d, EntryTable(a, e)) : e \in Range(EntriesOf(d, a))}

(* Every slot of the value bound at key: delete_keys' child_slots. *)
Departing(d, c, key) ==
  IndexSet(d, c, key)
    \cup (CASE KindOf(d, c, key) = "section" -> OwnedByContainer(d, Child(c, key))
            [] KindOf(d, c, key) = "aot"     -> OwnedByArray(d, Child(c, key))
            [] OTHER                         -> {})

(* The containers below a binding. *)
BelowKey(d, c, key) ==
  CASE KindOf(d, c, key) = "section" ->
         {x \in DOMAIN d.tree : Child(c, key) \in Lineage(d, x)}
    [] KindOf(d, c, key) = "aot"     ->
         {x \in DOMAIN d.tree : \E e \in Range(EntriesOf(d, Child(c, key))) :
            EntryTable(Child(c, key), e) \in Lineage(d, x)}
    [] OTHER -> {}

-----------------------------------------------------------------------------
(* Where a block may go.                                                   *)

(* _belongs_to_parent_extent *)
InExtent(s, c) == IsPrefix(c[2], Scope(s)) /\ (Scope(s) = c[2] => s.owner = c[1])

(* Mutant: the tail is the last slot filed on the container. *)
SubtreeTailMutant(d, c) ==
  IF RefSet(d, c) = {} THEN 0 ELSE Max(Positions(d, RefSet(d, c)))

(* _parent_subtree_tail: 0 when the container has no slots. *)
SubtreeTail(d, c) ==
  IF RefSet(d, c) = {} THEN 0
  ELSE LET last == Max(Positions(d, RefSet(d, c)))
       IN  Max({j \in last..Len(d.stream) :
                  \A k \in (last + 1)..j : InExtent(d.stream[k], c)})

HostTail(d, c) == SubtreeTail(d, HeaderHost(d, c))

SafeAnchorMutant(d, p) == p   \* mutant: a header may land above bare KVs

(* _safe_header_anchor: past the bare KVs a header there would capture. *)
SafeAnchor(d, p) ==
  IF p = 0 THEN 0
  ELSE Max({j \in p..Len(d.stream) : \A k \in (p + 1)..j : KVAt(d, k)})

ChildHeaderAnchor(d, c) ==
  SafeAnchor(d, IF SubtreeTail(d, c) # 0 THEN SubtreeTail(d, c) ELSE HostTail(d, c))

-----------------------------------------------------------------------------
(* Splicing.                                                               *)

(* f, except where g has a value. *)
Overlaid(f, g) == [x \in DOMAIN f \cup DOMAIN g |-> IF x \in DOMAIN g THEN g[x] ELSE f[x]]

(* _link_run_between: link an unlinked run after position p. *)
Splice(d, p, run) ==
  [d EXCEPT !.stream = SubSeq(@, 1, p) \o run \o SubSeq(@, p + 1, Len(@)),
            !.filed  = Overlaid(@, [s \in Range(run) |-> {}])]

(* _splice_block_after: no anchor means the end of the document. *)
SpliceBlockAfter(d, p, run) == Splice(d, IF p = 0 THEN Len(d.stream) ELSE p, run)

Dropping(run, S) == Keeping(run, Range(run) \ S)

(* Mutant: unlinked slots stay filed. *)
UnlinkMutant(d, S) == [d EXCEPT !.stream = Dropping(@, S)]

(* Unlink slots and scrub every ref to them (_detach_departing_slots,      *)
(* _scrub_owned_slots_via_backptrs).                                       *)
Unlink(d, S) ==
  [d EXCEPT !.stream = Dropping(@, S),
            !.filed  = [s \in DOMAIN @ \ S |-> @[s]]]

(* Move a contiguous run so that it follows the slot `anchor`. *)
MoveRun(d, run, anchor) ==
  LET rest == Dropping(d.stream, Range(run))
      p    == IF anchor = NoSlot THEN 0 ELSE CHOOSE i \in DOMAIN rest : rest[i] = anchor
  IN  [d EXCEPT !.stream = SubSeq(rest, 1, p) \o run \o SubSeq(rest, p + 1, Len(rest))]

(* Mutant: the tables below a deleted binding stay in the document. *)
DropTablesMutant(d, X, A) ==
  [d EXCEPT !.aot = [a \in {a \in DOMAIN @ \ A : <<a[1], Front(a[2])>> \notin X} |-> @[a]]]

DropTables(d, X, A) ==
  [d EXCEPT !.tree = [c \in DOMAIN @ \ X |-> @[c]],
            !.aot  = [a \in {a \in DOMAIN @ \ A : <<a[1], Front(a[2])>> \notin X} |-> @[a]]]

-----------------------------------------------------------------------------
(* An emptied table that no header stands for is given a line of its own.  *)

EmptyInline == "{}"    \* an inline table with nothing in it

AllKeys(d, c) == [i \in DOMAIN d.tree[c] |-> d.tree[c][i].key]
FirstOf(d, S) == CHOOSE s \in S : \A x \in S : Posn(d, s) <= Posn(d, x)

(* _materialise_empty_inline_table: `a = {}` where a's first line was. *)
MaterialiseInline(d, c, primary) ==
  LET host == CHOOSE x \in Lineage(d, c) : x[2] = primary.host
      s    == KV(host[2], SubSeq(c[2], Len(host[2]) + 1, Len(c[2])), c[1], EmptyInline)
  IN  FileOn(Splice(d, Posn(d, primary) - 1, <<s>>), s, Between(d, host, Parent(d, c)))

(* _materialise_empty_section_header: `[a]` where its first header was. *)
MaterialiseHeader(d, c, primary) ==
  LET h == Header(c[2], c[1], NoEntry, TRUE)
  IN  FileOn(Splice(d, Posn(d, primary) - 1, <<h>>), h, Lineage(d, c))
=============================================================================
