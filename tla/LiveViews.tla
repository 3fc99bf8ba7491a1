------------------------------ MODULE LiveViews ----------------------------
(***************************************************************************)
(* The tables a program holds, and the documents they live in.  A table    *)
(* taken out of a document goes on living, with its lines, in a private    *)
(* document; it can be written to, taken apart, and assigned into any      *)
(* document, where it moves, as the same object, when its document is      *)
(* private, and is copied when it is not (_container.py's __setitem__,     *)
(* __delitem__, pop, and AoT.pop, over module LiveLayout).                 *)
(*                                                                         *)
(* Every table is held.  A place <<i, c>> is table c of document i; the    *)
(* variable `moves` records where each table held before the last call has *)
(* gone, so that tables keep their identity.  It and `last` only record.   *)
(***************************************************************************)
EXTENDS LiveLayout

CONSTANT
  Bounds         \* the bounds of the model, by name: records of keys, the keys
                 \* written; lines, the lines parsed; length, the longest
                 \* document parsed; calls, the number of calls

VARIABLES
  docs,          \* the documents; the first is the program's
  scope,         \* the bounds kept to
  left,          \* calls left
  last,          \* the last call
  moves          \* old place |-> new place

liveVars == <<docs, scope, left, last, moves>>

Limits == Bounds[scope]
NewVal == "w"    \* the plain value written

(* A table emptied of its dotted lines becomes an inline table, which is   *)
(* no section: module InlineViews.                                         *)
BecameInline == <<0, Root>>

Layout(p)     == docs[p[1]].layout
HeldIn(ds)    == UNION {{<<i, c>> : c \in DOMAIN ds[i].layout.tree \ ds[i].above} : i \in DOMAIN ds}
Held          == HeldIn(docs)
NewEntry      == Max({p[2][1] : p \in Held})

(* A private document nobody can reach is as good as empty. *)
Collected(ds) ==
  [i \in DOMAIN ds |->
     IF DOMAIN ds[i].layout.tree \subseteq ds[i].above
       THEN [layout |-> EmptyDocument, private |-> TRUE, above |-> {Root}] ELSE ds[i]]

-----------------------------------------------------------------------------
(* A result is the documents after, and where the places have gone.        *)

Unmoved == [docs |-> docs, to |-> [p \in Held |-> p]]

(* What stood at key of c moves to a document of its own. *)
Displaced(i, c, key, after) ==
  LET d    == docs[i].layout
      gone == BelowKey(d, c, key)
      ds   == [docs EXCEPT ![i].layout = after]
  IN  [docs |-> IF KindOf(d, c, key) \in {"section", "aot"}
                  THEN Append(ds, OrphanOfKey(d, c, key)) ELSE ds,
       to   |-> [p \in Held |->
                   IF p[1] = i /\ p[2] \in gone THEN <<Len(docs) + 1, p[2]>>
                   ELSE IF p[1] = i /\ p[2] \notin DOMAIN after.tree THEN BecameInline
                   ELSE p]]

Deleted(i, c, key, materialise) ==
  Displaced(i, c, key, DeleteKey(docs[i].layout, c, key, materialise))

(* The copy of block b bound at key of c in document i of result r. *)
Copied(r, i, c, key, b) ==
  [r EXCEPT !.docs[i].layout = Clone(@, c, key, b, NewEntry)]

(* The table at place src of result r moved to key of c (_attach_section). *)
Moved(r, i, c, key, src) ==
  LET j    == src[1]
      from == r.docs[j].layout
      b    == Block(from, src[2])
      ds   == [r.docs EXCEPT ![j].layout = WithoutTable(@, src[2])]
      ds2  == [ds EXCEPT ![i].layout = Adopt(@, c, key, b)]
      to   == [p \in DOMAIN r.to |->
                 IF r.to[p][1] = j /\ r.to[p][2] \in DOMAIN b.tree
                   THEN <<i, Rehomed(r.to[p][2], b.top, Append(c[2], key), c[1])>>
                   ELSE r.to[p]]
  IN  [docs |-> [ds2 EXCEPT ![j].layout =
                   SynthesiseHeaderForEmptied(@, Parent(from, src[2]))],
       to   |-> to]

Call(op, p, key, source, how, r) ==
  /\ docs' = Collected(r.docs)
  /\ moves' = r.to
  /\ left' = left - 1
  /\ last' = [op |-> op, at |-> p, key |-> key, source |-> source, how |-> how]
  /\ UNCHANGED scope

-----------------------------------------------------------------------------
(* The calls.                                                              *)

(* c.pop(k), del c[k] *)
DelItem ==
  \E p \in Held : \E k \in KeysOf(Layout(p), p[2]) :
    Call("delete", p, k, p, "removed", Deleted(p[1], p[2], k, TRUE))

(* c[k] = a plain value *)
SetScalar ==
  \E p \in Held, k \in Limits.keys :
    Call("set", p, k, p, "written",
         Displaced(p[1], p[2], k, SetKey(Layout(p), p[2], k, Scalar(NewVal))))

(* aot.pop(n), on an array of a table that is held *)
PopEntry ==
  \E p \in Held : \E k \in KeysOf(Layout(p), p[2]) :
    LET d == Layout(p)
        a == Child(p[2], k)
    IN  /\ KindOf(d, p[2], k) = "aot"
        /\ \E n \in DOMAIN d.aot[a] :
             LET e    == d.aot[a][n]
                 gone == Subtree(d, {EntryTable(a, e)})
             IN  Call("pop", p, k, <<p[1], EntryTable(a, e)>>, "removed",
                      [docs |-> Append([docs EXCEPT ![p[1]].layout = RemoveEntries(d, a, {n})],
                                       OrphanOfEntry(d, a, e)),
                       to   |-> [q \in Held |-> IF q[1] = p[1] /\ q[2] \in gone
                                                  THEN <<Len(docs) + 1, q[2]>> ELSE q]])

(* The placing of what replaced a binding (reposition_install). *)
InPlace(r, before, p, key, repl) ==
  [r EXCEPT !.docs[p[1]].layout = Settled(before, @, p[2], key, repl)]

(* c[k] = a table (_setitem_validated, _overwrite_existing, _insert_new).  *)
AssignTable ==
  \E p, w \in Held, k \in Limits.keys :
    LET i       == p[1]
        c       == p[2]
        d       == Layout(p)
        bound   == KindOf(d, c, k) # "none"
        overlap == i = w[1] /\ Overlaps(d, c, k, w[2])
        r       == IF bound THEN Deleted(i, c, k, FALSE) ELSE Unmoved
        src     == r.to[w]
        copied  == overlap \/ ~r.docs[src[1]].private
        b       == IF overlap THEN Block(d, w[2]) ELSE Block(r.docs[src[1]].layout, src[2])
        placed  == IF copied THEN Copied(r, i, c, k, b) ELSE Moved(r, i, c, k, src)
        settled == IF bound THEN InPlace(placed, r.docs[i].layout, p, k, Replacing(d, c, k))
                            ELSE placed
    IN  /\ ~(w = <<i, Child(c, k)>> /\ KindOf(d, c, k) = "section")
        /\ IF overlap /\ ~Copyable(d)
             THEN Call("assign", p, k, w, "raised", Unmoved)
             ELSE Call("assign", p, k, w, IF copied THEN "copied" ELSE "moved", settled)

Init ==
  /\ scope \in DOMAIN Bounds
  /\ docs \in {<<Public(d)>> : d \in Documents(Limits.lines, Limits.length)}
  /\ left = Limits.calls
  /\ moves = [p \in Held |-> p]
  /\ last = [op |-> "parse", at |-> <<1, Root>>, key |-> "", source |-> <<1, Root>>, how |-> "built"]

Next ==
  /\ left > 0
  /\ DelItem \/ SetScalar \/ PopEntry \/ AssignTable

Spec == Init /\ [][Next]_liveVars

-----------------------------------------------------------------------------
(* Every slot is filed on tables of its own document, every line once.     *)
TypeOK ==
  \A i \in DOMAIN docs :
    LET d == docs[i].layout
    IN  /\ IsInjective(d.stream)
        /\ DOMAIN d.filed = Range(d.stream)
        /\ \A s \in DOMAIN d.filed : d.filed[s] \subseteq DOMAIN d.tree
        /\ docs[i].private <=> i > 1

(* A dotted line written to a table while it was away has no owner; coming *)
(* back to an array entry with its table it should get one, and does not   *)
(* (_transfer_stale_owner moves only lines of the owner left behind).      *)
Stray(s) == IsKV(s) /\ Len(s.key) > 1 /\ s.val = NewVal /\ s.owner = NoEntry

(* Whatever was moved in or out, the program's own document is as parsing  *)
(* its text from nothing would build it: every line where its slot says it *)
(* is, filed on the same tables, bound under the same keys.                *)
PublicAsBuilt ==
  LET d == docs[1].layout
      r == Reparsed(d.stream)
  IN  /\ r.ok
      /\ \A n \in DOMAIN d.stream :
           LET s == d.stream[n]
               t == r.d.stream[n]
           IN  /\ s = t \/ (Stray(s) /\ s = [t EXCEPT !.owner = NoEntry])
               /\ d.filed[s] = r.d.filed[t]
      /\ DOMAIN r.d.tree = DOMAIN d.tree
      /\ \A c \in DOMAIN d.tree : Range(r.d.tree[c]) = AsRead(d, c)
      /\ \A a \in DOMAIN d.aot : EntriesOf(r.d, a) = d.aot[a]

(* The tables a header or a dotted key should be filed on.                 *)
FilingOf(d, s) ==
  IF IsHeader(s)
    THEN Lineage(d, <<IF s.entry # NoEntry THEN s.entry ELSE s.owner, s.path>>)
    ELSE {x \in Lineage(d, CHOOSE c \in d.filed[s] : c[2] = s.host \o Front(s.key)) :
            Len(x[2]) >= Len(s.host)}

(* A private document is never parsed, so only its own bookkeeping can go  *)
(* wrong: each slot is filed on exactly the tables it binds, and a table's *)
(* keys are those its slots spell, so every one of them has a line to move *)
(* with it.                                                                *)
OrphansConsistent ==
  \A i \in DOMAIN docs :
    LET d == docs[i].layout
    IN  docs[i].private =>
          /\ \A s \in DOMAIN d.filed : d.filed[s] = FilingOf(d, s)
          /\ \A c \in DOMAIN d.tree \ docs[i].above :
               KeysOf(d, c) = {LocalKey(s, c) : s \in RefSet(d, c)} \ {"own header"}

-----------------------------------------------------------------------------
(* The content of a table: a plain value, a table, an array of tables.     *)

Plain(x)  == [form |-> "plain", val |-> x]
Table(p)  == [form |-> "table", at |-> p]
Array(ps) == [form |-> "array", at |-> ps]

Item(ds, p, k) ==
  LET d == ds[p[1]].layout
      t == Child(p[2], k)
  IN  CASE KindOf(d, p[2], k) = "section" -> Table(<<p[1], t>>)
        [] KindOf(d, p[2], k) = "aot"     ->
             Array([n \in DOMAIN d.aot[t] |-> <<p[1], EntryTable(t, d.aot[t][n])>>])
        [] OTHER -> Plain((CHOOSE s \in IndexSet(d, p[2], k) : TRUE).val)

Contents(ds, p) == [k \in KeysOf(ds[p[1]].layout, p[2]) |-> Item(ds, p, k)]

(* The same item, its tables where they have gone. *)
Followed(item, to) ==
  CASE item.form = "table" -> IF to[item.at] = BecameInline THEN Plain(EmptyInline)
                                                            ELSE Table(to[item.at])
    [] item.form = "array" -> Array([n \in DOMAIN item.at |-> to[item.at[n]]])
    [] OTHER               -> item

(* An array that loses its last entry to a move goes with it; one emptied  *)
(* by pop stays.                                                           *)
LessEntry(map, k, q, keep) ==
  LET rest == SelectSeq(map[k].at, LAMBDA x : x # q)
  IN  IF rest = <<>> /\ ~keep THEN Without(map, {k}) ELSE Put(map, k, Array(rest))

(* What table p holds after the call `did`, tables named as before it.     *)
Before(p, did) ==
  LET map  == Contents(docs, p)
      src  == did.source
      out  == Last(src[2][2])
      gave == did.how = "moved" /\ p[1] = src[1] /\ p[2] = Parent(Layout(src), src[2])
      kept == IF ~gave THEN map
              ELSE IF map[out].form = "array" THEN LessEntry(map, out, src, FALSE)
              ELSE Without(map, {out})
  IN  CASE p = did.at /\ did.op = "delete" -> Without(map, {did.key})
        [] p = did.at /\ did.op = "set"    -> Put(map, did.key, Plain(NewVal))
        [] p = did.at /\ did.op = "pop"    -> LessEntry(map, did.key, src, TRUE)
        [] p = did.at /\ did.how = "moved" -> Put(kept, did.key, Table(src))
        [] p = did.at /\ did.how = "copied" -> Without(map, {did.key})
        [] OTHER -> kept

(* A call changes one binding of one table, and nothing else of any table  *)
(* that anybody holds, wherever it lives: the table written to binds the   *)
(* value given, the very table when it moved and a table of the same data  *)
(* when it was copied, and the table it moved from gives it up.            *)
OnlyThatBindingChanges ==
  [][LET did == last'
         new == Item(docs', moves'[did.at], did.key)
     IN  /\ \A p \in Held :
              moves'[p] # BecameInline =>
                LET want == Before(p, did)
                    have == Contents(docs', moves'[p])
                    mine == IF p = did.at /\ did.how = "copied" THEN {did.key} ELSE {}
                IN  Without(have, mine) = [k \in DOMAIN want |-> Followed(want[k], moves')]
         /\ did.how = "copied" =>
              /\ new.form = "table"
              /\ new.at \notin {moves'[p] : p \in Held}
              /\ PlainMap(docs'[new.at[1]].layout, new.at[2])
                   = PlainMap(Layout(did.source), did.source[2])
    ]_liveVars

(* Assigning a table inside itself installs a copy: no such call fails.    *)
SelfInstallSucceeds == last.how # "raised"
=============================================================================
