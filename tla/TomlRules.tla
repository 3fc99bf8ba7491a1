----------------------------- MODULE TomlRules -----------------------------
(***************************************************************************)
(* What a TOML document's lines mean to tomlrt: the semantic validator     *)
(* (_validator.py) the parser drives line by line (_parser.py), and the    *)
(* builder (_build.py) that turns the accepted lines into logical tables   *)
(* and files each line under the tables it binds.                          *)
(*                                                                         *)
(* A line of text is a header `[p]` / `[[p]]` or a `key = value`.  A slot  *)
(* is a line plus what the program remembers of it: the scope it was read  *)
(* in and the array-of-tables entry that owns it.                          *)
(***************************************************************************)
EXTENDS Integers, Sequences, FiniteSets, SequencesExt

(* Array-of-tables entries are numbered; 0 stands for Python's None. *)
NoEntry == 0

-----------------------------------------------------------------------------
(* Slots.                                                                  *)

KV(host, key, owner, val) ==
  [kind |-> "kv", host |-> host, key |-> key, owner |-> owner, val |-> val]

Header(path, owner, entry, synthetic) ==
  [kind |-> "header", path |-> path, owner |-> owner, entry |-> entry,
   synthetic |-> synthetic]

IsKV(s)     == s.kind = "kv"
IsHeader(s) == s.kind = "header"

(* The path a slot lives under: a KV's host, a header's own path. *)
Scope(s) == IF IsKV(s) THEN s.host ELSE s.path

(* The path it declares. *)
FullPath(s) == IF IsKV(s) THEN s.host \o s.key ELSE s.path

Prefix(p, n) == SubSeq(p, 1, n)

(* Python's f[x] = y, on a dict. *)
PutAt(f, x, y) == [z \in DOMAIN f \cup {x} |-> IF z = x THEN y ELSE f[z]]

-----------------------------------------------------------------------------
(***************************************************************************)
(* The validator.  `scopes` maps each declared path to its declaration;    *)
(* an AoT path stands for its current entry, whose children replace those  *)
(* of the entry before it.                                                 *)
(***************************************************************************)

Declared(kind)     == [kind |-> kind, entry |-> NoEntry]
DeclaredEntry(e)   == [kind |-> "entry", entry |-> e]

FreshValidator ==
  [scopes |-> [p \in {} |-> Declared("value")], section |-> <<>>, owner |-> NoEntry]

KindAt(v, p) == IF p \in DOMAIN v.scopes THEN v.scopes[p].kind ELSE "none"

(* enter_header raises unless these hold. *)
HeaderAllowed(v, path, isAot) ==
  LET last == KindAt(v, path)
  IN  /\ \A i \in 1..(Len(path) - 1) : KindAt(v, Prefix(path, i)) # "value"
      /\ last \notin {"value", "dotted"}
      /\ IF isAot THEN last \notin {"explicit", "implicit"}
                  ELSE last \notin {"explicit", "entry"}

(* Mutant: the outermost entry above. *)
EnclosingEntryMutant(v, path) ==
  LET I == {i \in 1..(Len(path) - 1) : KindAt(v, Prefix(path, i)) = "entry"}
  IN  IF I = {} THEN NoEntry ELSE v.scopes[Prefix(path, Min(I))].entry

(* The entry a header sits in: the deepest array among its proper prefixes. *)
EnclosingEntry(v, path) ==
  LET I == {i \in 1..(Len(path) - 1) : KindAt(v, Prefix(path, i)) = "entry"}
  IN  IF I = {} THEN NoEntry
      ELSE v.scopes[Prefix(path, CHOOSE i \in I : \A j \in I : j <= i)].entry

(* Mutant: a new entry inherits what the entry before it declared. *)
EnterHeaderMutant(v, path, entry) ==
  LET missing == {Prefix(path, i) : i \in 1..(Len(path) - 1)} \ DOMAIN v.scopes
      here    == IF entry = NoEntry THEN Declared("explicit") ELSE DeclaredEntry(entry)
  IN  [scopes  |-> [p \in DOMAIN v.scopes \cup missing \cup {path} |->
                      IF p = path THEN here
                      ELSE IF p \in missing THEN Declared("implicit") ELSE v.scopes[p]],
       section |-> path,
       owner   |-> IF entry = NoEntry THEN EnclosingEntry(v, path) ELSE entry]

(* enter_header: missing prefixes become implicit; a new entry starts empty. *)
EnterHeader(v, path, entry) ==
  LET missing == {Prefix(path, i) : i \in 1..(Len(path) - 1)} \ DOMAIN v.scopes
      kept    == {p \in DOMAIN v.scopes : entry = NoEntry \/ ~IsStrictPrefix(path, p)}
      here    == IF entry = NoEntry THEN Declared("explicit") ELSE DeclaredEntry(entry)
  IN  [scopes  |-> [p \in kept \cup missing \cup {path} |->
                      IF p = path THEN here
                      ELSE IF p \in missing THEN Declared("implicit") ELSE v.scopes[p]],
       section |-> path,
       owner   |-> IF entry = NoEntry THEN EnclosingEntry(v, path) ELSE entry]

(* Mutant: the last key is not checked. *)
KeyAllowedMutant(v, key) ==
  \A i \in 1..(Len(key) - 1) :
    KindAt(v, v.section \o Prefix(key, i)) \in {"none", "dotted", "implicit"}

(* record_keyvalue raises unless these hold. *)
KeyAllowed(v, key) ==
  /\ \A i \in 1..(Len(key) - 1) :
       KindAt(v, v.section \o Prefix(key, i)) \in {"none", "dotted", "implicit"}
  /\ KindAt(v, v.section \o key) = "none"

(* record_keyvalue: the prefixes become (or turn) dotted, the key a value. *)
RecordKeyvalue(v, key) ==
  LET dotted == {v.section \o Prefix(key, i) : i \in 1..(Len(key) - 1)}
      leaf   == v.section \o key
  IN  [v EXCEPT !.scopes =
         [p \in DOMAIN @ \cup dotted \cup {leaf} |->
            IF p = leaf THEN Declared("value")
            ELSE IF p \in dotted THEN Declared("dotted") ELSE @[p]]]

(* What a re-parse of the text of slot s would make of it: the validator's *)
(* verdict, and the scope and owner the new slot is given.                 *)
Allowed(v, s) ==
  IF IsKV(s) THEN KeyAllowed(v, s.key)
             ELSE HeaderAllowed(v, s.path, s.entry # NoEntry)

AfterSlot(v, s) ==
  IF IsKV(s) THEN RecordKeyvalue(v, s.key) ELSE EnterHeader(v, s.path, s.entry)

Reread(v, s) ==
  IF IsKV(s) THEN [s EXCEPT !.host = v.section, !.owner = v.owner]
             ELSE [s EXCEPT !.owner = AfterSlot(v, s).owner]
-----------------------------------------------------------------------------
(***************************************************************************)
(* Documents.  A container (a Table view, or the Document) is named by the *)
(* entry that owns it and its path: sibling entries share a path.  A       *)
(* document is                                                             *)
(*   stream  the slots in document order                                   *)
(*   filed   slot |-> the containers it is filed on (Slot._containers)     *)
(*   tree    container |-> its dict storage, a sequence of bindings        *)
(*   aot     array of tables |-> its entries                               *)
(* A container's `_refs`, `_index`, `_header` and `_body_tail` are read    *)
(* off stream and filed; module RefFiling keeps them as the code does.   *)
(***************************************************************************)

Root == <<NoEntry, <<>>>>

Child(c, key)   == <<c[1], Append(c[2], key)>>
EmptyDocument   ==
  [stream |-> <<>>,
   filed  |-> [s \in {} |-> {}],
   tree   |-> [c \in {Root} |-> <<>>],
   aot    |-> [a \in {} |-> <<>>]]

(* One key of a dict: a plain value, a section, or an array of tables. *)
Binding(key, kind) == [key |-> key, kind |-> kind]

Bindings(d, c) == IF c \in DOMAIN d.tree THEN d.tree[c] ELSE <<>>
KeysOf(d, c)   == {b.key : b \in Range(Bindings(d, c))}
KindOf(d, c, key) ==
  IF key \in KeysOf(d, c)
    THEN (CHOOSE b \in Range(Bindings(d, c)) : b.key = key).kind
    ELSE "none"

EntriesOf(d, a) == IF a \in DOMAIN d.aot THEN d.aot[a] ELSE <<>>

(* dict.__setitem__: a bound key keeps its place. *)
Bound(items, key, kind) ==
  IF \E b \in Range(items) : b.key = key
    THEN [i \in DOMAIN items |->
            IF items[i].key = key THEN Binding(key, kind) ELSE items[i]]
    ELSE Append(items, Binding(key, kind))

Bind(d, c, key, kind) ==
  [d EXCEPT !.tree = PutAt(@, c, Bound(Bindings(d, c), key, kind))]

(* Python's list.append for a slot nobody has filed yet. *)
Linked(d, s) ==
  [d EXCEPT !.stream = Append(@, s),
            !.filed  = PutAt(@, s, {})]

(* record_slot, on each of the containers C. *)
FileOn(d, s, C) == [d EXCEPT !.filed[s] = @ \cup C]

(* Mutant: the last table of the chain is bound but not created. *)
WithChainMutant(d, chain) ==
  LET next(c) == chain[1 + CHOOSE i \in DOMAIN chain : chain[i] = c]
      bound(c, name) == IF KindOf(d, c, name) = "none"
                          THEN Bound(Bindings(d, c), name, "section")
                          ELSE Bindings(d, c)
  IN  [d EXCEPT !.tree = [c \in DOMAIN @ \cup Range(Front(chain)) |->
                            IF c \in Range(Front(chain)) THEN bound(c, Last(next(c)[2]))
                            ELSE @[c]]]

(* Create the missing tables along a chain of containers, each the child   *)
(* of the one before it (_resolve_table_child).                            *)
WithChain(d, chain) ==
  LET next(c) == chain[1 + CHOOSE i \in DOMAIN chain : chain[i] = c]
      bound(c, name) == IF KindOf(d, c, name) = "none"
                          THEN Bound(Bindings(d, c), name, "section")
                          ELSE Bindings(d, c)
  IN  [d EXCEPT !.tree = [c \in DOMAIN @ \cup Range(chain) |->
                            IF c \in Range(Front(chain)) THEN bound(c, Last(next(c)[2]))
                            ELSE Bindings(d, c)]]

(* The containers a header passes on its way down from `root`: headers     *)
(* descend into the latest entry of an array of tables (_resolve_parent).  *)
HeaderChain(d, root, path) ==
  LET depth == Len(root[2])
      at[i \in 1..(Len(path) - depth)] ==
        IF i = 1 THEN root
        ELSE LET up   == at[i - 1]
                 name == path[depth + i - 1]
             IN  IF KindOf(d, up, name) = "aot"
                   THEN <<Last(d.aot[Child(up, name)]), Prefix(path, depth + i - 1)>>
                   ELSE Child(up, name)
  IN  at

(* The containers a KV passes: its host, then down its dotted key. *)
KVChain(s) ==
  [i \in 1..Len(s.key) |-> <<s.owner, s.host \o Prefix(s.key, i - 1)>>]

(* _open_table: `[p]` opens the table at p, whether or not it exists yet. *)
OpenTable(d, root, s) ==
  LET chain == HeaderChain(d, root, s.path)
      own   == Child(Last(chain), Last(s.path))
  IN  FileOn(WithChain(d, Append(chain, own)), s, Range(chain) \cup {own})

(* _open_aot_entry: `[[p]]` appends a fresh entry to the array at p. *)
OpenAoTEntry(d, root, s) ==
  LET chain == HeaderChain(d, root, s.path)
      a     == Child(Last(chain), Last(s.path))
      own   == <<s.entry, s.path>>
      d1    == Bind(WithChain(d, chain), Last(chain), Last(s.path), "aot")
      d2    == [d1 EXCEPT !.aot  = PutAt(@, a, Append(EntriesOf(d, a), s.entry)),
                          !.tree = PutAt(@, own, <<>>)]
  IN  FileOn(d2, s, Range(chain) \cup {own})

(* _apply_kv: bind the value under the host, through its dotted key. *)
ApplyKV(d, chain, s) ==
  FileOn(Bind(WithChain(d, chain), Last(chain), Last(s.key), "value"), s, Range(chain))

(* _apply_header, below `root` *)
OpenHeader(d, root, s) ==
  IF s.entry = NoEntry THEN OpenTable(d, root, s) ELSE OpenAoTEntry(d, root, s)

ApplySlot(d, s) ==
  IF IsKV(s) THEN ApplyKV(Linked(d, s), KVChain(s), s) ELSE OpenHeader(Linked(d, s), Root, s)

(* What the builder asserts of a slot the validator accepted: the current  *)
(* section is the slot's host, no step of the way and no target is already *)
(* bound to something else ("validator drift").                            *)
NoDrift(d, current, s) ==
  IF IsKV(s)
    THEN /\ current[2] = s.host
         /\ \A i \in 1..(Len(s.key) - 1) :
              KindOf(d, KVChain(s)[i], s.key[i]) \in {"none", "section"}
         /\ KindOf(d, Last(KVChain(s)), Last(s.key)) = "none"
    ELSE LET chain == HeaderChain(d, Root, s.path)
         IN  /\ \A i \in 1..(Len(s.path) - 1) :
                  KindOf(d, chain[i], s.path[i]) \in {"none", "section", "aot"}
             /\ KindOf(d, Last(chain), Last(s.path))
                  \in (IF s.entry = NoEntry THEN {"none", "section"} ELSE {"none", "aot"})

(* The container a header makes current; a KV leaves it as it was. *)
Current(d, current, s) ==
  IF IsKV(s) THEN current
  ELSE IF s.entry # NoEntry THEN <<s.entry, s.path>>
  ELSE Child(Last(HeaderChain(d, Root, s.path)), Last(s.path))
=============================================================================
