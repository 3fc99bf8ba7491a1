---------------------------- MODULE SectionLayout ---------------------------
(***************************************************************************)
(* A live document under its mapping and list API: one action per public   *)
(* call on a Document, a section or an array of tables, starting from any  *)
(* document the parser can return.                                         *)
(*                                                                         *)
(* Two variables only record: `call` the last call, for the statement that *)
(* every call has the effect its dict or list counterpart has; `seen` what *)
(* parsing the document's present text gives.                              *)
(***************************************************************************)
EXTENDS LayoutData

CONSTANTS
  Key,           \* bare keys
  Values,        \* new values a key may be set to
  Bodies,        \* item sequences a new entry may hold
  Scopes         \* the bounds of the model, by name: records of
                 \* keys, the keys called with; values, those of Values set;
                 \* lines, the lines parsed, unstamped; calls, the public calls
                 \* made; length, the longest document parsed; slots, the longest
                 \* an edit may leave; edits, the number of edits

VARIABLES
  doc,           \* the document
  edits,         \* number of edits so far
  call,          \* the last call: its name, the route to its receiver, its arguments
  seen,          \* what the text reads as
  scope          \* the bounds kept to, a name in Scopes

layoutVars == <<doc, edits, call, seen, scope>>
Limits     == Scopes[scope]

Reading(r) == [ok |-> r.ok, doc |-> r.d, data |-> PlainMap(r.d, Root)]
Seen(d)    == Reading(Reparsed(d.stream))

-----------------------------------------------------------------------------
(* The public calls.                                                       *)

Containers == DOMAIN doc.tree
Arrays     == DOMAIN doc.aot

PlaceOf(e, seq) == SelectInSeq(seq, LAMBDA x : x = e)

(* The way from the Document to a container. *)
RECURSIVE RouteOf(_, _)
RouteOf(d, c) ==
  IF c = Root THEN <<>>
  ELSE LET at == IF IsEntry(d, c) THEN PlaceOf(c[1], d.aot[ArrayOf(d, c[1])]) ELSE 0
       IN  Append(RouteOf(d, Parent(d, c)), Step(Last(c[2]), at))

Edit(name, c, args, after) ==
  /\ name \in Limits.calls
  /\ Len(after.stream) <= Limits.slots
  /\ doc' = after
  /\ edits' = edits + 1
  /\ call' = [name |-> name, route |-> RouteOf(doc, c), args |-> args]
  /\ seen' = Seen(after)
  /\ UNCHANGED scope

(* c[k] = x (Container.__setitem__) *)
SetItem ==
  \E c \in Containers, k \in Limits.keys, x \in Limits.values :
    Edit("set", c, <<k, x>>, SetKey(doc, c, k, x))

(* del c[k], pop, popitem (Container.__delitem__) *)
DelItem ==
  \E c \in Containers : \E k \in KeysOf(doc, c) :
    Edit("delete", c, <<k>>, DeleteKey(doc, c, k, TRUE))

Clear ==
  \E c \in Containers :
    /\ doc.tree[c] # <<>>
    /\ Edit("clear", c, <<>>, DeleteKeys(doc, c, AllKeys(doc, c), TRUE))

(* c.ensure_table((j, k)) where j is missing, or is a section without k    *)
(* (_create_section_chain).                                                *)
EnsureTable ==
  \E c \in Containers, j, k \in Limits.keys :
    \/ /\ KindOf(doc, c, j) = "none"
       /\ Edit("ensure", c, <<j, k>>, AttachSection(doc, c, <<j, k>>, <<>>))
    \/ /\ KindOf(doc, c, j) = "section"
       /\ KindOf(doc, Child(c, j), k) = "none"
       /\ Edit("ensure", c, <<j, k>>, AttachSection(doc, Child(c, j), <<k>>, <<>>))

(* c.install((j, k), x) where j is missing: an implicit parent for a       *)
(* structural value, a section with a header for a plain one.              *)
Install ==
  \E c \in Containers, j, k \in Limits.keys, x \in Limits.values :
    /\ KindOf(doc, c, j) = "none"
    /\ LET parent == IF x.form = "value" THEN AttachSection(doc, c, <<j>>, <<>>)
                                         ELSE WithImplicit(doc, c, <<j>>)
       IN  Edit("install", c, <<j, k, x>>, InsertNew(parent, Child(c, j), k, x, NoReplacement))

(* c.sort(...): any order the key function and direction may give, within  *)
(* each group.                                                             *)
Sort ==
  \E c \in Containers :
    /\ Len(doc.tree[c]) > 1
    /\ \E order \in Permuted(KeysOf(doc, c)) :
         /\ \A i, j \in DOMAIN order :
              i < j => SortGroup(doc, c, order[i]) <= SortGroup(doc, c, order[j])
         /\ Edit("sort", c, <<>>,
                 [ReorderContainer(doc, c, order)
                    EXCEPT !.tree[c] = [i \in DOMAIN order |->
                                          Binding(order[i], KindOf(doc, c, order[i]))]])

(* aot.insert, append, add (add_aot_entry) *)
InsertEntry ==
  \E a \in Arrays, body \in Bodies : \E i \in 0..Len(doc.aot[a]) :
    Edit("insert", ParentOfArray(a), <<Last(a[2]), i, body>>, AddEntry(doc, a, i, body))

(* del aot[i:j], aot.pop, remove, clear *)
RemoveEntry ==
  \E a \in Arrays : \E I \in SUBSET DOMAIN doc.aot[a] \ {{}} :
    Edit("remove", ParentOfArray(a), <<Last(a[2]), I>>, RemoveEntries(doc, a, I))

(* aot[i:j] = bodies, aot[i] = body *)
AssignEntry ==
  \E a \in Arrays : \E i \in 0..Len(doc.aot[a]) :
    \E n \in 0..(Len(doc.aot[a]) - i), m \in 0..2 : \E bodies \in [1..m -> Bodies] :
      /\ n + m > 0
      /\ Edit("assign", ParentOfArray(a), <<Last(a[2]), i, n, bodies>>,
              AssignEntries(doc, a, i, n, bodies))

(* aot.sort, aot.reverse *)
ReorderEntries ==
  \E a \in Arrays : \E order \in Permuted(Range(doc.aot[a])) :
    Edit("reorder", ParentOfArray(a),
         <<Last(a[2]), [i \in DOMAIN order |-> PlaceOf(order[i], doc.aot[a])]>>,
         RenormaliseEntries(doc, a, order))

Init ==
  /\ scope \in DOMAIN Scopes
  /\ doc \in Documents(Limits.lines, Limits.length)
  /\ edits = 0
  /\ call = [name |-> "parse", route |-> <<>>, args |-> <<>>]
  /\ seen = Seen(doc)

Next ==
  /\ edits < Limits.edits
  /\ \/ SetItem \/ DelItem \/ Clear \/ EnsureTable \/ Install \/ Sort
     \/ InsertEntry \/ RemoveEntry \/ AssignEntry \/ ReorderEntries

Spec == Init /\ [][Next]_layoutVars

-----------------------------------------------------------------------------
(* Every slot is filed, on live containers only; a dict binds a key once;  *)
(* the entries of an array are distinct.                                   *)
TypeOK ==
  /\ DOMAIN doc.filed = Range(doc.stream)
  /\ \A s \in DOMAIN doc.filed : doc.filed[s] \subseteq Containers
  /\ \A c \in Containers : IsInjective([i \in DOMAIN doc.tree[c] |-> doc.tree[c][i].key])
  /\ \A a \in Arrays : IsInjective(doc.aot[a])

(* Whatever was edited, the text is TOML the parser takes, with no key or  *)
(* table defined twice, and every line still stands where it says it does: *)
(* the section and the entry a re-parse would read it in are the host and  *)
(* owner its slot remembers.  An edit that puts a header above somebody's  *)
(* lines, or a line below somebody's header, breaks this although the text *)
(* may be valid.                                                           *)
LinesStayInScope == seen.ok /\ seen.doc.stream = doc.stream

(* The back-references editing keeps incrementally (record_slot,           *)
(* file_own_header, the scrubs) are those building the text from nothing   *)
(* would file, slot by slot.                                               *)
FilingAsBuilt == seen.ok /\ seen.doc.filed = doc.filed

(* The live views hold what their text holds: every container has the keys *)
(* and kinds a re-parse binds, every array its entries in text order, and  *)
(* no container outlives its text.                                         *)
ViewsMatchText ==
  seen.ok => /\ DOMAIN seen.doc.tree = Containers
             /\ \A c \in Containers : Range(seen.doc.tree[c]) = AsRead(doc, c)
             /\ \A a \in Arrays : EntriesOf(seen.doc, a) = doc.aot[a]

(* The data the text means changes as Python's dict and list would: every  *)
(* call has the effect of its namesake on plain data, on the binding it    *)
(* names and nowhere else.                                                 *)
Plain == INSTANCE PlainDocument WITH data <- seen.data
ImplementsPlain == Plain!Spec

(* Whose text a call may take away or rewrite. *)
ContainerAt(route) ==
  FoldLeft(LAMBDA c, step : LET x == Child(c, step.key)
                            IN  IF step.at = 0 THEN x ELSE EntryTable(x, doc.aot[x][step.at]),
           Root, route)

Rewrites(request) ==
  LET c == ContainerAt(request.route)
  IN  CASE request.name \in {"ensure", "install"} -> {}
        [] request.name \in {"clear", "sort"}     -> OwnedByContainer(doc, c)
        [] OTHER                                  -> Departing(doc, c, request.args[1])

(* An edit leaves every other line alone: what does not belong to the      *)
(* binding edited stays, unchanged and in order.  Only headers the library *)
(* itself wrote to stand for an empty table may go.  Sorting and           *)
(* reversing drop no line at all.                                          *)
OtherLinesKept ==
  [][LET mine       == Rewrites(call')
         written(s) == s \notin mine /\ ~(IsHeader(s) /\ s.synthetic)
         still(s)   == written(s) /\ s \in Range(doc.stream)
     IN  /\ SelectSeq(doc'.stream, still) = SelectSeq(doc.stream, written)
         /\ call'.name \in {"sort", "reorder"} => Range(doc'.stream) = Range(doc.stream)
    ]_layoutVars
=============================================================================
