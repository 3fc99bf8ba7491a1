----------------------------- MODULE TomlParser -----------------------------
(***************************************************************************)
(* Reading a document: each line is checked by the validator, stamped with *)
(* the section and entry in force, and handed to the builder.  The program *)
(* runs the builder over all the slots once the last line is accepted;     *)
(* here it follows line by line, which changes no intermediate result.     *)
(***************************************************************************)
EXTENDS TomlRules, TomlTokens

CONSTANT
  Bounds         \* the bounds of the model: records [keys |-> those of Key used,
                 \* depth |-> longest path or dotted key, lines |-> longest document]

ASSUME BoundsAssumption == \A b \in Bounds : b.keys \subseteq Key /\ b.depth \in Nat

VARIABLES
  validator,     \* _Validator: declared scopes, current section and owner
  doc,           \* the Document under construction
  current,       \* the builder's current host container
  bound          \* the bounds this document keeps to

parserVars == <<validator, doc, current, bound>>

Paths == UNION {[1..n -> bound.keys] : n \in 1..bound.depth}

LatestEntry == Cardinality({s \in Range(doc.stream) : IsHeader(s) /\ s.entry # NoEntry})

(* The slots the parser may make of the next line: stamped with the        *)
(* section and owner the validator reports (_parse_header, _parse_key_value). *)
Lines ==
  {Reread(validator, Header(p, NoEntry, e, FALSE)) :
     p \in Paths, e \in {NoEntry, LatestEntry + 1}}
  \cup {Reread(validator, KV(<<>>, k, NoEntry, x)) : k \in Paths, x \in Vals}

-----------------------------------------------------------------------------
(* One line is read, accepted and built; a refused line raises a           *)
(* TOMLParseError and no document is returned.                             *)
Read(s) ==
  /\ Len(doc.stream) < bound.lines
  /\ Allowed(validator, s)
  /\ validator' = AfterSlot(validator, s)
  /\ doc' = ApplySlot(doc, s)
  /\ current' = Current(doc, current, s)
  /\ UNCHANGED bound

ReadKeyValue == \E s \in Lines : IsKV(s) /\ Read(s)
ReadTable    == \E s \in Lines : IsHeader(s) /\ s.entry = NoEntry /\ Read(s)
ReadEntry    == \E s \in Lines : IsHeader(s) /\ s.entry # NoEntry /\ Read(s)

Init ==
  /\ validator = FreshValidator
  /\ doc = EmptyDocument
  /\ current = Root
  /\ bound \in Bounds

Next == ReadKeyValue \/ ReadTable \/ ReadEntry

Spec == Init /\ [][Next]_parserVars

-----------------------------------------------------------------------------
(* A reference for redefinition, read off the lines so far and nothing     *)
(* else.  A line stops counting once a later `[[q]]` opens a fresh entry   *)
(* above the path it declares.                                             *)

Live ==
  {doc.stream[i] : i \in
     {k \in DOMAIN doc.stream :
        \A j \in (k + 1)..Len(doc.stream) :
          LET h == doc.stream[j]
          IN  ~(IsHeader(h) /\ h.entry # NoEntry
                  /\ IsStrictPrefix(h.path, FullPath(doc.stream[k])))}}

ValueAt(p)    == \E s \in Live : IsKV(s) /\ FullPath(s) = p
DottedAt(p)   == \E s \in Live : IsKV(s) /\ IsStrictPrefix(s.host, p)
                                         /\ IsStrictPrefix(p, FullPath(s))
ExplicitAt(p) == \E s \in Live : IsHeader(s) /\ s.path = p /\ s.entry = NoEntry
EntryAt(p)    == \E s \in Live : IsHeader(s) /\ s.path = p /\ s.entry # NoEntry
AboveAt(p)    == \E s \in Live : IsHeader(s) /\ IsStrictPrefix(p, s.path)

UpTo(p, n) == {Prefix(p, i) : i \in (n + 1)..Len(p)}

Conflict(s) ==
  LET p == FullPath(s)
  IN  IF IsKV(s)
        THEN \/ \E q \in UpTo(p, Len(s.host)) : ValueAt(q) \/ ExplicitAt(q) \/ EntryAt(q)
             \/ DottedAt(p) \/ AboveAt(p)
        ELSE \/ \E q \in UpTo(p, 0) : ValueAt(q)
             \/ DottedAt(p) \/ ExplicitAt(p)
             \/ s.entry = NoEntry /\ EntryAt(p)
             \/ s.entry # NoEntry /\ AboveAt(p) /\ ~EntryAt(p)

-----------------------------------------------------------------------------
TypeOK ==
  /\ validator.section \in Paths \cup {<<>>}
  /\ DOMAIN doc.filed = Range(doc.stream)
  /\ \A s \in DOMAIN doc.filed : doc.filed[s] \subseteq DOMAIN doc.tree
  /\ current \in DOMAIN doc.tree

(* The validator's incremental scope tree refuses exactly the lines that   *)
(* redefine something an earlier, still current line defined: neither the  *)
(* children cleared by a new entry nor an implicit table turned dotted     *)
(* makes it forget or invent a declaration (enter_header, record_keyvalue).*)
RefusesExactlyRedefinitions == \A s \in Lines : Allowed(validator, s) <=> ~Conflict(s)

(* A line the validator accepts never trips one of the builder's           *)
(* "validator drift" assertions: the two keep different trees, and agree.  *)
BuilderFollows == \A s \in Lines : Allowed(validator, s) => NoDrift(doc, current, s)

(* The entry the validator stamps on the next line is the one owning the   *)
(* container the builder files it on: a line under `[a.b]` inside `[[a]]`  *)
(* carries a's entry, also when the header path crosses nested arrays.     *)
OwnerIsCurrent == current = <<validator.owner, validator.section>>
=============================================================================
