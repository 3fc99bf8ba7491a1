------------------------------ MODULE TomlText ------------------------------
(***************************************************************************)
(* Whole texts: the documents the parser returns for given lines, and what *)
(* the lines of an edited document read as.                                *)
(***************************************************************************)
EXTENDS TomlRules

(* An entry number no array uses (each AoTEntry is an object of its own). *)
FreshEntry(d) ==
  Min({e \in 1..(Len(d.stream) + 1) : \A a \in DOMAIN d.aot : e \notin Range(d.aot[a])})

(* A line as the parser stamps it: the entry of `[[p]]` is a new one. *)
Stamped(v, s, e) == Reread(v, IF IsHeader(s) /\ s.entry # NoEntry
                                THEN [s EXCEPT !.entry = e] ELSE s)

Permuted(S) == {p \in [1..Cardinality(S) -> S] : Range(p) = S}

(* Every document of at most n lines. *)
Documents(lines, n) ==
  LET line(y)  == Stamped(y[1].v, y[2], FreshEntry(y[1].d))
      after(y) == [v |-> AfterSlot(y[1].v, line(y)), d |-> ApplySlot(y[1].d, line(y))]
      of[i \in 0..n] ==
        IF i = 0 THEN {[v |-> FreshValidator, d |-> EmptyDocument]}
        ELSE of[i - 1] \cup
             {after(y) : y \in {y \in of[i - 1] \X lines :
                                  Len(y[1].d.stream) = i - 1 /\ Allowed(y[1].v, line(y))}}
  IN  {x.d : x \in of[n]}

(* The validator and the builder over the lines of a stream: whether every *)
(* line is accepted, and the document built.                               *)
Reparsed(stream) ==
  LET read[i \in 0..Len(stream)] ==
        IF i = 0 THEN [ok |-> TRUE, v |-> FreshValidator, d |-> EmptyDocument]
        ELSE LET x == read[i - 1]
                 t == Reread(x.v, stream[i])
             IN  IF x.ok /\ Allowed(x.v, stream[i])
                   THEN [ok |-> TRUE, v |-> AfterSlot(x.v, t), d |-> ApplySlot(x.d, t)]
                   ELSE [x EXCEPT !.ok = FALSE]
  IN  read[Len(stream)]
=============================================================================
