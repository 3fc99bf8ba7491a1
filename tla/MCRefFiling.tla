----------------------------- MODULE MCRefFiling ----------------------------
(* Documents of a few lines over two keys, for RefFiling. *)
EXTENDS RefFiling

CONSTANT MaxPath

KeySymmetry == Permutations(Key)
Paths == UNION {[1..n -> Key] : n \in 1..MaxPath}

AllLines ==
  {KV(<<>>, k, NoEntry, "v") : k \in Paths}
  \cup {Header(p, NoEntry, NoEntry, TRUE) : p \in Paths}
  \cup {Header(p, NoEntry, 1, FALSE) : p \in Paths}

IsEntryHeader(s) == IsHeader(s) /\ s.entry # NoEntry
EntryHeaders(run) == SelectSeq(run, IsEntryHeader)

(* Up to three lines, two of them array entries; or four lines, one of     *)
(* them an entry of an array of the root's and none a dotted key.          *)
FewLines(run) ==
  \/ Len(run) <= 3 /\ Len(EntryHeaders(run)) <= 2
  \/ /\ Len(run) <= 4
     /\ Len(EntryHeaders(run)) <= 1
     /\ \A s \in Range(EntryHeaders(run)) : Len(s.path) = 1
     /\ \A s \in Range(run) : IsKV(s) => Len(s.key) = 1
=============================================================================
