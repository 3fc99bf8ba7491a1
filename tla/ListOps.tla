------------------------------- MODULE ListOps ------------------------------
(***************************************************************************)
(* Ordered Python lists: the standard library's bisection and the bulk     *)
(* deletion of _list_ops.py.  Python indices start at 0.                   *)
(***************************************************************************)
EXTENDS Integers, Sequences, SequencesExt

(* bisect.bisect_left, given the items' keys *)
BisectLeft(keys, x) ==
  LET Middle(r) == (r[1] + r[2]) \div 2
      within[r \in (0..Len(keys)) \X (0..Len(keys))] ==   \* r is <<lo, hi>>
        IF r[1] >= r[2] THEN r[1]
        ELSE IF keys[Middle(r) + 1] < x THEN within[<<Middle(r) + 1, r[2]>>]
                                        ELSE within[<<r[1], Middle(r)>>]
  IN  within[<<0, Len(keys)>>]

(* [x for x in items if x in S] *)
Keeping(items, S) ==
  LET kept[n \in 0..Len(items)] ==
        IF n = 0 THEN <<>>
        ELSE IF items[n] \in S THEN Append(kept[n - 1], items[n]) ELSE kept[n - 1]
  IN  kept[Len(items)]

(* Group sorted indices into half-open runs <<start, stop>>. *)
GrownRuns(runs, i) ==
  IF runs # <<>> /\ Last(runs)[2] = i
    THEN Append(Front(runs), <<Last(runs)[1], i + 1>>)
    ELSE Append(runs, <<i, i + 1>>)

IndexRuns(indices) ==
  LET runs[n \in 0..Len(indices)] == IF n = 0 THEN <<>> ELSE GrownRuns(runs[n - 1], indices[n])
  IN  runs[Len(indices)]

(* Python's items[start:stop]. *)
Slice(items, start, stop) == SubSeq(items, start + 1, stop)

(* Remove sorted disjoint runs: what lies between them moves together into *)
(* one replacement for the whole span.                                     *)
DeleteRuns(items, runs) ==
  LET retained[n \in 1..Len(runs)] ==
        IF n = 1 THEN <<>>
        ELSE retained[n - 1] \o Slice(items, runs[n - 1][2], runs[n][1])
  IN  Slice(items, 0, runs[1][1]) \o retained[Len(runs)]
        \o Slice(items, Last(runs)[2], Len(items))
=============================================================================
