------------------------------ MODULE SlotList ------------------------------
(***************************************************************************)
(* The intrusive linked list behind the slot stream: `_prev` / `_next`     *)
(* pointers, the document's `_head` / `_tail`, and the pointer walks that  *)
(* allocate and relabel order keys (tomlrt/_slots.py), with the splicing   *)
(* primitives of tomlrt/_layout_ops.py.  It implements SlotStream.         *)
(***************************************************************************)
EXTENDS Integers, Sequences, FiniteSets

CONSTANTS
  Slot, OrderGap, OrderMinStep, MaxRun,   \* as in SlotStream
  NULL                                    \* Python's None

ASSUME NullAssumption == NULL \notin Slot
ASSUME SlotAssumption == IsFiniteSet(Slot)
ASSUME KeyAssumption  == OrderGap \in Nat \ {0} /\ OrderMinStep \in Nat \ {0}
ASSUME RunAssumption  == MaxRun \in Nat \ {0}

VARIABLES head, tail, prev, next, order
listVars == <<head, tail, prev, next, order>>

-----------------------------------------------------------------------------
(* Pointer walks.                                                          *)

SlotCount == Cardinality(Slot)

(* The slots reached from s by following ptr 0, 1, 2, ... times. *)
Walk(ptr, s) ==
  LET at[i \in 0..SlotCount] ==
        IF i = 0 THEN s ELSE IF at[i - 1] = NULL THEN NULL ELSE ptr[at[i - 1]]
  IN  at

WalkLength(at) == Cardinality({i \in 0..SlotCount : at[i] # NULL})

Visited(at) == [i \in 1..WalkLength(at) |-> at[i - 1]]

Forward  == Visited(Walk(next, head))
Backward == Visited(Walk(prev, tail))

LinkedSlots == {Forward[i] : i \in 1..Len(Forward)}

Larger(a, b) == IF a >= b THEN a ELSE b

-----------------------------------------------------------------------------
(* _respread: the window around the seam (left, right), found by walking.  *)
(* Its outer neighbours at radius r are r steps away from left and right.  *)

Below(left, r)  == Walk(prev, left)[r]
Above(right, r) == Walk(next, right)[r]
AtEnd(left, right, r) == Below(left, r) = NULL \/ Above(right, r) = NULL

Need(count) == Larger(OrderMinStep, count + 1)

Roomy(left, right, count, r) ==
  \/ AtEnd(left, right, r)
  \/ order[Above(right, r)] - order[Below(left, r)] >= (2 * r + 1) * Need(count)

(* The window doubles slot by slot, stopping early at an end. *)
Grown(left, right, r) ==
  CHOOSE q \in r..(2 * r) :
    /\ q = 2 * r \/ AtEnd(left, right, q)
    /\ \A x \in r..(q - 1) : ~AtEnd(left, right, x)

SettledRadius(left, right, count) ==
  LET settle[r \in 1..SlotCount] ==
        IF Roomy(left, right, count, r) THEN r ELSE settle[Grown(left, right, r)]
  IN  settle[1]

Respread(left, right, count) ==
  LET r     == SettledRadius(left, right, count)
      span  == (2 * r + 1) * Larger(OrderGap, Need(count))
      lo    == Below(left, r - 1)
      low   == IF Below(left, r) # NULL THEN order[Below(left, r)] ELSE order[lo] - span
      high  == IF Above(right, r) # NULL THEN order[Above(right, r)] ELSE low + span
      step  == (high - low) \div (2 * r + 1)
      cur   == Walk(next, lo)
  IN  [s \in Slot |->
         IF \E i \in 1..(2 * r) : cur[i - 1] = s
           THEN low + (CHOOSE i \in 1..(2 * r) : cur[i - 1] = s) * step
           ELSE order[s]]

Exhausted(p, n, count) == p # NULL /\ n # NULL /\ order[n] - order[p] <= count

(* Mutant: in front of the head, room is made for one slot only. *)
RunKeysMutant(ord, p, n, count) ==
  LET room  == (ord[n] - ord[p]) \div (count + 1)
      before == IF n # NULL THEN ord[n] ELSE OrderGap
  IN  CASE p = NULL -> [keys |-> ord, step |-> OrderGap, first |-> before - OrderGap]
        [] p # NULL /\ n = NULL -> [keys |-> ord, step |-> OrderGap, first |-> ord[p] + OrderGap]
        [] OTHER    -> [keys |-> ord, step |-> room,     first |-> ord[p] + room]

(* _order_run_between: the keys in force once there is room between p and  *)
(* n, and the first key and step of a run of `count` slots there.          *)
RunKeys(ord, p, n, count) ==
  LET room  == (ord[n] - ord[p]) \div (count + 1)
      before == IF n # NULL THEN ord[n] ELSE count * OrderGap
  IN  CASE p = NULL -> [keys |-> ord, step |-> OrderGap, first |-> before - count * OrderGap]
        [] p # NULL /\ n = NULL -> [keys |-> ord, step |-> OrderGap, first |-> ord[p] + OrderGap]
        [] OTHER    -> [keys |-> ord, step |-> room,     first |-> ord[p] + room]

OrderRunBetween(p, n, count) ==
  RunKeys(IF Exhausted(p, n, count) THEN Respread(p, n, count) ELSE order, p, n, count)

IndexIn(run, s) == CHOOSE i \in 1..Len(run) : run[i] = s
InRun(run, s)   == \E i \in 1..Len(run) : run[i] = s

Stamp(alloc, run) ==
  [s \in Slot |-> IF InRun(run, s) THEN alloc.first + (IndexIn(run, s) - 1) * alloc.step
                                   ELSE alloc.keys[s]]

(* stitch_run: stamp the keys and set every pointer of the run and of its  *)
(* two neighbours.  With an empty run only n's back pointer is written.    *)
StitchRun(p, run, n) ==
  LET k    == Len(run)
      last == IF k > 0 THEN run[k] ELSE p
  IN  /\ order' = Stamp(OrderRunBetween(p, n, k), run)
      /\ prev' = [s \in Slot |->
                     IF InRun(run, s)
                       THEN (IF IndexIn(run, s) = 1 THEN p ELSE run[IndexIn(run, s) - 1])
                     ELSE IF s = n THEN last ELSE prev[s]]
      /\ next' = [s \in Slot |->
                     IF InRun(run, s)
                       THEN (IF IndexIn(run, s) = k THEN n ELSE run[IndexIn(run, s) + 1])
                     ELSE IF s = p /\ k > 0 THEN run[1] ELSE next[s]]

(* _link_run_between: stitch, then move the document's own ends. *)
LinkRunBetween(p, run, n) ==
  /\ StitchRun(p, run, n)
  /\ head' = IF p = NULL THEN (IF run # <<>> THEN run[1] ELSE n) ELSE head
  /\ tail' = IF n = NULL THEN (IF run # <<>> THEN run[Len(run)] ELSE p) ELSE tail

RelinkRunAfter(anchor, run) ==
  LinkRunBetween(anchor, run, IF anchor # NULL THEN next[anchor] ELSE head)

InsertAfter(anchor, s)  == LinkRunBetween(anchor, <<s>>, next[anchor])
InsertBefore(anchor, s) == LinkRunBetween(prev[anchor], <<s>>, anchor)
InsertBeforeHead(s)     == LinkRunBetween(NULL, <<s>>, head)

(* Mutants of unlink_slot: the document's tail is forgotten; the slot keeps *)
(* its own pointers. *)
UnlinkSlotTailMutant(s) ==
  LET p == prev[s]
      n == next[s]
  IN  /\ next' = [x \in Slot |-> IF x = s THEN NULL ELSE IF x = p THEN n ELSE next[x]]
      /\ prev' = [x \in Slot |-> IF x = s THEN NULL ELSE IF x = n THEN p ELSE prev[x]]
      /\ head' = IF p = NULL THEN n ELSE head
      /\ UNCHANGED <<tail, order>>

UnlinkSlotPointerMutant(s) ==
  LET p == prev[s]
      n == next[s]
  IN  /\ next' = [x \in Slot |-> IF x = p THEN n ELSE next[x]]
      /\ prev' = [x \in Slot |-> IF x = n THEN p ELSE prev[x]]
      /\ head' = IF p = NULL THEN n ELSE head
      /\ tail' = IF n = NULL THEN p ELSE tail
      /\ UNCHANGED order

(* unlink_slot.  The blank lines it strips from a new head are text, which *)
(* this module has none of.                                                *)
UnlinkSlot(s) ==
  LET p == prev[s]
      n == next[s]
  IN  /\ next' = [x \in Slot |-> IF x = s THEN NULL ELSE IF x = p THEN n ELSE next[x]]
      /\ prev' = [x \in Slot |-> IF x = s THEN NULL ELSE IF x = n THEN p ELSE prev[x]]
      /\ head' = IF p = NULL THEN n ELSE head
      /\ tail' = IF n = NULL THEN p ELSE tail
      /\ UNCHANGED order

(* _slot_is_linked: answered from the slot's own pointers. *)
SlotIsLinked(s) == s = head \/ prev[s] # NULL \/ next[s] # NULL

-----------------------------------------------------------------------------
Free == Slot \ LinkedSlots

FreeRuns ==
  UNION { {r \in [1..k -> Free] : \A i, j \in 1..k : r[i] = r[j] => i = j}
          : k \in 0..MaxRun }

Init ==
  /\ head = NULL /\ tail = NULL
  /\ prev = [s \in Slot |-> NULL]
  /\ next = [s \in Slot |-> NULL]
  /\ order = [s \in Slot |-> 0]

Next ==
  \/ \E a \in LinkedSlots \cup {NULL}, run \in FreeRuns : RelinkRunAfter(a, run)
  \/ \E a \in LinkedSlots, s \in Free : InsertAfter(a, s)
  \/ \E a \in LinkedSlots, s \in Free : InsertBefore(a, s)
  \/ \E s \in Free : InsertBeforeHead(s)
  \/ \E s \in LinkedSlots : UnlinkSlot(s)

Spec == Init /\ [][Next]_listVars

-----------------------------------------------------------------------------
TypeOK ==
  /\ {head, tail} \subseteq Slot \cup {NULL}
  /\ prev \in [Slot -> Slot \cup {NULL}]
  /\ next \in [Slot -> Slot \cup {NULL}]
  /\ order \in [Slot -> Int]

(* Walking `_prev` from the tail meets exactly the slots met by walking    *)
(* `_next` from the head, in reverse: neither end nor pointer is stale.    *)
EndsAgree ==
  /\ Len(Forward) = Len(Backward)
  /\ \A i \in 1..Len(Forward) : Forward[i] = Backward[Len(Forward) + 1 - i]

(* The constant-time linkedness test reposition_install trusts is right.   *)
LinkTestExact == \A s \in Slot : SlotIsLinked(s) <=> s \in LinkedSlots

Stream == INSTANCE SlotStream WITH stream <- Forward

(* Every pointer surgery is a splice or a removal of the slot sequence,    *)
(* and its window walks allocate the keys SlotStream allocates.            *)
ImplementsStream == Stream!Spec
=============================================================================
