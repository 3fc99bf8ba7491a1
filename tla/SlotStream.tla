----------------------------- MODULE SlotStream -----------------------------
(***************************************************************************)
(* The document's slot stream and its order keys (tomlrt/_slots.py).       *)
(*                                                                         *)
(* A document is a doubly linked list of physical lines ("slots").  Every  *)
(* linked slot carries an integer `_order`, strictly increasing along the  *)
(* list, so that "which slot comes first?" is a comparison.  Here the list *)
(* is the sequence `stream`; module SlotList is the pointer-level version  *)
(* and implements this one.                                                *)
(***************************************************************************)
EXTENDS Integers, Sequences, FiniteSets

CONSTANTS
  Slot,          \* every slot object the program may splice
  OrderGap,      \* nominal spacing of fresh keys (_ORDER_GAP)
  OrderMinStep,  \* spacing a relabelled window must offer (_ORDER_MIN_STEP)
  MaxRun         \* longest run spliced in one call (a bound of the model)

ASSUME GapAssumption     == OrderGap \in Nat \ {0}
ASSUME MinStepAssumption == OrderMinStep \in Nat \ {0}
ASSUME MaxRunAssumption  == MaxRun \in Nat

VARIABLES
  stream,        \* the linked slots, in document order
  order          \* Slot._order; arbitrary for an unlinked slot

streamVars == <<stream, order>>

Linked == {stream[i] : i \in 1..Len(stream)}

Larger(a, b)  == IF a >= b THEN a ELSE b
Smaller(a, b) == IF a <= b THEN a ELSE b

(* The runs a caller may splice: distinct slots, none of them linked. *)
Runs ==
  UNION { {r \in [1..k -> Slot \ Linked] : \A i, j \in 1..k : r[i] = r[j] => i = j}
          : k \in 0..MaxRun }

-----------------------------------------------------------------------------
(***************************************************************************)
(* Key allocation.  A seam is named by the number p of slots before it.    *)
(***************************************************************************)

Key(i) == order[stream[i]]

(* The spacing _respread asks of a window before it stops growing. *)
Need(count) == Larger(OrderMinStep, count + 1)

(* The window of radius r around seam p is p-r+1 .. p+r.  It doubles at    *)
(* each probe, clipped where it meets an end of the stream: the radii      *)
(* tried are the least set with 1 in it and every radius so widened.       *)
Reach(p)      == Smaller(p, Len(stream) - p)
Widened(p, r) == Smaller(2 * r, Reach(p))
Closed(p, D)  == 1 \in D /\ \A r \in D : Widened(p, r) \in D
Probes(p) ==
  {r \in 1..Reach(p) : \A D \in SUBSET (1..Reach(p)) : Closed(p, D) => r \in D}

(* Mutant: a window one slot short of an end is taken for one that meets it. *)
AtEndMutant(p, r) == p - r <= 1 \/ p + r >= Len(stream) - 1

(* An end of the stream has all the room it wants; inside it, the window   *)
(* must hold 2r keys at the spacing needed.                                *)
AtEnd(p, r) == p - r = 0 \/ p + r = Len(stream)
Roomy(p, count, r) ==
  AtEnd(p, r) \/ Key(p + r + 1) - Key(p - r) >= (2 * r + 1) * Need(count)

RespreadRadius(p, count) ==
  CHOOSE r \in Probes(p) :
    /\ Roomy(p, count, r)
    /\ \A q \in Probes(p) : Roomy(p, count, q) => r <= q

RespreadLow(p, count, r) ==
  IF p - r >= 1 THEN Key(p - r)
                ELSE Key(1) - (2 * r + 1) * Larger(OrderGap, Need(count))

RespreadHigh(p, count, r) ==
  IF p + r < Len(stream)
    THEN Key(p + r + 1)
    ELSE RespreadLow(p, count, r) + (2 * r + 1) * Larger(OrderGap, Need(count))

(* Re-lay the keys of the smallest roomy window, evenly. *)
Respread(p, count) ==
  LET r    == RespreadRadius(p, count)
      low  == RespreadLow(p, count, r)
      step == (RespreadHigh(p, count, r) - low) \div (2 * r + 1)
  IN  [s \in Slot |->
         IF \E j \in (p - r + 1)..(p + r) : stream[j] = s
           THEN low + (CHOOSE i \in 1..(2 * r) : stream[p - r + i] = s) * step
           ELSE order[s]]

(* Mutant: a gap of exactly `count` is thought to have room. *)
ExhaustedMutant(p, count) ==
  /\ 0 < p /\ p < Len(stream)
  /\ Key(p + 1) - Key(p) < count

(* A seam inside the stream with no room for `count` more keys. *)
Exhausted(p, count) ==
  /\ 0 < p /\ p < Len(stream)
  /\ Key(p + 1) - Key(p) <= count

(* The keys of the linked slots once the seam can take the run. *)
Opened(p, count) == IF Exhausted(p, count) THEN Respread(p, count) ELSE order

(* First key and step of a run, given the (possibly re-laid) keys. *)
RunStep(ord, p, count) ==
  IF 0 < p /\ p < Len(stream)
    THEN (ord[stream[p + 1]] - ord[stream[p]]) \div (count + 1)
    ELSE OrderGap

RunFirst(ord, p, count) ==
  IF p > 0               THEN ord[stream[p]] + RunStep(ord, p, count)
  ELSE IF Len(stream) > 0 THEN ord[stream[1]] - count * OrderGap
  ELSE 0

Spliced(p, run) ==
  [i \in 1..(Len(stream) + Len(run)) |->
     IF i <= p THEN stream[i]
     ELSE IF i <= p + Len(run) THEN run[i - p]
     ELSE stream[i - Len(run)]]

Stamped(ord, p, run) ==
  [s \in Slot |->
     IF \E i \in 1..Len(run) : run[i] = s
       THEN RunFirst(ord, p, Len(run))
              + ((CHOOSE i \in 1..Len(run) : run[i] = s) - 1) * RunStep(ord, p, Len(run))
       ELSE ord[s]]

-----------------------------------------------------------------------------
(* stitch_run: link a run after the first p slots, stamping its keys. *)
StitchRun(p, run) ==
  /\ stream' = Spliced(p, run)
  /\ order' = Stamped(Opened(p, Len(run)), p, run)

(* unlink_slot: drop the p-th slot; no other key changes. *)
UnlinkSlot(p) ==
  /\ stream' = [i \in 1..(Len(stream) - 1) |->
                  IF i < p THEN stream[i] ELSE stream[i + 1]]
  /\ UNCHANGED order

Init ==
  /\ stream = <<>>
  /\ order = [s \in Slot |-> 0]

Next ==
  \/ \E p \in 0..Len(stream), run \in Runs : StitchRun(p, run)
  \/ \E p \in 1..Len(stream) : UnlinkSlot(p)

Spec == Init /\ [][Next]_streamVars

-----------------------------------------------------------------------------
TypeOK ==
  /\ stream \in Seq(Slot)
  /\ order \in [Slot -> Int]

(* No slot is linked twice. *)
NoRepeats == \A i, j \in 1..Len(stream) : stream[i] = stream[j] => i = j

(* Keys increase strictly along the stream: every seam keeps room for its  *)
(* neighbours to be told apart, however often it has been split.  All of   *)
(* record_slot, _ordered_index and the bisecting ref maintenance rest on   *)
(* this (Slot._order docstring).                                           *)
OrderMonotone == \A i, j \in 1..Len(stream) : i < j => Key(i) < Key(j)

(* Two slots that stay linked across a step keep their relative order: a   *)
(* relabelling never reorders the projections that are sorted by key.      *)
KeysNeverReorder ==
  [][\A s, t \in Linked \cap Linked' :
       (order[s] < order[t]) <=> (order'[s] < order'[t])]_streamVars
=============================================================================
