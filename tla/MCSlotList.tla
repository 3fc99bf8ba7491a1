----------------------------- MODULE MCSlotList -----------------------------
(* Bounded instance of SlotList: keys are capped by the guard of MCNext.   *)
EXTENDS SlotList

CONSTANT KeyBound   \* largest magnitude of an order key explored

(* As in MCSlotStream, slot names and stale keys do not matter.  The       *)
(* pointers are kept up to renaming, by their position in the walk.        *)
Place(s) == IF s \in LinkedSlots
              THEN CHOOSE i \in 1..Len(Forward) : Forward[i] = s
              ELSE 0

ListView ==
  << [i \in 1..Len(Forward) |-> <<order[Forward[i]], Place(prev[Forward[i]])>>],
     Place(head), Place(tail),
     {<<Place(prev[s]), Place(next[s])>> : s \in Slot \ LinkedSlots} >>

KeysBounded == \A s \in LinkedSlots : order[s] \in -KeyBound..KeyBound

MCNext == Next /\ KeysBounded'
MCSpec == Init /\ [][MCNext]_listVars
=============================================================================
