---------------------------- MODULE MCSlotStream ----------------------------
(* Bounded instance of SlotStream: keys are capped by the guard of MCNext. *)
EXTENDS SlotStream

CONSTANT KeyBound   \* largest magnitude of an order key explored

(* States that differ only in which slots carry the keys, or in the stale  *)
(* keys of unlinked slots, behave alike.                                   *)
KeyView == [i \in 1..Len(stream) |-> Key(i)]

KeysBounded == \A s \in Linked : order[s] \in -KeyBound..KeyBound

MCNext == Next /\ KeysBounded'
MCSpec == Init /\ [][MCNext]_streamVars
=============================================================================
