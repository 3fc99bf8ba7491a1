----------------------------- MODULE TomlTokens -----------------------------
(* What the lines of a document are written with. *)
CONSTANTS
  Key,           \* the bare keys documents use
  Vals           \* the values right of "="
=============================================================================
