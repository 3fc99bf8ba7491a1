---------------------------- MODULE MCTomlParser ----------------------------
(* Documents over two keys, up to renaming, and longer and deeper ones in  *)
(* which every key is spelled alike. *)
EXTENDS TomlParser

KeySymmetry == Permutations(Key)

MCBounds == {[keys |-> Key, depth |-> 2, lines |-> 4]}
            \cup {[keys |-> {k}, depth |-> 3, lines |-> 7] : k \in Key}
=============================================================================
