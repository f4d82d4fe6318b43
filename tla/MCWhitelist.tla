------------------------------ MODULE MCWhitelist ------------------------------
(* Whitelist for TLC: keys, ids, data and connections are interchangeable. *)
EXTENDS Whitelist, TLC

Symmetry == Permutations(Keys) \cup Permutations(Ids) \cup Permutations(Data)
               \cup Permutations(Connections)
===============================================================================
