----------------------------- MODULE MCHostRelay ------------------------------
(* HostRelay for TLC: clients and parity ids are interchangeable.          *)
EXTENDS HostRelay, TLC

Symmetry == Permutations(Clients) \cup Permutations(Parities)
===============================================================================
