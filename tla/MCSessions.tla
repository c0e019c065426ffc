----------------------------- MODULE MCSessions -----------------------------
(* Instance of Sessions for TLC. *)
EXTENDS Sessions, TLC

Symmetry == Permutations(Handlers) \cup Permutations(Sids) \cup Permutations(Vers)
=============================================================================
