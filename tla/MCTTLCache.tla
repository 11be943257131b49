----------------------------- MODULE MCTTLCache -----------------------------
(* Small instances of TTLCache for TLC.                                    *)
EXTENDS TTLCache, TLC

Symmetry == Permutations(Key) \cup Permutations(Val)
=============================================================================
