----------------------------- MODULE MCWritePath -----------------------------
(* Small instances of WritePath for TLC.                                   *)
EXTENDS WritePath, TLC

Symmetry == Permutations(Handle) \cup Permutations(Proc) \cup Permutations(Body)

(* node.Create always passes Create and Truncate.                          *)
Creates == {[create |-> TRUE, excl |-> x, truncate |-> TRUE] : x \in BOOLEAN}

(* node.Open with the flags of an editor that expects the file to exist.   *)
Edits == {[create |-> FALSE, excl |-> FALSE, truncate |-> t] : t \in BOOLEAN}

AllOpens == Creates \cup Edits

(* Opens that carry O_CREAT.                                               *)
CreatingOpens == Creates \cup {[create |-> TRUE, excl |-> FALSE, truncate |-> FALSE]}
==============================================================================
