------------------------------ MODULE MCCatalog ------------------------------
(* Two indices, of which one is create-only and the other is not on the    *)
(* allowlist, and an alias of one or both of them that has policies of its *)
(* own.                                                                    *)
EXTENDS Catalog, TLC
CONSTANTS i1, i2, a1

MCGlobal == [policy |-> "upsert-new-files", delete |-> FALSE]
MCOverrides == a1 :> [policy |-> "safe-create-update", delete |-> TRUE]
               @@ i1 :> [policy |-> "create-only", delete |-> None]
MCFlags == {[create |-> TRUE, excl |-> e] : e \in BOOLEAN}
MCMaxVersions == i1 :> 2 @@ i2 :> 2
==============================================================================
