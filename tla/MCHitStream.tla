---------------------------- MODULE MCHitStream -----------------------------
(* Small instances of HitStream for TLC.                                   *)
EXTENDS HitStream, TLC

CONSTANTS a, b

TwoIndices == <<3, 1>>      \* at PageSize 2: a full page, a short one; a single hit

(* A command next to a directory read through FUSE or through the VFS.     *)
CommandAndDirectory ==
    {a :> c @@ b :> d : c \in {"ls", "search", "exact"}, d \in {"dir", "readdir"}}

ExactAlone == {a :> "exact"}
DirAlone == {a :> "dir"}
=============================================================================
