-------------------------- MODULE MCMountLifecycle ---------------------------
(* A machine that is set up, and what may be wrong with one.               *)
EXTENDS MountLifecycle
CONSTANTS c1, c2

MCReady == [file |-> "read", saved |-> [endpoint |-> c1, delete |-> FALSE, ca |-> "none"],
            endpoint |-> None, delete |-> FALSE, active |-> TRUE, shims |-> TRUE,
            dir |-> TRUE, fuse |-> "works", up |-> {c1}]
MCWorlds ==
    {MCReady, [MCReady EXCEPT !.file = "broken"], [MCReady EXCEPT !.file = "absent", !.fuse = "none"],
     [MCReady EXCEPT !.saved.ca = "bad"], [MCReady EXCEPT !.up = {}],
     [MCReady EXCEPT !.endpoint = c2, !.delete = TRUE, !.up = {c1, c2}],
     [MCReady EXCEPT !.active = FALSE], [MCReady EXCEPT !.fuse = "device"],
     [MCReady EXCEPT !.shims = FALSE, !.dir = FALSE]}
MCFlagSets == {NoFlags, [endpoint |-> c1, delete |-> TRUE]}
==============================================================================
