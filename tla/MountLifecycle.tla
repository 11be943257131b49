---------------------------- MODULE MountLifecycle ----------------------------
(***************************************************************************)
(* How mounts begin and end: `esfs mount` from its configuration to its    *)
(* exit, with the signals that arrive on the way and clients that keep     *)
(* files open (internal/cli/mount.go), and `esfs doctor` and the routed    *)
(* shims, which resolve the same configuration in other processes          *)
(* (internal/appctx, internal/cli/doctor.go, internal/cmdshim/bootstrap.go). *)
(*                                                                         *)
(* One mountpoint.  The kernel is external: mounts at one path stack, the  *)
(* top one is what the path shows and what an unmount removes, unless      *)
(* files are open in it, and a mount whose process has died stays and      *)
(* answers ENOTCONN.                                                       *)
(***************************************************************************)
EXTENDS Naturals, Sequences

CONSTANTS
    Proc,       \* `esfs mount` processes; each may be started again
    Cluster,    \* Elasticsearch endpoints
    None,
    Worlds,     \* the machine's states that the processes may find
    FlagSets,   \* the flags that users mount with
    MaxStack    \* bound: mounts at the mountpoint

(* A configuration; None as endpoint is the empty string.                  *)
Config == [endpoint : Cluster \cup {None}, delete : BOOLEAN, ca : {"none", "good", "bad"}]
Flags == [endpoint : Cluster \cup {None}, delete : BOOLEAN]
NoFlags == [endpoint |-> None, delete |-> FALSE]

(* The config file and what it says, what the environment says, whether    *)
(* `esfs env` was evaluated and its shims are there, whether the mountpoint *)
(* exists or can be made, /dev/fuse with or without a working fusermount,  *)
(* and the clusters that answer.                                           *)
World == [file : {"absent", "broken", "read"}, saved : Config,
          endpoint : Cluster \cup {None}, delete : BOOLEAN, active : BOOLEAN, shims : BOOLEAN,
          dir : BOOLEAN, fuse : {"none", "device", "works"}, up : SUBSET Cluster]

ASSUME WorldsAssumption == Worlds \subseteq World
ASSUME FlagSetsAssumption == FlagSets \subseteq Flags
ASSUME SentinelAssumption == None \notin Proc \cup Cluster
ASSUME MaxStackAssumption == MaxStack \in Nat

VARIABLES
    world,      \* the machine's state
    stack,      \* the kernel: mounts at the mountpoint, the last one on top
    proc,       \* the mount processes
    doctor      \* how the last `esfs doctor` ended, if nothing has changed since

vars == <<world, stack, proc, doctor>>

-----------------------------------------------------------------------------
(* Configuration.                                                          *)

DefaultConfig == [endpoint |-> None, delete |-> FALSE, ca |-> "none"]

(* appctx.LoadConfig: the file, then the environment over it.  Of a file   *)
(* that cannot be parsed the caller gets the defaults and an error.        *)
Broken(w) == w.file = "broken"

LoadConfig(w) ==
    LET c == IF w.file = "read" THEN w.saved ELSE DefaultConfig IN
    IF Broken(w) THEN c
    ELSE [c EXCEPT !.endpoint = IF w.endpoint # None THEN w.endpoint ELSE @,
                   !.delete = @ \/ w.delete]

WithFlags(c, fl) ==
    [c EXCEPT !.endpoint = IF fl.endpoint # None THEN fl.endpoint ELSE @,
              !.delete = @ \/ fl.delete]

(* A client can be built of it, and its cluster answers.                   *)
NewClient(c) == c.endpoint # None /\ c.ca # "bad"
Ping(c, w) == c.endpoint \in w.up

-----------------------------------------------------------------------------
(* esfs doctor, and the shims' decision.                                   *)

(* Mutants: doctor that asks no cluster; doctor that ignores the shell.    *)
DoctorOffline(w) ==
    /\ ~Broken(w) /\ LoadConfig(w).endpoint # None
    /\ w.fuse # "none" /\ w.active /\ w.shims

DoctorOutside(w) ==
    /\ ~Broken(w) /\ LoadConfig(w).endpoint # None
    /\ NewClient(LoadConfig(w)) /\ Ping(LoadConfig(w), w)
    /\ w.fuse # "none"

(* All checks of `esfs doctor` pass.                                       *)
Healthy(w) ==
    /\ ~Broken(w) /\ LoadConfig(w).endpoint # None
    /\ NewClient(LoadConfig(w)) /\ Ping(LoadConfig(w), w)
    /\ w.fuse # "none" /\ w.active /\ w.shims

RunDoctor ==
    /\ doctor' = IF Healthy(world) THEN "ok" ELSE "failed"
    /\ UNCHANGED <<world, stack, proc>>

(* A shell's grep, ls or find reaches cmdshim.Run and is answered by       *)
(* Elasticsearch, instead of by the system's tool.                         *)
Routed(w) == w.shims /\ w.active /\ NewClient(LoadConfig(w))

-----------------------------------------------------------------------------
(* State.                                                                  *)

(* owner: the process that serves the mount, None when it has died.        *)
Mounted == [owner : Proc \cup {None}, busy : BOOLEAN]

(* trust: doctor said ok, and nothing has changed since; why: what a       *)
(* process that failed printed; sig: the channel that signals go to.       *)
ProcState == [pc : {"down", "resolved", "reached", "made", "mounted", "serving",
                    "exited", "failed", "killed"},
              cfg : Config, trust : BOOLEAN, why : {"none", "config", "cluster", "mountpoint", "fuse"},
              sig : BOOLEAN, handler : {"none", "waiting", "unmounting", "done"}]
Down == [pc |-> "down", cfg |-> DefaultConfig, trust |-> FALSE, why |-> "none", sig |-> FALSE,
         handler |-> "none"]

Init ==
    /\ world \in Worlds
    /\ stack = <<>>
    /\ proc = [p \in Proc |-> Down]
    /\ doctor = "none"

Top == stack[Len(stack)]
TopDead == stack # <<>> /\ Top.owner = None
Owned(p) == {k \in 1..Len(stack) : stack[k].owner = p}

Running(p) == proc[p].pc \in {"resolved", "reached", "made", "mounted", "serving"}
To(p, pc) == proc' = [proc EXCEPT ![p] = [@ EXCEPT !.pc = pc]]
End(p, pc) == proc' = [proc EXCEPT ![p] = [Down EXCEPT !.pc = pc]]
Fail(p, why) ==
    proc' = [proc EXCEPT ![p] = [Down EXCEPT !.pc = "failed", !.why = why, !.trust = proc[p].trust]]

-----------------------------------------------------------------------------
(* cmdMount.                                                               *)

(* Up to the client; anything wrong with the configuration exits 2.        *)
Start(p, fl) ==
    /\ ~Running(p)
    /\ LET c == WithFlags(LoadConfig(world), fl)
           q == [Down EXCEPT !.cfg = c, !.trust = (doctor = "ok" /\ fl = NoFlags)]
       IN proc' = [proc EXCEPT ![p] =
              IF ~Broken(world) /\ NewClient(c)
              THEN [q EXCEPT !.pc = "resolved"]
              ELSE [Down EXCEPT !.pc = "failed", !.why = "config", !.trust = q.trust]]
    /\ UNCHANGED <<world, stack, doctor>>

Reach(p) ==
    /\ proc[p].pc = "resolved"
    /\ IF Ping(proc[p].cfg, world) THEN To(p, "reached") ELSE Fail(p, "cluster")
    /\ UNCHANGED <<world, stack, doctor>>

(* A mount whose process died answers ENOTCONN to stat and to mkdir.       *)
MkdirAll(p) ==
    /\ proc[p].pc = "reached"
    /\ IF TopDead \/ ~world.dir THEN Fail(p, "mountpoint") ELSE To(p, "made")
    /\ UNCHANGED <<world, stack, doctor>>

Mount(p) ==
    /\ proc[p].pc = "made" /\ Len(stack) < MaxStack
    /\ \/ TopDead /\ Fail(p, "mountpoint") /\ UNCHANGED stack
       \/ ~TopDead /\ world.fuse # "works" /\ Fail(p, "fuse") /\ UNCHANGED stack
       \/ /\ ~TopDead /\ world.fuse = "works"
          /\ To(p, "mounted")
          /\ stack' = Append(stack, [owner |-> p, busy |-> FALSE])
    /\ UNCHANGED <<world, doctor>>

(* Mutant: nobody waits for the signals.                                   *)
NotifyDeaf(p) ==
    /\ proc[p].pc = "mounted"
    /\ To(p, "serving")
    /\ UNCHANGED <<world, stack, doctor>>

(* signal.Notify, and the goroutine that waits for one signal.             *)
Notify(p) ==
    /\ proc[p].pc = "mounted"
    /\ proc' = [proc EXCEPT ![p] = [@ EXCEPT !.pc = "serving", !.handler = "waiting"]]
    /\ UNCHANGED <<world, stack, doctor>>

(* The process ends at once; its mount stays.                              *)
Die(p) ==
    /\ Running(p)
    /\ End(p, "killed")
    /\ stack' = [k \in 1..Len(stack) |->
                    IF stack[k].owner = p THEN [stack[k] EXCEPT !.owner = None] ELSE stack[k]]
    /\ UNCHANGED <<world, doctor>>

(* SIGINT or SIGTERM; one that finds the channel full is dropped.          *)
Signal(p) ==
    \/ proc[p].pc # "serving" /\ Die(p)
    \/ /\ proc[p].pc = "serving"
       /\ proc' = [proc EXCEPT ![p] = [@ EXCEPT !.sig = TRUE]]
       /\ UNCHANGED <<world, stack, doctor>>

(* Mutant: the signal is received and nothing is unmounted.                *)
HandleIgnored(p) ==
    /\ proc[p].handler = "waiting" /\ proc[p].sig
    /\ proc' = [proc EXCEPT ![p] = [@ EXCEPT !.sig = FALSE, !.handler = "done"]]
    /\ UNCHANGED <<world, stack, doctor>>

Handle(p) ==
    /\ proc[p].handler = "waiting" /\ proc[p].sig
    /\ proc' = [proc EXCEPT ![p] = [@ EXCEPT !.sig = FALSE, !.handler = "unmounting"]]
    /\ UNCHANGED <<world, stack, doctor>>

(* An unmount of the mountpoint removes whatever mount is on top.          *)
Removable == stack # <<>> /\ ~Top.busy
Unmounted == stack' = SubSeq(stack, 1, Len(stack) - 1)

(* server.Unmount, of which nobody looks at the result, tries a few times. *)
ServerUnmount(p) ==
    /\ proc[p].pc = "serving" /\ proc[p].handler = "unmounting"
    /\ IF Removable THEN Unmounted ELSE UNCHANGED stack
    /\ proc' = [proc EXCEPT ![p] = [@ EXCEPT !.handler = "done"]]
    /\ UNCHANGED <<world, doctor>>

(* Mutant: the process does not wait for the mount to end.                 *)
WaitDoneUnmounting(p) ==
    /\ proc[p].pc = "serving" /\ proc[p].handler = "done"
    /\ End(p, "exited")
    /\ UNCHANGED <<world, stack, doctor>>

(* server.Wait returns when the kernel has dropped the process's mount.    *)
WaitDone(p) ==
    /\ proc[p].pc = "serving" /\ Owned(p) = {}
    /\ End(p, "exited")
    /\ UNCHANGED <<world, stack, doctor>>

(* esfs unmount, or fusermount -u.                                         *)
UnmountCommand ==
    /\ Removable /\ Unmounted
    /\ UNCHANGED <<world, proc, doctor>>

-----------------------------------------------------------------------------
(* Clients of the mount, and everything else on the machine.               *)

OpenFile ==
    /\ stack # <<>> /\ Top.owner # None /\ ~Top.busy
    /\ stack' = [stack EXCEPT ![Len(stack)] = [@ EXCEPT !.busy = TRUE]]
    /\ UNCHANGED <<world, proc, doctor>>

CloseFile(k) ==
    /\ stack[k].busy
    /\ stack' = [stack EXCEPT ![k] = [@ EXCEPT !.busy = FALSE]]
    /\ UNCHANGED <<world, proc, doctor>>

(* Files, environments, clusters and devices change: no advice holds on.   *)
Change(w) ==
    /\ w # world
    /\ world' = w
    /\ doctor' = "none"
    /\ proc' = [p \in Proc |-> [proc[p] EXCEPT !.trust = FALSE]]
    /\ UNCHANGED stack

Advance(p) ==
    \/ Reach(p) \/ MkdirAll(p) \/ Mount(p) \/ Notify(p)
    \/ Handle(p) \/ ServerUnmount(p) \/ WaitDone(p)

Next ==
    \/ \E p \in Proc : Advance(p) \/ Signal(p) \/ Die(p) \/ \E fl \in FlagSets : Start(p, fl)
    \/ RunDoctor \/ UnmountCommand \/ OpenFile
    \/ \E k \in 1..Len(stack) : CloseFile(k)
    \/ \E w \in Worlds : Change(w)

Spec == Init /\ [][Next]_vars

(* A process goes on, its goroutines are scheduled, server.Unmount ends.   *)
Fairness ==
    \A p \in Proc : WF_vars(Handle(p)) /\ WF_vars(ServerUnmount(p)) /\ WF_vars(WaitDone(p))

FairSpec == Spec /\ Fairness

-----------------------------------------------------------------------------
(* Properties.                                                             *)

TypeOK ==
    /\ world \in Worlds
    /\ stack \in Seq(Mounted)
    /\ proc \in [Proc -> ProcState]
    /\ doctor \in {"none", "ok", "failed"}
    /\ \A p \in Proc : proc[p].pc = "serving" <=> proc[p].handler # "none"

(* A process that has ended holds no mount, and no process holds two:      *)
(* whoever waits for `esfs mount` to return finds nothing of it at the     *)
(* mountpoint, but for what a kill left (mount.go:23).                     *)
EndedHoldsNothing ==
    \A p \in Proc :
        /\ proc[p].pc \notin {"mounted", "serving"} => Owned(p) = {}
        /\ \A j, k \in Owned(p) : j = k

(* docs/INSTALL.md:141: doctor reports the failing layer.  If it reports   *)
(* none and nothing changes, a plain `esfs mount` fails for nothing but    *)
(* what doctor does not look at: the mountpoint, where a killed process    *)
(* may have left a mount, and fusermount behind a /dev/fuse that exists.   *)
DoctorPredictsMount ==
    \A p \in Proc : proc[p].pc = "failed" /\ proc[p].trust =>
        \/ proc[p].why = "mountpoint"
        \/ proc[p].why = "fuse" /\ world.fuse = "device"

(* Then commands in the mount are also answered by Elasticsearch, and by   *)
(* the cluster, and under the policies, that the mount itself works with.  *)
DoctorPredictsRouting ==
    /\ doctor = "ok" => Routed(world)
    /\ \A p \in Proc : proc[p].pc = "serving" /\ proc[p].trust =>
          Routed(world) /\ LoadConfig(world) = proc[p].cfg

(* mount.go:23: a signal that reaches a serving process, the first one,    *)
(* ends it, if nothing else uses its mount or is mounted over it.          *)
Quiet(p) == stack # <<>> /\ Top = [owner |-> p, busy |-> FALSE]

IdleSignalEnds ==
    \A p \in Proc :
        (proc[p].pc = "serving" /\ proc[p].sig /\ proc[p].handler = "waiting" /\ Quiet(p))
            ~> (proc[p].pc # "serving" \/ ~Quiet(p))
==============================================================================
