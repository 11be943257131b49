------------------------ MODULE MountLifecycle_proofs -------------------------
(***************************************************************************)
(* Proofs about MountLifecycle, for any number of processes, clusters,     *)
(* machine states, flags and mounts: a process that has ended holds no     *)
(* mount, and what doctor predicts comes true.                             *)
(***************************************************************************)
EXTENDS MountLifecycle, TLAPS, SequenceTheorems

Active == {"resolved", "reached", "made", "mounted", "serving"}

(* What is known of one process q, when the machine is as w says.          *)
Typed(q) == q \in ProcState /\ (q.pc = "serving" <=> q.handler # "none")

Trusted(q, w) ==
    q.trust =>
        /\ Healthy(w)
        /\ q.pc \in Active => q.cfg = LoadConfig(w)
        /\ q.pc = "failed" => q.why = "mountpoint" \/ (q.why = "fuse" /\ w.fuse = "device")

Types ==
    /\ world \in Worlds
    /\ stack \in Seq(Mounted)
    /\ DOMAIN proc = Proc /\ proc \in [Proc -> ProcState]
    /\ doctor \in {"none", "ok", "failed"}
    /\ \A p \in Proc : Typed(proc[p])

Holds(q) == q.pc \in {"mounted", "serving"}

Owners ==
    /\ \A k \in 1..Len(stack) : stack[k].owner # None => Holds(proc[stack[k].owner])
    /\ \A j, k \in 1..Len(stack) :
          stack[j].owner = stack[k].owner /\ stack[j].owner # None => j = k

Advice ==
    /\ doctor = "ok" => Healthy(world)
    /\ \A p \in Proc : Trusted(proc[p], world)

Inv == Types /\ Owners /\ Advice

-----------------------------------------------------------------------------
(* Configurations.                                                         *)

LEMMA WorldTyped ==
    ASSUME NEW w \in Worlds
    PROVE  w \in World
BY WorldsAssumption

(* What LoadConfig returns is a configuration.                             *)
LEMMA LoadConfigTyped ==
    ASSUME NEW w \in World
    PROVE  LoadConfig(w) \in Config
<1> DEFINE c == IF w.file = "read" THEN w.saved ELSE DefaultConfig
<1>1. c \in Config
      BY DEF World, Config, DefaultConfig
<1>2. w.endpoint \in Cluster \cup {None} /\ w.delete \in BOOLEAN
      BY DEF World
<1>3. LoadConfig(w) = IF Broken(w) THEN c
                      ELSE [c EXCEPT !.endpoint = IF w.endpoint # None THEN w.endpoint ELSE @,
                                     !.delete = @ \/ w.delete]
      BY DEF LoadConfig
<1> HIDE DEF c
<1> QED BY <1>1, <1>2, <1>3 DEF Config

LEMMA WithFlagsTyped ==
    ASSUME NEW c \in Config, NEW fl \in Flags
    PROVE  WithFlags(c, fl) \in Config
BY DEF WithFlags, Config, Flags

(* Without flags the configuration stays what file and environment say.    *)
LEMMA NoFlagsChangeNothing ==
    ASSUME NEW c \in Config
    PROVE  WithFlags(c, NoFlags) = c
BY DEF WithFlags, Config, NoFlags

(* What all checks of doctor passing means for a mount.                    *)
LEMMA HealthyMeans ==
    ASSUME NEW w \in World, Healthy(w)
    PROVE  /\ ~Broken(w) /\ NewClient(LoadConfig(w)) /\ Ping(LoadConfig(w), w)
           /\ w.fuse # "none" /\ Routed(w)
BY DEF Healthy, Routed

LEMMA DownTyped == Typed(Down)
BY DEF Typed, Down, ProcState, Config, DefaultConfig

-----------------------------------------------------------------------------
(* A step of one process: it becomes q, and the stack s.                   *)

Becomes(p, q) ==
    /\ proc' = [proc EXCEPT ![p] = q]
    /\ Typed(q)
    /\ Trusted(q, world)

(* Mounts may go, and lose their processes.                                *)
Shrinks(s, t) ==
    /\ t \in Seq(Mounted) /\ Len(t) <= Len(s)
    /\ \A k \in 1..Len(t) : t[k].owner \in {s[k].owner, None}

LEMMA FunctionIsSeq ==
    ASSUME NEW S, NEW n \in Nat, NEW s \in [1..n -> S]
    PROVE  s \in Seq(S) /\ Len(s) = n
OBVIOUS

LEMMA ShrinksReflexive ==
    ASSUME NEW s \in Seq(Mounted)
    PROVE  Shrinks(s, s)
BY DEF Shrinks

(* An unmount shrinks the stack.                                           *)
LEMMA UnmountShrinks ==
    ASSUME NEW s \in Seq(Mounted), s # <<>>, NEW t, t = SubSeq(s, 1, Len(s) - 1)
    PROVE  Shrinks(s, t)
<1>0. Len(s) \in Nat \ {0}
      BY EmptySeq
<1>1. \A k \in 1..(Len(s) - 1) : s[k] \in Mounted
      BY <1>0
<1>2. t \in Seq(Mounted) /\ Len(t) = Len(s) - 1 /\ \A k \in 1..Len(t) : t[k] = s[k]
  <2> DEFINE n == Len(s) - 1
  <2>1. n \in Nat /\ \A k \in 1..n : s[k] \in Mounted
        BY <1>0, <1>1
  <2>2. t = SubSeq(s, 1, n)
        OBVIOUS
  <2> HIDE DEF n
  <2>3. /\ SubSeq(s, 1, n) \in Seq(Mounted)
        /\ Len(SubSeq(s, 1, n)) = IF 1 <= n THEN n - 1 + 1 ELSE 0
        /\ \A k \in 1..(n - 1 + 1) : SubSeq(s, 1, n)[k] = s[1 + k - 1]
        BY <2>1, SubSeqProperties
  <2>4. Len(t) = n
        BY <2>1, <2>2, <2>3
  <2>5. \A k \in 1..n : SubSeq(s, 1, n)[k] = s[k]
        BY <2>1, <2>3
  <2> QED BY <2>2, <2>3, <2>4, <2>5 DEF n
<1> QED BY <1>0, <1>2 DEF Shrinks

(* A step of p keeps the types and the advice.                             *)
LEMMA ProcStep ==
    ASSUME Types, Advice, NEW p \in Proc, NEW q, Becomes(p, q),
           stack' \in Seq(Mounted), UNCHANGED <<world, doctor>>
    PROVE  Types' /\ Advice'
<1>1. proc' \in [Proc -> ProcState] /\ DOMAIN proc' = Proc
      BY DEF Types, Becomes, Typed
<1>2. \A r \in Proc : proc'[r] = IF r = p THEN q ELSE proc[r]
      BY DEF Types, Becomes
<1>3. Types'
      BY <1>1, <1>2 DEF Types, Becomes
<1>4. \A r \in Proc : Trusted(proc'[r], world)
      BY <1>2 DEF Advice, Becomes
<1>5. Advice'
  <2>1. world' = world /\ doctor' = doctor
        OBVIOUS
  <2>2. \A r \in Proc : Trusted(proc'[r], world')
        BY <1>4, <2>1
  <2> QED BY <2>1, <2>2 DEF Advice
<1> QED BY <1>3, <1>5

(* A stack that shrinks keeps its owners, if no holder lets go of a mount  *)
(* that is still there.                                                    *)
LEMMA ShrinkingKeepsOwners ==
    ASSUME Types, Owners, Shrinks(stack, stack'),
           \A k \in 1..Len(stack') : stack'[k].owner # None /\ Holds(proc[stack'[k].owner])
                                        => Holds(proc'[stack'[k].owner])
    PROVE  Owners'
<1>1. \A k \in 1..Len(stack') : k \in 1..Len(stack)
      BY DEF Shrinks, Types
<1>2. \A k \in 1..Len(stack') : stack'[k].owner # None => stack'[k].owner = stack[k].owner
      BY DEF Shrinks
<1>3. \A k \in 1..Len(stack') : stack'[k].owner # None => Holds(proc'[stack'[k].owner])
      BY <1>1, <1>2 DEF Owners
<1>4. \A j, k \in 1..Len(stack') :
          stack'[j].owner = stack'[k].owner /\ stack'[j].owner # None => j = k
      BY <1>1, <1>2 DEF Owners
<1> QED BY <1>3, <1>4 DEF Owners, Holds

(* A step of a process that held a mount, and still does, or had none.     *)
LEMMA QuietProcStep ==
    ASSUME Inv, NEW p \in Proc, NEW q, Becomes(p, q), UNCHANGED <<world, stack, doctor>>,
           Holds(q) \/ ~Holds(proc[p]) \/ Owned(p) = {}
    PROVE  Inv'
<1>1. Types' /\ Advice'
      BY ProcStep DEF Inv, Types
<1>2. Shrinks(stack, stack')
      BY ShrinksReflexive DEF Inv, Types
<1>3. \A r \in Proc : proc'[r] = IF r = p THEN q ELSE proc[r]
      BY DEF Inv, Types, Becomes
<1>4. \A k \in 1..Len(stack') : stack'[k].owner # None /\ Holds(proc[stack'[k].owner])
                                    => Holds(proc'[stack'[k].owner])
  <2> TAKE k \in 1..Len(stack')
  <2>1. stack'[k] = stack[k] /\ k \in 1..Len(stack) /\ stack[k] \in Mounted
        BY DEF Inv, Types
  <2>2. stack[k].owner = p => k \in Owned(p)
        BY <2>1 DEF Owned
  <2>3. stack[k].owner \in Proc \cup {None}
        BY <2>1 DEF Mounted
  <2> QED BY <1>3, <2>1, <2>2, <2>3
<1>5. Owners'
      BY <1>2, <1>4, ShrinkingKeepsOwners DEF Inv
<1> QED BY <1>1, <1>5 DEF Inv

-----------------------------------------------------------------------------
(* The actions.                                                            *)

LEMMA ToIsTyped ==
    ASSUME NEW q, Typed(q), q.pc # "serving",
           NEW pc \in {"resolved", "reached", "made", "mounted"}
    PROVE  /\ Typed([q EXCEPT !.pc = pc])
           /\ [q EXCEPT !.pc = pc].pc = pc
           /\ [q EXCEPT !.pc = pc].trust = q.trust /\ [q EXCEPT !.pc = pc].cfg = q.cfg
BY DEF Typed, ProcState

(* What Fail makes of q.                                                   *)
Failed(q, why) == [Down EXCEPT !.pc = "failed", !.why = why, !.trust = q.trust]

LEMMA FailedIsTyped ==
    ASSUME NEW q, Typed(q), NEW why \in {"config", "cluster", "mountpoint", "fuse"}
    PROVE  /\ Typed(Failed(q, why)) /\ Failed(q, why).pc = "failed"
           /\ Failed(q, why).trust = q.trust /\ Failed(q, why).why = why
BY DEF Failed, Typed, ProcState, Down, Config, DefaultConfig

LEMMA EndedIsTyped ==
    ASSUME NEW pc \in {"exited", "killed"}, NEW w, NEW r, r = [Down EXCEPT !.pc = pc]
    PROVE  Typed(r) /\ r.pc = pc /\ Trusted(r, w)
BY DEF Typed, ProcState, Down, Config, DefaultConfig, Trusted

(* Trust of a process that fails for a reason doctor need not see, or goes *)
(* on with what it has resolved.                                           *)
LEMMA TrustGoesOn ==
    ASSUME NEW q, NEW w, Trusted(q, w), q.pc \in Active, NEW r, r.trust = q.trust,
           \/ r.pc \in Active /\ r.cfg = q.cfg
           \/ r.pc = "failed" /\ (Healthy(w) /\ q.cfg = LoadConfig(w) =>
                  r.why = "mountpoint" \/ (r.why = "fuse" /\ w.fuse = "device"))
    PROVE  Trusted(r, w)
BY DEF Trusted, Active

LEMMA InitInv == Init => Inv
<1> SUFFICES ASSUME Init PROVE Inv
    OBVIOUS
<1>1. stack \in Seq(Mounted) /\ Len(stack) = 0
      BY EmptySeq DEF Init
<1>2. Types
      BY <1>1, DownTyped DEF Init, Types, Typed
<1>3. Owners
      BY <1>1 DEF Init, Owners
<1>4. Advice
      BY DEF Init, Advice, Trusted, Down
<1> QED BY <1>2, <1>3, <1>4 DEF Inv

LEMMA StartInv ==
    ASSUME Inv, NEW p \in Proc, NEW fl \in FlagSets, Start(p, fl)
    PROVE  Inv'
<1> DEFINE l == LoadConfig(world)
           c == WithFlags(l, fl)
           trust == (doctor = "ok" /\ fl = NoFlags)
           good == ~Broken(world) /\ NewClient(c)
           up == [[Down EXCEPT !.cfg = c, !.trust = trust] EXCEPT !.pc = "resolved"]
           fail == [Down EXCEPT !.pc = "failed", !.why = "config",
                                !.trust = [Down EXCEPT !.cfg = c, !.trust = trust].trust]
           q == IF good THEN up ELSE fail
<1>1. proc' = [proc EXCEPT ![p] = q] /\ UNCHANGED <<world, stack, doctor>> /\ ~Running(p)
      BY DEF Start
<1>2. l \in Config /\ c \in Config /\ (fl = NoFlags => c = l)
  <2>1. fl \in Flags /\ world \in World
        BY FlagSetsAssumption, WorldTyped DEF Inv, Types
  <2>2. l \in Config
        BY <2>1, LoadConfigTyped
  <2> QED BY <2>1, <2>2, WithFlagsTyped, NoFlagsChangeNothing
<1>3. doctor = "ok" => /\ Healthy(world) /\ ~Broken(world) /\ NewClient(LoadConfig(world))
      BY HealthyMeans, WorldTyped DEF Inv, Types, Advice
<1> HIDE DEF c, l
<1>4. /\ Typed(up) /\ up.pc = "resolved" /\ up.cfg = c /\ up.trust = trust
      /\ Typed(fail) /\ fail.pc = "failed" /\ fail.trust = trust
      BY <1>2 DEF Typed, ProcState, Down, Config, DefaultConfig
<1> HIDE DEF up, fail, good, trust
<1>5. Becomes(p, q)
  <2>1. CASE good
    <3>1. trust => Healthy(world) /\ c = LoadConfig(world)
          BY <1>2, <1>3 DEF trust, l
    <3> QED BY <1>1, <1>4, <2>1, <3>1 DEF Becomes, Trusted, Active
  <2>2. CASE ~good
    <3>1. ~trust
          BY <1>2, <1>3, <2>2 DEF trust, good, l
    <3> QED BY <1>1, <1>4, <2>2, <3>1 DEF Becomes, Trusted, Active
  <2> QED BY <2>1, <2>2
<1> HIDE DEF q
<1>6. ~Holds(proc[p])
      BY <1>1 DEF Running, Holds
<1> QED BY <1>1, <1>5, <1>6, QuietProcStep
LEMMA ReachInv ==
    ASSUME Inv, NEW p \in Proc, Reach(p)
    PROVE  Inv'
<1> DEFINE ahead == [proc[p] EXCEPT !.pc = "reached"]
           fail == Failed(proc[p], "cluster")
           q == IF Ping(proc[p].cfg, world) THEN ahead ELSE fail
<1>1. /\ proc[p].pc = "resolved" /\ proc' = [proc EXCEPT ![p] = q]
      /\ UNCHANGED <<world, stack, doctor>>
      BY DEF Reach, To, Fail, Failed
<1>2. Typed(proc[p]) /\ Trusted(proc[p], world)
      BY DEF Inv, Types, Advice
<1>3. /\ Typed(ahead) /\ ahead.pc = "reached" /\ ahead.trust = proc[p].trust
      /\ ahead.cfg = proc[p].cfg
      BY <1>1, <1>2, ToIsTyped
<1>4. Typed(fail) /\ fail.pc = "failed" /\ fail.trust = proc[p].trust
      BY <1>2, FailedIsTyped
<1>5. Healthy(world) => Ping(LoadConfig(world), world)
      BY HealthyMeans, WorldTyped DEF Inv, Types
<1>6. Becomes(p, q)
  <2>1. CASE Ping(proc[p].cfg, world)
    <3>1. q = ahead
          BY <2>1
    <3> HIDE DEF ahead, q
    <3>2. Trusted(q, world)
          BY <1>1, <1>2, <1>3, <3>1, TrustGoesOn DEF Active
    <3> QED BY <1>1, <1>3, <3>1, <3>2 DEF Becomes
  <2>2. CASE ~Ping(proc[p].cfg, world)
    <3>1. q = fail
          BY <2>2
    <3> HIDE DEF fail, q
    <3>2. Trusted(q, world)
          BY <1>1, <1>2, <1>4, <1>5, <2>2, <3>1, TrustGoesOn DEF Active
    <3> QED BY <1>1, <1>4, <3>1, <3>2 DEF Becomes
  <2> QED BY <2>1, <2>2
<1> HIDE DEF q
<1> QED BY <1>1, <1>6, QuietProcStep DEF Holds

LEMMA MkdirAllInv ==
    ASSUME Inv, NEW p \in Proc, MkdirAll(p)
    PROVE  Inv'
<1> DEFINE ahead == [proc[p] EXCEPT !.pc = "made"]
           fail == Failed(proc[p], "mountpoint")
           q == IF TopDead \/ ~world.dir THEN fail ELSE ahead
<1>1. /\ proc[p].pc = "reached" /\ proc' = [proc EXCEPT ![p] = q]
      /\ UNCHANGED <<world, stack, doctor>>
      BY DEF MkdirAll, To, Fail, Failed
<1>2. Typed(proc[p]) /\ Trusted(proc[p], world)
      BY DEF Inv, Types, Advice
<1>3. /\ Typed(ahead) /\ ahead.pc = "made" /\ ahead.trust = proc[p].trust
      /\ ahead.cfg = proc[p].cfg
      BY <1>1, <1>2, ToIsTyped
<1>4. Typed(fail) /\ fail.pc = "failed" /\ fail.trust = proc[p].trust /\ fail.why = "mountpoint"
      BY <1>2, FailedIsTyped
<1>5. q \in {ahead, fail}
      OBVIOUS
<1> HIDE DEF ahead, fail, q
<1>6. Trusted(q, world)
      BY <1>1, <1>2, <1>3, <1>4, <1>5, TrustGoesOn DEF Active
<1>7. Becomes(p, q)
      BY <1>1, <1>3, <1>4, <1>5, <1>6 DEF Becomes
<1> QED BY <1>1, <1>7, QuietProcStep DEF Holds

LEMMA MountInv ==
    ASSUME Inv, NEW p \in Proc, Mount(p)
    PROVE  Inv'
<1> DEFINE ahead == [proc[p] EXCEPT !.pc = "mounted"]
           fail(why) == Failed(proc[p], why)
<1>1. proc[p].pc = "made" /\ UNCHANGED <<world, doctor>>
      BY DEF Mount
<1>2. Typed(proc[p]) /\ Trusted(proc[p], world)
      BY DEF Inv, Types, Advice
<1>3. /\ Typed(ahead) /\ ahead.pc = "mounted" /\ ahead.trust = proc[p].trust
      /\ ahead.cfg = proc[p].cfg
      BY <1>1, <1>2, ToIsTyped
<1>4. ASSUME NEW why \in {"mountpoint", "fuse"}
      PROVE  /\ Typed(fail(why)) /\ fail(why).pc = "failed" /\ fail(why).trust = proc[p].trust
             /\ fail(why).why = why
      BY <1>2, FailedIsTyped
<1>5. ASSUME NEW why \in {"mountpoint", "fuse"}, Fail(p, why), UNCHANGED stack,
             why = "fuse" => world.fuse # "works"
      PROVE  Inv'
  <2> DEFINE q == fail(why)
  <2>1. proc' = [proc EXCEPT ![p] = q]
        BY <1>5 DEF Fail, Failed
  <2>2. Typed(q) /\ q.pc = "failed" /\ q.trust = proc[p].trust /\ q.why = why
        BY <1>4
  <2> HIDE DEF fail
  <2> HIDE DEF q
  <2>3. world \in World /\ (Healthy(world) => world.fuse # "none")
        BY HealthyMeans, WorldTyped DEF Inv, Types
  <2>4. Healthy(world) /\ why = "fuse" => world.fuse = "device"
        BY <1>5, <2>3 DEF World
  <2>5. Trusted(q, world)
        BY <1>1, <1>2, <2>2, <2>4, TrustGoesOn DEF Active
  <2>6. Becomes(p, q)
        BY <2>1, <2>2, <2>5 DEF Becomes
  <2> QED BY <1>1, <1>5, <2>6, QuietProcStep DEF Holds
<1>6. ASSUME To(p, "mounted"), stack' = Append(stack, [owner |-> p, busy |-> FALSE])
      PROVE  Inv'
  <2>1. proc' = [proc EXCEPT ![p] = ahead]
        BY <1>6 DEF To
  <2> HIDE DEF ahead
  <2>2. Trusted(ahead, world)
        BY <1>1, <1>2, <1>3, TrustGoesOn DEF Active
  <2>3. Becomes(p, ahead)
        BY <1>3, <2>1, <2>2 DEF Becomes
  <2>4. stack \in Seq(Mounted) /\ [owner |-> p, busy |-> FALSE] \in Mounted
        BY DEF Inv, Types, Mounted
  <2>5. /\ stack' \in Seq(Mounted) /\ Len(stack') = Len(stack) + 1 /\ Len(stack) \in Nat
        /\ \A k \in 1..Len(stack) : stack'[k] = stack[k] /\ stack'[Len(stack) + 1].owner = p
        /\ stack'[Len(stack) + 1].owner = p
        BY <1>6, <2>4, AppendProperties
  <2>6. Types' /\ Advice'
        BY <1>1, <2>3, <2>5, ProcStep DEF Inv
  <2>7. \A r \in Proc : proc'[r] = IF r = p THEN ahead ELSE proc[r]
        BY <2>1 DEF Inv, Types
  <2>8. \A k \in 1..Len(stack) : stack[k].owner # None =>
            stack[k].owner \in Proc /\ stack[k].owner # p
    <3> TAKE k \in 1..Len(stack)
    <3>1. stack[k] \in Mounted
          BY <2>4
    <3>2. stack[k].owner # None => Holds(proc[stack[k].owner])
          BY DEF Inv, Owners
    <3> QED BY <1>1, <3>1, <3>2 DEF Holds, Mounted
  <2>9. \A k \in 1..Len(stack') : stack'[k].owner # None => Holds(proc'[stack'[k].owner])
    <3> TAKE k \in 1..Len(stack')
    <3>1. CASE k \in 1..Len(stack)
          BY <2>5, <2>7, <2>8, <3>1 DEF Inv, Owners
    <3>2. CASE k = Len(stack) + 1
          BY <1>3, <2>5, <2>7, <3>2 DEF Holds
    <3> QED BY <2>5, <3>1, <3>2
  <2>10. \A j, k \in 1..Len(stack') :
            stack'[j].owner = stack'[k].owner /\ stack'[j].owner # None => j = k
    <3> TAKE j, k \in 1..Len(stack')
    <3>1. CASE j \in 1..Len(stack) /\ k \in 1..Len(stack)
          BY <2>5, <3>1 DEF Inv, Owners
    <3>2. CASE j = Len(stack) + 1 /\ k \in 1..Len(stack)
          BY <2>5, <2>8, <3>2
    <3>3. CASE k = Len(stack) + 1 /\ j \in 1..Len(stack)
          BY <2>5, <2>8, <3>3
    <3> QED BY <2>5, <3>1, <3>2, <3>3
  <2> QED BY <2>6, <2>9, <2>10 DEF Inv, Owners, Holds
<1> QED BY <1>5, <1>6 DEF Mount

LEMMA NotifyInv ==
    ASSUME Inv, NEW p \in Proc, Notify(p)
    PROVE  Inv'
<1> DEFINE q == [proc[p] EXCEPT !.pc = "serving", !.handler = "waiting"]
<1>1. proc[p].pc = "mounted" /\ proc' = [proc EXCEPT ![p] = q] /\ UNCHANGED <<world, stack, doctor>>
      BY DEF Notify
<1>2. Typed(proc[p]) /\ Trusted(proc[p], world)
      BY DEF Inv, Types, Advice
<1>3. Typed(q) /\ q.pc = "serving" /\ q.trust = proc[p].trust /\ q.cfg = proc[p].cfg
      BY <1>2 DEF Typed, ProcState
<1> HIDE DEF q
<1>4. Trusted(q, world)
      BY <1>1, <1>2, <1>3, TrustGoesOn DEF Active
<1> QED BY <1>1, <1>3, <1>4, QuietProcStep DEF Becomes, Holds

(* A serving process of which only the signal and its handler change.      *)
LEMMA HandlerStep ==
    ASSUME Inv, NEW p \in Proc, proc[p].pc = "serving", NEW sig \in BOOLEAN,
           NEW handler \in {"waiting", "unmounting", "done"},
           NEW q, q = [proc[p] EXCEPT !.sig = sig, !.handler = handler],
           proc' = [proc EXCEPT ![p] = q], UNCHANGED <<world, doctor>>
    PROVE  Becomes(p, q) /\ Holds(q)
<1>1. Typed(proc[p]) /\ Trusted(proc[p], world)
      BY DEF Inv, Types, Advice
<1>2. Typed(q) /\ q.pc = "serving" /\ q.trust = proc[p].trust /\ q.cfg = proc[p].cfg
      BY <1>1 DEF Typed, ProcState
<1>3. Trusted(q, world)
      BY <1>1, <1>2, TrustGoesOn DEF Active
<1> QED BY <1>2, <1>3 DEF Becomes, Holds

LEMMA HandleInv ==
    ASSUME Inv, NEW p \in Proc, Handle(p)
    PROVE  Inv'
<1> DEFINE q == [proc[p] EXCEPT !.sig = FALSE, !.handler = "unmounting"]
<1>1. proc' = [proc EXCEPT ![p] = q] /\ UNCHANGED <<world, stack, doctor>>
      BY DEF Handle
<1>2. proc[p].pc = "serving"
      BY DEF Handle, Inv, Types, Typed
<1>3. Becomes(p, q) /\ Holds(q)
      BY <1>1, <1>2, HandlerStep
<1> HIDE DEF q
<1> QED BY <1>1, <1>3, QuietProcStep
LEMMA WaitDoneInv ==
    ASSUME Inv, NEW p \in Proc, WaitDone(p)
    PROVE  Inv'
<1> DEFINE q == [Down EXCEPT !.pc = "exited"]
<1>1. /\ proc' = [proc EXCEPT ![p] = q] /\ UNCHANGED <<world, stack, doctor>>
      /\ Owned(p) = {}
      BY DEF WaitDone, End
<1>2. Typed(q) /\ Trusted(q, world)
      BY EndedIsTyped
<1> HIDE DEF q
<1> QED BY <1>1, <1>2, QuietProcStep DEF Becomes

LEMMA DieInv ==
    ASSUME Inv, NEW p \in Proc, Die(p)
    PROVE  Inv'
<1> DEFINE q == [Down EXCEPT !.pc = "killed"]
           m(k) == IF stack[k].owner = p THEN [stack[k] EXCEPT !.owner = None] ELSE stack[k]
<1>1. /\ proc' = [proc EXCEPT ![p] = q] /\ UNCHANGED <<world, doctor>>
      /\ stack' = [k \in 1..Len(stack) |-> m(k)]
      BY DEF Die, End
<1>2. Becomes(p, q)
      BY <1>1, EndedIsTyped DEF Becomes
<1> HIDE DEF q
<1>3. stack \in Seq(Mounted) /\ Len(stack) \in Nat
      BY DEF Inv, Types
<1>4. \A k \in 1..Len(stack) :
          /\ m(k) \in Mounted /\ m(k).owner # p
          /\ m(k).owner \in {stack[k].owner, None}
  <2> TAKE k \in 1..Len(stack)
  <2>1. stack[k] \in Mounted
        BY <1>3
  <2> QED BY <2>1, SentinelAssumption DEF Mounted
<1> HIDE DEF m
<1>5. stack' \in Seq(Mounted) /\ Len(stack') = Len(stack)
      BY <1>1, <1>3, <1>4, FunctionIsSeq
<1>6. \A k \in 1..Len(stack') : stack'[k] = m(k)
      BY <1>1, <1>5
<1>7. Shrinks(stack, stack')
      BY <1>3, <1>4, <1>5, <1>6 DEF Shrinks
<1>8. Types' /\ Advice'
      BY <1>1, <1>2, <1>5, ProcStep DEF Inv
<1>9. Owners'
  <2>1. ASSUME NEW k \in 1..Len(stack'), stack'[k].owner # None
        PROVE  proc'[stack'[k].owner] = proc[stack'[k].owner]
    <3>1. stack'[k].owner \in Proc \ {p}
          BY <1>4, <1>5, <1>6, <2>1 DEF Mounted
    <3> QED BY <1>1, <3>1 DEF Inv, Types
  <2> QED BY <1>7, <2>1, ShrinkingKeepsOwners DEF Inv
<1> QED BY <1>8, <1>9 DEF Inv

LEMMA SignalInv ==
    ASSUME Inv, NEW p \in Proc, Signal(p)
    PROVE  Inv'
<1>1. CASE Die(p)
      BY <1>1, DieInv
<1>2. CASE ~Die(p)
  <2> DEFINE q == [proc[p] EXCEPT !.sig = TRUE]
  <2>1. proc[p].pc = "serving" /\ proc' = [proc EXCEPT ![p] = q] /\ UNCHANGED <<world, stack, doctor>>
        BY <1>2 DEF Signal
  <2>2. Typed(proc[p]) /\ Trusted(proc[p], world)
        BY DEF Inv, Types, Advice
  <2>3. Typed(q) /\ q.pc = "serving" /\ q.trust = proc[p].trust /\ q.cfg = proc[p].cfg
        BY <2>1, <2>2 DEF Typed, ProcState
  <2> HIDE DEF q
  <2>4. Trusted(q, world)
        BY <2>1, <2>2, <2>3, TrustGoesOn DEF Active
  <2> QED BY <2>1, <2>3, <2>4, QuietProcStep DEF Becomes, Holds
<1> QED BY <1>1, <1>2

LEMMA ServerUnmountInv ==
    ASSUME Inv, NEW p \in Proc, ServerUnmount(p)
    PROVE  Inv'
<1> DEFINE q == [proc[p] EXCEPT !.handler = "done"]
<1>1. /\ proc[p].pc = "serving" /\ proc' = [proc EXCEPT ![p] = q] /\ UNCHANGED <<world, doctor>>
      /\ IF Removable THEN Unmounted ELSE UNCHANGED stack
      BY DEF ServerUnmount
<1>2. Typed(proc[p]) /\ Trusted(proc[p], world)
      BY DEF Inv, Types, Advice
<1>3. Typed(q) /\ q.pc = "serving" /\ q.trust = proc[p].trust /\ q.cfg = proc[p].cfg
      BY <1>1, <1>2 DEF Typed, ProcState
<1> HIDE DEF q
<1>4. Becomes(p, q)
  <2>1. Trusted(q, world)
        BY <1>1, <1>2, <1>3, TrustGoesOn DEF Active
  <2> QED BY <1>1, <1>3, <2>1 DEF Becomes
<1>5. stack \in Seq(Mounted)
      BY DEF Inv, Types
<1>6. Shrinks(stack, stack')
      BY <1>1, <1>5, ShrinksReflexive, UnmountShrinks DEF Removable, Unmounted
<1>7. Types' /\ Advice'
      BY <1>1, <1>4, <1>6, ProcStep DEF Inv, Shrinks
<1>8. \A r \in Proc : Holds(proc[r]) => Holds(proc'[r])
      BY <1>1, <1>3 DEF Inv, Types, Holds
<1>9. \A k \in 1..Len(stack') : stack'[k].owner \in Proc \cup {None}
  <2> TAKE k \in 1..Len(stack')
  <2>1. stack'[k] \in Mounted
        BY <1>6 DEF Shrinks
  <2> QED BY <2>1 DEF Mounted
<1>10. Owners'
      BY <1>6, <1>8, <1>9, ShrinkingKeepsOwners DEF Inv
<1> QED BY <1>7, <1>10 DEF Inv

(* What changes the stack alone.                                           *)
LEMMA StackStep ==
    ASSUME Inv, Shrinks(stack, stack'), UNCHANGED <<world, proc, doctor>>
    PROVE  Inv'
<1>1. Types' /\ Advice'
      BY DEF Inv, Types, Advice, Shrinks
<1>2. Owners'
      BY ShrinkingKeepsOwners DEF Inv, Holds
<1> QED BY <1>1, <1>2 DEF Inv

LEMMA UnmountCommandInv == Inv /\ UnmountCommand => Inv'
<1> SUFFICES ASSUME Inv, UnmountCommand PROVE Inv'
    OBVIOUS
<1>1. Shrinks(stack, stack')
      BY UnmountShrinks DEF Inv, Types, UnmountCommand, Removable, Unmounted
<1> QED BY <1>1, StackStep DEF UnmountCommand

(* A mount becomes busy, or idle.                                          *)
LEMMA BusyInv ==
    ASSUME Inv, NEW k \in 1..Len(stack), NEW b \in BOOLEAN,
           stack' = [stack EXCEPT ![k] = [@ EXCEPT !.busy = b]],
           UNCHANGED <<world, proc, doctor>>
    PROVE  Inv'
<1> DEFINE m == [stack[k] EXCEPT !.busy = b]
<1>1. stack \in Seq(Mounted) /\ stack' = [stack EXCEPT ![k] = m]
      BY DEF Inv, Types
<1>2. m \in Mounted /\ m.owner = stack[k].owner
  <2>1. stack[k] \in Mounted
        BY <1>1
  <2> QED BY <2>1 DEF Mounted
<1> HIDE DEF m
<1>3. /\ stack' \in Seq(Mounted) /\ Len(stack') = Len(stack)
      /\ \A j \in 1..Len(stack) : stack'[j] = IF j = k THEN m ELSE stack[j]
      BY <1>1, <1>2, ExceptSeq
<1>4. Shrinks(stack, stack')
      BY <1>1, <1>2, <1>3 DEF Shrinks
<1> QED BY <1>4, StackStep

LEMMA OpenFileInv == Inv /\ OpenFile => Inv'
<1> SUFFICES ASSUME Inv, OpenFile PROVE Inv'
    OBVIOUS
<1>1. stack \in Seq(Mounted) /\ stack # <<>>
      BY DEF Inv, Types, OpenFile
<1>2. Len(stack) \in 1..Len(stack)
      BY <1>1, EmptySeq
<1> QED BY <1>2, BusyInv DEF OpenFile

LEMMA CloseFileInv ==
    ASSUME Inv, NEW k \in 1..Len(stack), CloseFile(k)
    PROVE  Inv'
BY BusyInv DEF CloseFile

LEMMA RunDoctorInv == Inv /\ RunDoctor => Inv'
<1> SUFFICES ASSUME Inv, RunDoctor PROVE Inv'
    OBVIOUS
<1>1. UNCHANGED <<world, stack, proc>> /\ doctor' = IF Healthy(world) THEN "ok" ELSE "failed"
      BY DEF RunDoctor
<1>2. Types' /\ Owners'
      BY <1>1 DEF Inv, Types, Owners, Holds
<1>3. doctor' = "ok" => Healthy(world)
      BY <1>1
<1>4. Advice'
      BY <1>1, <1>3 DEF Inv, Advice
<1> QED BY <1>2, <1>4 DEF Inv

LEMMA ChangeInv ==
    ASSUME Inv, NEW w \in Worlds, Change(w)
    PROVE  Inv'
<1> DEFINE q(p) == [proc[p] EXCEPT !.trust = FALSE]
<1>1. /\ world' = w /\ doctor' = "none" /\ stack' = stack
      /\ proc' = [p \in Proc |-> q(p)]
      BY DEF Change
<1>2. \A p \in Proc : Typed(q(p)) /\ q(p).pc = proc[p].pc /\ ~q(p).trust
  <2> TAKE p \in Proc
  <2>1. Typed(proc[p])
        BY DEF Inv, Types
  <2> QED BY <2>1 DEF Typed, ProcState
<1> HIDE DEF q
<1>3. Types'
      BY <1>1, <1>2 DEF Inv, Types, Typed
<1>4. Advice'
      BY <1>1, <1>2 DEF Advice, Trusted
<1>5. \A k \in 1..Len(stack) : stack[k].owner \in Proc \cup {None}
  <2> TAKE k \in 1..Len(stack)
  <2>1. stack[k] \in Mounted
        BY DEF Inv, Types
  <2> QED BY <2>1 DEF Mounted
<1>6. Owners'
      BY <1>1, <1>2, <1>5 DEF Inv, Owners, Holds
<1> QED BY <1>3, <1>4, <1>6 DEF Inv

-----------------------------------------------------------------------------
(* The theorems.                                                           *)

(* Inv is inductive: each step of cmdMount, of its clients and of the      *)
(* machine keeps it.                                                       *)
THEOREM Invariance == Spec => []Inv
<1>1. Inv /\ [Next]_vars => Inv'
  <2> SUFFICES ASSUME Inv, [Next]_vars PROVE Inv'
      OBVIOUS
  <2>1. ASSUME NEW p \in Proc, Advance(p) PROVE Inv'
        BY <2>1, ReachInv, MkdirAllInv, MountInv, NotifyInv, HandleInv, ServerUnmountInv,
           WaitDoneInv DEF Advance
  <2>2. ASSUME NEW p \in Proc, Signal(p) \/ Die(p) PROVE Inv'
        BY <2>2, SignalInv, DieInv
  <2>3. ASSUME NEW p \in Proc, NEW fl \in FlagSets, Start(p, fl) PROVE Inv'
        BY <2>3, StartInv
  <2>4. CASE RunDoctor \/ UnmountCommand \/ OpenFile
        BY <2>4, RunDoctorInv, UnmountCommandInv, OpenFileInv
  <2>5. ASSUME NEW k \in 1..Len(stack), CloseFile(k) PROVE Inv'
        BY <2>5, CloseFileInv
  <2>6. ASSUME NEW w \in Worlds, Change(w) PROVE Inv'
        BY <2>6, ChangeInv
  <2>7. CASE UNCHANGED vars
        BY <2>7 DEF vars, Inv, Types, Owners, Advice
  <2> QED BY <2>1, <2>2, <2>3, <2>4, <2>5, <2>6, <2>7 DEF Next
<1> QED BY InitInv, <1>1, PTL DEF Spec

(* Every variable keeps its type, and exactly serving processes listen.    *)
THEOREM TypeCorrect == Spec => []TypeOK
<1>1. Inv => TypeOK
      BY DEF Inv, Types, Typed, TypeOK
<1> QED BY Invariance, <1>1, PTL

(* When `esfs mount` has ended, nothing at the mountpoint is its own.      *)
THEOREM EndedProcessesHoldNothing == Spec => []EndedHoldsNothing
<1>1. Inv => EndedHoldsNothing
  <2> SUFFICES ASSUME Inv, NEW p \in Proc
               PROVE  /\ proc[p].pc \notin {"mounted", "serving"} => Owned(p) = {}
                      /\ \A j, k \in Owned(p) : j = k
      BY DEF EndedHoldsNothing
  <2>1. p # None
        BY SentinelAssumption
  <2> QED BY <2>1 DEF Inv, Owners, Holds, Owned
<1> QED BY Invariance, <1>1, PTL

(* A mount that doctor has found nothing against fails for nothing that    *)
(* doctor looks at.                                                        *)
THEOREM DoctorIsRightAboutMounts == Spec => []DoctorPredictsMount
<1>1. Inv => DoctorPredictsMount
      BY DEF Inv, Advice, Trusted, DoctorPredictsMount
<1> QED BY Invariance, <1>1, PTL

(* Nor do the routed commands then work with another configuration.        *)
THEOREM DoctorIsRightAboutRouting == Spec => []DoctorPredictsRouting
<1>1. Inv => DoctorPredictsRouting
      BY WorldTyped, HealthyMeans DEF Inv, Types, Advice, Trusted, Active, DoctorPredictsRouting
<1> QED BY Invariance, <1>1, PTL
==============================================================================
