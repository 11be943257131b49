---------------------------- MODULE Catalog_proofs ----------------------------
(***************************************************************************)
(* Proofs about Catalog, for any sets of indices, aliases, names, handles  *)
(* and goroutines, any configuration and any changes of the catalog: what  *)
(* the allowlist and the policies promise holds of every stored version,   *)
(* saves with a precondition stay at home, and answers are definite.       *)
(***************************************************************************)
EXTENDS Catalog, TLAPS, SequenceTheorems

(* The kernel's creat and the editors that save by rename pass O_CREAT.    *)
AlwaysCreate == \A fl \in Flags : fl.create \/ fl.excl

Visibly(l) == l \in Listing /\ \A n \in Hidden : l[n] = "absent"

(* A version known by name n was in its home, as far as nothing moved.     *)
RefOK(r, n) ==
    \/ r = NoRef
    \/ /\ n \in Name /\ r \in Ref /\ r.at <= moves[n]
       /\ r.at = moves[n] => \A i \in WriteIndex(n) : i = r.idx /\ es[i].gen = r.gen

(* What is known of a handle, and of a call, whatever the others do.       *)
HandleOK(q) ==
    /\ q \in HandleState
    /\ q.st \in {"open", "saving"} =>
          /\ q.name \in Name /\ Visible(q.name)
          /\ AlwaysCreate /\ ForIndex(q.name).policy = "safe-create-update"
                => q.createOnly \/ q.meta # NoRef
    /\ q.st \notin {"open", "saving"} => q.meta = NoRef

Justified(p) ==
    /\ p.guard = "match" => p.ref # NoRef
    /\ ForIndex(p.name).policy = "create-only" => p.guard = "create"
    /\ AlwaysCreate /\ ForIndex(p.name).policy = "safe-create-update" => p.guard # "none"

CallOK(p) ==
    /\ p \in ProcState
    /\ p.kind = "idle" <=> p.pc = "idle"
    /\ p.kind = "idle" \/ p.pc \in {"resolve", "resolved"} => p.ref = NoRef
    /\ p.kind # "idle" => p.name \in Name
    /\ p.kind \notin {"open", "save"} => p.h = None
    /\ p.kind \in {"open", "save"} => p.h \in Handle
    /\ p.kind = "open" => p.flags \in Flags
    /\ p.pc \in {"resolve", "resolved"} => p.kind \in {"lookup", "open"}
    /\ p.pc = "resolved" => Visibly(p.list)
    /\ p.pc \in {"request", "answered"} => p.kind # "lookup" /\ Visible(p.name)
    /\ p.kind = "unlink" => ForIndex(p.name).delete
    /\ p.kind = "save" /\ p.pc = "request" => Justified(p)
    /\ p.kind \in {"save", "unlink"} /\ p.pc = "answered" =>
          /\ p.status = "ok" => p.applied /\ p.ref # NoRef
          /\ p.applied => p.status \in {"ok", "unavailable"}

HandleGood(q) == HandleOK(q) /\ RefOK(q.meta, q.name)
CallGood(p) == CallOK(p) /\ RefOK(p.ref, p.name)

(* Version k of an index i in state s is one the properties allow.         *)
SoundAt(i, s, k) ==
    LET v == s.hist[k] IN
    /\ v.by # "other" => v.via \in Name /\ Visible(v.via)
    /\ v.by = "unlink" => ForIndex(v.via).delete
    /\ v.by \in Handle /\ k > 1 /\ s.hist[k - 1].live =>
          /\ ForIndex(v.via).policy # "create-only"
          /\ AlwaysCreate /\ ForIndex(v.via).policy = "safe-create-update" => v.on # NoRef
    /\ v.steady => v.on.idx = i /\ v.on.gen = s.gen /\ v.on.seq = k - 1

Sound(i, s) == s \in IndexState /\ \A k \in 1..Len(s.hist) : SoundAt(i, s, k)

(* A call has its handle to itself.                                        *)
Holding(p, q) ==
    /\ p.kind = "open" => q.st = "opening"
    /\ p.kind = "save" => q.st = "saving" /\ q.name = p.name

-----------------------------------------------------------------------------
(* The inductive invariant.                                                *)

CatalogInv ==
    /\ es \in [Index -> IndexState]
    /\ alias \in [Alias -> AliasState]
    /\ \A a \in Alias : alias[a].write \in alias[a].members \cup {None}
    /\ moves \in [Name -> Nat] /\ changes \in Nat

HistoryInv == \A i \in Index : Sound(i, es[i])

ClientInv ==
    /\ list # NoList => Visibly(list)
    /\ entered \subseteq {n \in Name : Visible(n)}

CacheInv == cache \in [Name -> Ref] /\ \A n \in Name : RefOK(cache[n], n)

HandleInv == hd \in [Handle -> HandleState] /\ \A h \in Handle : HandleGood(hd[h])

CallInv == proc \in [Proc -> ProcState] /\ \A t \in Proc : CallGood(proc[t])

Protocol ==
    /\ \A t \in Proc : proc[t].h # None => Holding(proc[t], hd[proc[t].h])
    /\ \A s, t \in Proc : s # t /\ proc[s].h # None => proc[s].h # proc[t].h

Inv == CatalogInv /\ HistoryInv /\ ClientInv /\ CacheInv /\ HandleInv /\ CallInv /\ Protocol

-----------------------------------------------------------------------------
(* Names and their homes.                                                  *)

LEMMA Sentinels ==
    /\ None \notin Name /\ None \notin Handle
    /\ "unlink" \notin Handle /\ "other" \notin Handle
BY SentinelAssumption DEF Name

(* A write through a name goes to one of its indices, and to one only; if  *)
(* it has a single index, to that.                                         *)
LEMMA HomeFacts ==
    ASSUME CatalogInv, NEW n \in Name
    PROVE  /\ Members(n) \subseteq Index /\ WriteIndex(n) \subseteq Members(n)
           /\ \A i, j \in WriteIndex(n) : i = j
           /\ Single(n) => \A i \in Members(n) : WriteIndex(n) \subseteq {i}
<1>1. Members(n) \subseteq Index
  <2>1. CASE n \in Alias
        BY <2>1 DEF Members, CatalogInv, AliasState
  <2>2. CASE n \notin Alias
        BY <2>2 DEF Members, Name
  <2> QED BY <2>1, <2>2
<1>2. n \in Alias /\ alias[n].write # None => alias[n].write \in Members(n)
      BY DEF Members, CatalogInv
<1>3. Single(n) => \A i, j \in Members(n) : i = j
      BY DEF Single
<1> QED BY <1>1, <1>2, <1>3 DEF WriteIndex

RefsKept == \A n \in Name : \A r \in Ref : RefOK(r, n) => RefOK(r, n)'

(* A version that is stored moves nothing.                                 *)
LEMMA StoringKeepsRefs ==
    ASSUME CatalogInv, es' \in [Index -> IndexState], UNCHANGED <<alias, moves>>,
           \A i \in Index : es'[i].open = es[i].open /\ es'[i].gen = es[i].gen
    PROVE  RefsKept
<1> SUFFICES ASSUME NEW n \in Name, NEW r \in Ref, RefOK(r, n)
             PROVE  RefOK(r, n)'
    BY DEF RefsKept
<1>1. Members(n)' = Members(n)
      BY DEF Members, Name
<1>2. WriteIndex(n)' = WriteIndex(n)
      BY <1>1 DEF WriteIndex, Single
<1>3. WriteIndex(n) \subseteq Index
      BY HomeFacts
<1> QED BY <1>2, <1>3 DEF RefOK

(* When the catalog changes, Moved tells those names whose home did.       *)
LEMMA MovingKeepsRefs ==
    ASSUME CatalogInv, CatalogInv', Moved
    PROVE  RefsKept
<1> SUFFICES ASSUME NEW n \in Name, NEW r \in Ref, RefOK(r, n), r # NoRef
             PROVE  RefOK(r, n)'
    BY DEF RefsKept, RefOK
<1>1. moves'[n] = (IF Home(n)' = Home(n) THEN moves[n] ELSE moves[n] + 1)
      BY DEF Moved
<1>2. r.at \in Nat /\ moves[n] \in Nat /\ r.at <= moves[n]
      BY DEF Ref, CatalogInv, RefOK
<1>3. CASE Home(n)' = Home(n)
  <2> DEFINE S == {<<i, es[i].gen>> : i \in Members(n)}
  <2>1. WriteIndex(n)' = WriteIndex(n) /\ S' = S
        BY <1>3 DEF Home
  <2>2. ASSUME NEW i \in WriteIndex(n) PROVE es'[i].gen = es[i].gen
    <3>1. <<i, es[i].gen>> \in S
          BY HomeFacts
    <3>2. PICK j \in Members(n)' : <<i, es[i].gen>> = <<j, es'[j].gen>>
          BY <2>1, <3>1
    <3> QED BY <3>2
  <2> HIDE DEF S
  <2>3. moves'[n] = moves[n]
        BY <1>1, <1>3
  <2> QED BY <2>1, <2>2, <2>3 DEF RefOK
<1>4. CASE Home(n)' # Home(n)
      BY <1>1, <1>2, <1>4 DEF RefOK
<1> QED BY <1>3, <1>4

-----------------------------------------------------------------------------
(* A step of goroutine t, which becomes q.                                 *)

LEMMA HandleGoodKept ==
    ASSUME RefsKept, NEW m, HandleGood(m)
    PROVE  HandleGood(m)'
BY DEF RefsKept, HandleGood, RefOK

LEMMA CallGoodKept ==
    ASSUME RefsKept, NEW q, CallGood(q)
    PROVE  CallGood(q)'
BY DEF RefsKept, CallGood, RefOK

LEMMA UnchangedKeepsRefs ==
    ASSUME CatalogInv, UNCHANGED <<es, alias, moves>>
    PROVE  RefsKept
BY StoringKeepsRefs DEF CatalogInv

(* No other call has handle h.                                             *)
Free(t, h) == \A s \in Proc \ {t} : proc[s].h # h

HandleStep(t) ==
    /\ hd' \in [Handle -> HandleState]
    /\ \A h \in Handle : \/ hd'[h] = hd[h]
                         \/ Free(t, h) /\ \E m \in HandleState : m = hd'[h] /\ HandleGood(m)'

LEMMA HandlesUnchanged ==
    ASSUME HandleInv, UNCHANGED hd, NEW t
    PROVE  HandleStep(t)
BY DEF HandleInv, HandleStep

LEMMA HandleSet ==
    ASSUME HandleInv, NEW t, NEW h \in Handle, Free(t, h), NEW m, HandleGood(m)',
           hd' = [hd EXCEPT ![h] = m]
    PROVE  HandleStep(t) /\ hd'[h] = m
<1>1. m \in HandleState
      BY DEF HandleGood, HandleOK
<1> QED BY <1>1 DEF HandleInv, HandleStep

(* The handle of a call is its own.                                        *)
LEMMA OwnHandle ==
    ASSUME Inv, NEW t \in Proc, proc[t].h # None
    PROVE  Free(t, proc[t].h) /\ proc[t].h \in Handle
<1>1. Free(t, proc[t].h)
      BY DEF Inv, Protocol, Free
<1>2. proc[t].h \in Handle
      BY DEF Inv, CallInv, ProcState
<1> QED BY <1>1, <1>2

(* A handle that is neither being opened nor saved is nobody's.            *)
LEMMA NobodysHandle ==
    ASSUME Inv, NEW t \in Proc, NEW h \in Handle, hd[h].st \notin {"opening", "saving"}
    PROVE  Free(t, h)
<1> SUFFICES ASSUME NEW s \in Proc, proc[s].h = h PROVE FALSE
    BY DEF Free
<1>1. proc[s].h # None /\ CallOK(proc[s])
      BY Sentinels DEF Inv, CallInv, CallGood
<1>2. proc[s].kind \in {"open", "save"}
      BY <1>1 DEF CallOK
<1> QED BY <1>1, <1>2 DEF Inv, Protocol, Holding

LEMMA CallStep ==
    ASSUME Inv, RefsKept, NEW t \in Proc, NEW q, proc' = [proc EXCEPT ![t] = q],
           CallOK(q), RefOK(q.ref, q.name)', HandleStep(t),
           q.h # None => Free(t, q.h) /\ Holding(q, hd'[q.h])
    PROVE  HandleInv' /\ CallInv' /\ Protocol'
<1>1. /\ proc' \in [Proc -> ProcState]
      /\ \A s \in Proc : proc'[s] = IF s = t THEN q ELSE proc[s]
      BY DEF Inv, CallInv, CallOK
<1>2. CallInv'
  <2>1. ASSUME NEW s \in Proc
        PROVE  CallOK(proc'[s]) /\ RefOK(proc[s].ref, proc[s].name)'
    <3>1. PICK p : p = proc'[s]
          OBVIOUS
    <3>2. CallOK(p) /\ RefOK(p.ref, p.name)'
      <4>1. CASE s = t
            BY <1>1, <3>1, <4>1
      <4>2. CASE s # t
        <5>1. CallGood(p)
              BY <1>1, <3>1, <4>2 DEF Inv, CallInv
        <5>2. CallGood(p)'
              BY <5>1, CallGoodKept
        <5> QED BY <5>1, <5>2 DEF CallGood
      <4> QED BY <4>1, <4>2
    <3> QED BY <3>1, <3>2 DEF RefOK, WriteIndex, Members, Single
  <2> QED BY <1>1, <2>1 DEF CallInv, CallGood
<1>3. HandleInv'
  <2>1. ASSUME NEW h \in Handle
        PROVE  HandleOK(hd'[h]) /\ RefOK(hd[h].meta, hd[h].name)'
    <3>1. PICK m : m = hd'[h] /\ HandleGood(m)'
      <4>1. CASE hd'[h] = hd[h]
        <5>1. PICK m : m = hd[h]
              OBVIOUS
        <5> QED BY <4>1, <5>1, HandleGoodKept DEF Inv, HandleInv
      <4>2. CASE hd'[h] # hd[h]
            BY <4>2 DEF HandleStep
      <4> QED BY <4>1, <4>2
    <3>2. HandleOK(m) /\ RefOK(m.meta, m.name)'
          BY <3>1 DEF HandleGood
    <3> QED BY <3>1, <3>2 DEF RefOK, WriteIndex, Members, Single
  <2> QED BY <2>1 DEF HandleInv, HandleStep, HandleGood
<1>4. Protocol'
  <2>1. ASSUME NEW s \in Proc, proc'[s].h # None
        PROVE  Holding(proc'[s], hd'[proc'[s].h])
    <3>1. CASE s = t
          BY <1>1, <2>1, <3>1
    <3>2. CASE s # t
      <4>1. proc'[s] = proc[s] /\ proc[s].h \in Handle
            BY <1>1, <2>1, <3>2 DEF Inv, CallInv, ProcState
      <4>2. ~Free(t, proc[s].h)
            BY <3>2 DEF Free
      <4>3. hd'[proc[s].h] = hd[proc[s].h]
            BY <4>1, <4>2 DEF HandleStep
      <4> QED BY <2>1, <4>1, <4>3 DEF Inv, Protocol
    <3> QED BY <3>1, <3>2
  <2>2. ASSUME NEW r \in Proc, NEW s \in Proc, r # s, proc'[r].h # None
        PROVE  proc'[r].h # proc'[s].h
    <3>1. CASE r = t
          BY <1>1, <2>2, <3>1 DEF Free
    <3>2. CASE s = t
          BY <1>1, <2>2, <3>2 DEF Free
    <3>3. CASE r # t /\ s # t
          BY <1>1, <2>2, <3>3 DEF Inv, Protocol
    <3> QED BY <3>1, <3>2, <3>3
  <2> QED BY <2>1, <2>2 DEF Protocol, Holding
<1> QED BY <1>2, <1>3, <1>4

LEMMA IdleOK == CallOK(Idle) /\ Idle.h = None /\ Idle.ref = NoRef
BY DEF CallOK, Idle, ProcState, Statuses, NoRef, Ref

(* A call that returns.                                                    *)
LEMMA ReturnStep ==
    ASSUME Inv, RefsKept, NEW t \in Proc, Return(t), HandleStep(t)
    PROVE  HandleInv' /\ CallInv' /\ Protocol'
<1>1. PICK q : q = Idle
      OBVIOUS
<1>2. proc' = [proc EXCEPT ![t] = q]
      BY <1>1 DEF Return, Become
<1>3. CallOK(q) /\ q.h = None /\ RefOK(q.ref, q.name)'
      BY <1>1, IdleOK DEF RefOK
<1> QED BY <1>2, <1>3, CallStep

-----------------------------------------------------------------------------
(* Configuration and answers.                                              *)

(* ForIndex returns what the configuration says.                           *)
LEMMA ForIndexSays ==
    ASSUME NEW n \in Name
    PROVE  /\ ForIndex(n).policy \in Policies /\ ForIndex(n).delete \in BOOLEAN
           /\ \A x \in Policies : Says(n, "policy", x) <=> ForIndex(n).policy = x
           /\ Says(n, "delete", TRUE) <=> ForIndex(n).delete
<1>1. CASE n \in DOMAIN Overrides
  <2> DEFINE s == Overrides[n]
  <2>1. s \in IndexSettings
        BY <1>1, OverridesAssumption
  <2>2. ForIndex(n) = [policy |-> IF s.policy = None THEN Global.policy ELSE s.policy,
                       delete |-> IF s.delete = None THEN Global.delete ELSE s.delete]
        BY <1>1 DEF ForIndex
  <2>3. \A x : /\ Says(n, "policy", x) <=> IF s.policy # None THEN s.policy = x ELSE Global.policy = x
               /\ Says(n, "delete", x) <=> IF s.delete # None THEN s.delete = x ELSE Global.delete = x
        BY <1>1 DEF Says
  <2> HIDE DEF s
  <2>4. /\ s.policy \in Policies \cup {None} /\ s.delete \in BOOLEAN \cup {None}
        /\ Global.policy \in Policies /\ Global.delete \in BOOLEAN
        BY <2>1, GlobalAssumption DEF IndexSettings
  <2>5. /\ ForIndex(n).policy = (IF s.policy = None THEN Global.policy ELSE s.policy)
        /\ ForIndex(n).delete = (IF s.delete = None THEN Global.delete ELSE s.delete)
        BY <2>2
  <2>6. ForIndex(n).policy \in Policies
        BY <2>4, <2>5
  <2>7. ForIndex(n).delete \in BOOLEAN
        BY <2>4, <2>5
  <2>8. \A x \in Policies : Says(n, "policy", x) <=> ForIndex(n).policy = x
        BY <2>3, <2>5
  <2>9. Says(n, "delete", TRUE) <=> ForIndex(n).delete
    <3>1. CASE s.delete = None
          BY <2>3, <2>4, <2>5, <3>1
    <3>2. CASE s.delete # None
          BY <2>3, <2>4, <2>5, <3>2
    <3> QED BY <3>1, <3>2
  <2> QED BY <2>6, <2>7, <2>8, <2>9
<1>2. CASE n \notin DOMAIN Overrides
  <2>1. ForIndex(n) = [policy |-> Global.policy, delete |-> Global.delete]
        BY <1>2 DEF ForIndex
  <2>2. \A x : /\ Says(n, "policy", x) <=> Global.policy = x
               /\ Says(n, "delete", x) <=> Global.delete = x
        BY <1>2 DEF Says
  <2> QED BY <2>1, <2>2, GlobalAssumption
<1> QED BY <1>1, <1>2

(* OK and EIO are told in one case each.                                   *)
LEMMA ErrnoFacts ==
    ASSUME NEW p \in ProcState
    PROVE  /\ Told(p) = "OK" <=> p.status = "ok"
           /\ Told(p) = "EIO" <=> p.status = "unavailable"
<1>1. p.status \in Statuses
      BY DEF ProcState
<1>2. CASE p.status = "ok"
      BY <1>2 DEF Told, Errno
<1>3. CASE p.status = "unavailable"
      BY <1>3 DEF Told, Errno, statusError
<1>4. CASE p.status \notin {"ok", "unavailable"}
      BY <1>1, <1>4 DEF Told, Errno, statusError, Statuses
<1> QED BY <1>2, <1>3, <1>4
-----------------------------------------------------------------------------
(* Steps of the client: Elasticsearch does not change.                     *)

LEMMA ServerUnchanged ==
    ASSUME Inv, UNCHANGED <<es, catalog>>
    PROVE  CatalogInv' /\ HistoryInv' /\ RefsKept
<1>1. UNCHANGED <<es, alias, moves, changes>>
      BY DEF catalog
<1> QED BY <1>1, UnchangedKeepsRefs DEF Inv, CatalogInv, HistoryInv

LEMMA CacheUnchanged ==
    ASSUME CacheInv, RefsKept, UNCHANGED cache
    PROVE  CacheInv'
<1>1. ASSUME NEW n \in Name PROVE RefOK(cache[n], n)'
  <2>1. PICK r \in Ref : r = cache[n]
        BY DEF CacheInv
  <2>2. RefOK(r, n)'
        BY <2>1 DEF CacheInv, RefsKept
  <2> QED BY <2>1, <2>2 DEF RefOK, WriteIndex, Members, Single
<1> QED BY <1>1 DEF CacheInv

(* A version that enters the cache under the name it is known by, or one   *)
(* that leaves it.                                                         *)
LEMMA CacheStep ==
    ASSUME CacheInv, RefsKept, NEW m \in Name, NEW ref \in Ref, RefOK(ref, m)',
           cache' = [cache EXCEPT ![m] = ref]
    PROVE  CacheInv'
<1>1. ASSUME NEW n \in Name PROVE RefOK(cache[n], n)'
  <2>1. PICK r \in Ref : r = cache'[n] /\ RefOK(r, n)'
    <3>1. CASE n = m
          BY <3>1 DEF CacheInv
    <3>2. CASE n # m
      <4>1. PICK r \in Ref : r = cache[n]
            BY DEF CacheInv
      <4> QED BY <3>2, <4>1 DEF CacheInv, RefsKept
    <3> QED BY <3>1, <3>2
  <2> QED BY <2>1 DEF RefOK, WriteIndex, Members, Single
<1> QED BY <1>1 DEF CacheInv

(* What the list says of a name that it does not call absent.              *)
LEMMA ListedIsVisible ==
    ASSUME NEW l, Visibly(l), NEW n \in Name, IndexInfo(l, n) # "absent"
    PROVE  Visible(n)
BY DEF Visibly, Visible, IndexInfo, filterVisible

LEMMA RefuseStep ==
    ASSUME Inv, RefsKept, NEW t \in Proc, NEW p, p.h \in Handle, Free(t, p.h), Refuse(t, p)
    PROVE  HandleInv' /\ CallInv' /\ Protocol'
<1>1. PICK m : m = FreshHandle
      OBVIOUS
<1>2. HandleGood(m)'
      BY <1>1 DEF HandleGood, HandleOK, HandleState, FreshHandle, RefOK
<1>3. HandleStep(t)
      BY <1>1, <1>2, HandleSet DEF Refuse, Inv
<1> QED BY <1>3, ReturnStep DEF Refuse

(* The end of an open.                                                     *)
LEMMA OpenGotStep ==
    ASSUME Inv, RefsKept, NEW t \in Proc, NEW p, p.h \in Handle, Free(t, p.h),
           p.name \in Name, Visible(p.name), p.flags \in Flags,
           NEW ref \in Ref, RefOK(ref, p.name)', OpenGot(t, p, ref)
    PROVE  HandleInv' /\ CallInv' /\ Protocol'
<1>1. CASE p.flags.excl /\ ref # NoRef
      BY <1>1, RefuseStep DEF OpenGot
<1>2. CASE ~(p.flags.excl /\ ref # NoRef)
  <2> DEFINE create == \/ p.flags.excl
                       \/ /\ ref = NoRef /\ p.flags.create
                          /\ ForIndex(p.name).policy = "safe-create-update"
  <2>1. PICK m : m = [st |-> "open", name |-> p.name, meta |-> ref, createOnly |-> create]
        OBVIOUS
  <2>2. Return(t) /\ hd' = [hd EXCEPT ![p.h] = m]
        BY <1>2, <2>1 DEF OpenGot
  <2>3. create \in BOOLEAN
        BY FlagsAssumption DEF OpenFlags
  <2>4. AlwaysCreate /\ ForIndex(p.name).policy = "safe-create-update" => create \/ ref # NoRef
        BY DEF AlwaysCreate
  <2> HIDE DEF create
  <2>5. /\ m.st = "open" /\ m.name = p.name /\ m.meta = ref /\ m.createOnly = create
        /\ m \in HandleState
        BY <2>1, <2>3 DEF HandleState
  <2>6. HandleOK(m)
        BY <2>4, <2>5 DEF HandleOK
  <2>7. HandleGood(m)'
        BY <2>5, <2>6 DEF HandleGood, RefOK
  <2>8. HandleStep(t)
        BY <2>2, <2>7, HandleSet DEF Inv
  <2> QED BY <2>2, <2>8, ReturnStep
<1> QED BY <1>1, <1>2

(* A handle while the call that opens it waits.                            *)
LEMMA OpeningStep ==
    ASSUME HandleInv, NEW t \in Proc, NEW h \in Handle, Free(t, h),
           hd[h].st \in {"fresh", "opening"},
           hd' = [hd EXCEPT ![h] = [@ EXCEPT !.st = "opening"]]
    PROVE  HandleStep(t) /\ hd'[h].st = "opening"
<1>1. PICK m : m = [hd[h] EXCEPT !.st = "opening"]
      OBVIOUS
<1>2. hd[h] \in HandleState /\ hd' = [hd EXCEPT ![h] = m]
      BY <1>1 DEF HandleInv
<1>3. m \in HandleState /\ m.st = "opening" /\ m.meta = NoRef
      BY <1>1, <1>2 DEF HandleState
<1>4. HandleGood(m)'
      BY <1>3 DEF HandleGood, HandleOK, RefOK
<1> QED BY <1>2, <1>3, <1>4, HandleSet

(* What is known of a call that asks for the list.                         *)
Asks(t, p) ==
    /\ p \in ProcState /\ p.ref = NoRef /\ p.kind \in {"lookup", "open"} /\ p.name \in Name
    /\ p.kind = "lookup" => p.h = None
    /\ p.kind = "open" => /\ p.h \in Handle /\ p.flags \in Flags
                          /\ Free(t, p.h) /\ hd[p.h].st \in {"fresh", "opening"}

LEMMA ListedStep ==
    ASSUME Inv, RefsKept, UNCHANGED <<es, catalog, cache>>, NEW t \in Proc, NEW p, Asks(t, p),
           NEW l, Visibly(l), Listed(t, p, l)
    PROVE  HandleInv' /\ CallInv' /\ Protocol' /\ entered' \subseteq {n \in Name : Visible(n)}
<1>1. p.name \in Name
      BY DEF Asks
<1>2. CASE p.kind = "lookup"
  <2>1. Return(t) /\ UNCHANGED hd
        BY <1>2 DEF Listed, LookupListed
  <2>2. entered' \subseteq {n \in Name : Visible(n)}
        BY <1>1, <1>2, ListedIsVisible DEF Listed, LookupListed, Inv, ClientInv
  <2> QED BY <2>1, <2>2, HandlesUnchanged, ReturnStep DEF Inv
<1>3. CASE p.kind = "open"
  <2>1. OpenListed(t, p, l) /\ UNCHANGED entered
        BY <1>3 DEF Listed, OpenListed
  <2>2. p.h \in Handle /\ Free(t, p.h) /\ p.flags \in Flags /\ hd[p.h].st \in {"fresh", "opening"}
        BY <1>3 DEF Asks
  <2>3. CASE Refuse(t, p)
        BY <2>1, <2>2, <2>3, RefuseStep DEF Inv, ClientInv
  <2>4. CASE IndexInfo(l, p.name) = "single" /\ OpenGot(t, p, cache[p.name])
    <3>1. PICK r \in Ref : r = cache[p.name]
          BY <1>1 DEF Inv, CacheInv
    <3>2. RefOK(r, p.name)
          BY <1>1, <3>1 DEF Inv, CacheInv
    <3>3. RefOK(r, p.name)'
          BY <1>1, <3>2 DEF RefsKept
    <3> QED BY <1>1, <2>1, <2>2, <2>4, <3>1, <3>3, ListedIsVisible, OpenGotStep DEF Inv, ClientInv
  <2>5. CASE /\ IndexInfo(l, p.name) = "single" /\ Become(t, [p EXCEPT !.pc = "request"])
             /\ hd' = [hd EXCEPT ![p.h] = [@ EXCEPT !.st = "opening"]]
    <3>1. PICK q : q = [p EXCEPT !.pc = "request"]
          OBVIOUS
    <3>2. Visible(p.name)
          BY <1>1, <2>5, ListedIsVisible
    <3>3. /\ q \in ProcState /\ q.pc = "request" /\ q.kind = "open" /\ q.name = p.name
          /\ q.h = p.h /\ q.flags = p.flags /\ q.ref = NoRef
          BY <1>3, <3>1 DEF Asks, ProcState
    <3>4. CallOK(q) /\ RefOK(q.ref, q.name)'
          BY <1>1, <2>2, <3>2, <3>3 DEF CallOK, RefOK
    <3>5. HandleStep(t) /\ hd'[p.h].st = "opening"
          BY <2>2, <2>5, OpeningStep DEF Inv
    <3>6. proc' = [proc EXCEPT ![t] = q]
          BY <2>5, <3>1 DEF Become
    <3>7. Holding(q, hd'[q.h])
          BY <3>3, <3>5 DEF Holding
    <3> QED BY <2>1, <2>2, <3>3, <3>4, <3>5, <3>6, <3>7, CallStep DEF Inv, ClientInv
  <2> QED BY <2>1, <2>3, <2>4, <2>5 DEF OpenListed
<1> QED BY <1>2, <1>3 DEF Asks
-----------------------------------------------------------------------------
(* The actions that use the list.                                          *)

(* A step that changes nothing but what t is doing.                        *)
LEMMA QuietStep ==
    ASSUME Inv, UNCHANGED <<es, catalog, list, cache, entered>>, NEW t \in Proc, NEW q,
           Become(t, q), CallOK(q), RefOK(q.ref, q.name)', HandleStep(t),
           q.h # None => Free(t, q.h) /\ Holding(q, hd'[q.h])
    PROVE  Inv'
<1>1. CatalogInv' /\ HistoryInv' /\ RefsKept
      BY ServerUnchanged
<1>2. CacheInv'
      BY <1>1, CacheUnchanged DEF Inv
<1>3. HandleInv' /\ CallInv' /\ Protocol'
      BY <1>1, CallStep DEF Become
<1>4. ClientInv'
      BY DEF Inv, ClientInv
<1> QED BY <1>1, <1>2, <1>3, <1>4 DEF Inv

LEMMA AskListInv ==
    ASSUME Inv, NEW t \in Proc, NEW p, Asks(t, p), AskList(t, p)
    PROVE  Inv'
<1>1. UNCHANGED <<es, catalog, list, cache>> /\ CatalogInv' /\ HistoryInv' /\ RefsKept
      BY ServerUnchanged DEF AskList
<1>2. CacheInv'
      BY <1>1, CacheUnchanged DEF Inv
<1>3. CASE list # NoList /\ Listed(t, p, list)
  <2>1. PICK l : l = list
        OBVIOUS
  <2>2. HandleInv' /\ CallInv' /\ Protocol' /\ entered' \subseteq {n \in Name : Visible(n)}
        BY <1>1, <1>3, <2>1, ListedStep DEF Inv, ClientInv
  <2> QED BY <1>1, <1>2, <2>2 DEF Inv, ClientInv
<1>4. CASE /\ Become(t, [p EXCEPT !.pc = "resolve"]) /\ UNCHANGED entered
           /\ hd' = IF p.kind = "open" THEN [hd EXCEPT ![p.h] = [@ EXCEPT !.st = "opening"]] ELSE hd
  <2>1. PICK q : q = [p EXCEPT !.pc = "resolve"]
        OBVIOUS
  <2>2. /\ q \in ProcState /\ q.pc = "resolve" /\ q.kind = p.kind /\ q.name = p.name
        /\ q.h = p.h /\ q.flags = p.flags /\ q.ref = NoRef
        BY <2>1 DEF Asks, ProcState
  <2>3. CallOK(q) /\ RefOK(q.ref, q.name)'
        BY <2>2 DEF Asks, CallOK, RefOK
  <2>4. CASE p.kind = "open"
    <3>1. p.h \in Handle /\ Free(t, p.h) /\ hd[p.h].st \in {"fresh", "opening"}
          BY <2>4 DEF Asks
    <3>2. HandleStep(t) /\ hd'[p.h].st = "opening"
          BY <1>4, <2>4, <3>1, OpeningStep DEF Inv
    <3>3. Holding(q, hd'[q.h])
          BY <2>2, <2>4, <3>2 DEF Holding
    <3> QED BY <1>1, <1>4, <2>1, <2>2, <2>3, <3>1, <3>2, <3>3, QuietStep
  <2>5. CASE p.kind = "lookup"
    <3>1. q.h = None /\ UNCHANGED hd
          BY <1>4, <2>2, <2>5 DEF Asks
    <3> QED BY <1>1, <1>4, <2>1, <2>3, <3>1, HandlesUnchanged, QuietStep DEF Inv
  <2> QED BY <2>4, <2>5 DEF Asks
<1> QED BY <1>3, <1>4 DEF AskList

LEMMA LookupInv ==
    ASSUME Inv, NEW t \in Proc, NEW n \in Name, Lookup(t, n)
    PROVE  Inv'
<1>1. PICK p : p = [Idle EXCEPT !.kind = "lookup", !.name = n]
      OBVIOUS
<1>2. /\ p \in ProcState /\ p.ref = NoRef /\ p.kind = "lookup" /\ p.name = n /\ p.h = None
      BY <1>1, IdleOK DEF CallOK, Idle, ProcState
<1> QED BY <1>1, <1>2, AskListInv DEF Lookup, Asks

LEMMA OpenWriteInv ==
    ASSUME Inv, NEW t \in Proc, NEW h \in Handle, NEW n \in Name, NEW fl \in Flags,
           OpenWrite(t, h, n, fl)
    PROVE  Inv'
<1>1. PICK p : p = [Idle EXCEPT !.kind = "open", !.name = n, !.h = h, !.flags = fl]
      OBVIOUS
<1>2. hd[h].st = "fresh" /\ AskList(t, p)
      BY <1>1 DEF OpenWrite
<1>3. /\ p \in ProcState /\ p.ref = NoRef /\ p.kind = "open" /\ p.name = n /\ p.h = h
      /\ p.flags = fl
      BY <1>1, IdleOK, FlagsAssumption DEF CallOK, Idle, ProcState
<1> QED BY <1>2, <1>3, NobodysHandle, AskListInv DEF Asks

(* A call that asks for the list, as it is known of it while it waits.     *)
LEMMA Waiting ==
    ASSUME Inv, NEW t \in Proc, proc[t].pc \in {"resolve", "resolved"}, NEW p, p = proc[t]
    PROVE  Asks(t, p) /\ CallOK(p)
<1>1. CallOK(p) /\ RefOK(p.ref, p.name) /\ p.kind \in {"lookup", "open"}
      BY DEF Inv, CallInv, CallGood, CallOK
<1>2. p \in ProcState /\ p.name \in Name
      BY <1>1 DEF CallOK
<1>3. CASE p.kind = "lookup"
      BY <1>1, <1>2, <1>3 DEF Asks, CallOK
<1>4. CASE p.kind = "open"
  <2>1. p.h \in Handle /\ p.flags \in Flags
        BY <1>1, <1>4 DEF CallOK
  <2>2. Free(t, p.h) /\ hd[p.h].st = "opening"
        BY <1>4, <2>1, OwnHandle, Sentinels DEF Inv, Protocol, Holding
  <2> QED BY <1>1, <1>2, <1>4, <2>1, <2>2 DEF Asks, CallOK
<1> QED BY <1>1, <1>3, <1>4
LEMMA VisibleIndicesVisibly == Visibly(VisibleIndices)
BY NamesAssumption DEF Visibly, VisibleIndices, Listing

LEMMA EsResolveInv ==
    ASSUME Inv, NEW t \in Proc, EsResolve(t)
    PROVE  Inv'
<1>1. PICK p, l, q : /\ p = proc[t] /\ l = VisibleIndices
                     /\ q = [p EXCEPT !.pc = "resolved", !.list = l]
      OBVIOUS
<1>2. /\ p.pc = "resolve" /\ Become(t, q) /\ UNCHANGED <<es, catalog, list, cache, entered, hd>>
      BY <1>1 DEF EsResolve
<1>3. Asks(t, p) /\ CallOK(p)
      BY <1>1, <1>2, Waiting
<1>4. Visibly(l)
      BY <1>1, VisibleIndicesVisibly
<1>5. /\ q \in ProcState /\ q.pc = "resolved" /\ q.list = l /\ q.kind = p.kind /\ q.name = p.name
      /\ q.h = p.h /\ q.ref = NoRef /\ q.flags = p.flags
      BY <1>1, <1>3, <1>4 DEF Asks, ProcState, Visibly
<1>6. CallOK(q) /\ RefOK(q.ref, q.name)'
      BY <1>2, <1>3, <1>4, <1>5 DEF CallOK, RefOK
<1>7. q.h # None => Free(t, q.h) /\ Holding(q, hd'[q.h])
      BY <1>1, <1>2, <1>5, OwnHandle DEF Inv, Protocol, Holding
<1> QED BY <1>2, <1>6, <1>7, HandlesUnchanged, QuietStep DEF Inv

LEMMA ResolveDoneInv ==
    ASSUME Inv, NEW t \in Proc, ResolveDone(t)
    PROVE  Inv'
<1>1. PICK p, l : p = proc[t] /\ l = p.list
      OBVIOUS
<1>2. /\ p.pc = "resolved" /\ list' = l /\ Listed(t, p, l) /\ UNCHANGED <<es, catalog, cache>>
      BY <1>1 DEF ResolveDone
<1>3. Asks(t, p) /\ Visibly(l)
      BY <1>1, <1>2, Waiting DEF CallOK
<1>4. CatalogInv' /\ HistoryInv' /\ RefsKept
      BY <1>2, ServerUnchanged
<1>5. HandleInv' /\ CallInv' /\ Protocol' /\ entered' \subseteq {n \in Name : Visible(n)}
      BY <1>2, <1>3, <1>4, ListedStep
<1>6. CacheInv'
      BY <1>2, <1>4, CacheUnchanged DEF Inv
<1> QED BY <1>2, <1>3, <1>4, <1>5, <1>6 DEF Inv, ClientInv

LEMMA ResolveFailedInv ==
    ASSUME Inv, NEW t \in Proc, ResolveFailed(t)
    PROVE  Inv'
<1>1. PICK p : p = proc[t]
      OBVIOUS
<1>2. /\ p.pc = "resolve" /\ UNCHANGED <<es, catalog, list, cache, entered>>
      /\ IF p.kind = "open" THEN Refuse(t, p) ELSE Return(t) /\ UNCHANGED hd
      BY <1>1 DEF ResolveFailed
<1>3. Asks(t, p)
      BY <1>1, <1>2, Waiting
<1>4. CatalogInv' /\ HistoryInv' /\ RefsKept
      BY <1>2, ServerUnchanged
<1>5. HandleInv' /\ CallInv' /\ Protocol'
  <2>1. CASE p.kind = "open"
        BY <1>2, <1>3, <1>4, <2>1, RefuseStep DEF Asks
  <2>2. CASE p.kind # "open"
        BY <1>2, <1>4, <2>2, HandlesUnchanged, ReturnStep DEF Inv
  <2> QED BY <2>1, <2>2
<1>6. CacheInv'
      BY <1>2, <1>4, CacheUnchanged DEF Inv
<1> QED BY <1>2, <1>4, <1>5, <1>6 DEF Inv, ClientInv

-----------------------------------------------------------------------------
(* Steps of nobody's call.                                                 *)

LEMMA CallsUnchanged ==
    ASSUME CallInv, RefsKept, UNCHANGED proc
    PROVE  CallInv'
<1>1. ASSUME NEW t \in Proc
      PROVE  CallOK(proc'[t]) /\ RefOK(proc[t].ref, proc[t].name)'
  <2>1. PICK p : p = proc[t]
        OBVIOUS
  <2>2. CallGood(p)
        BY <2>1 DEF CallInv
  <2>3. CallGood(p)'
        BY <2>2, CallGoodKept
  <2> QED BY <2>1, <2>2, <2>3 DEF CallGood, RefOK, WriteIndex, Members, Single
<1> QED BY <1>1 DEF CallInv, CallGood

LEMMA HandlesKept ==
    ASSUME HandleInv, RefsKept, UNCHANGED hd
    PROVE  HandleInv'
<1>1. ASSUME NEW h \in Handle
      PROVE  HandleOK(hd'[h]) /\ RefOK(hd[h].meta, hd[h].name)'
  <2>1. PICK m : m = hd[h]
        OBVIOUS
  <2>2. HandleGood(m)
        BY <2>1 DEF HandleInv
  <2>3. HandleGood(m)'
        BY <2>2, HandleGoodKept
  <2> QED BY <2>1, <2>2, <2>3 DEF HandleGood, RefOK, WriteIndex, Members, Single
<1> QED BY <1>1 DEF HandleInv, HandleGood

LEMMA ExpireListInv == Inv /\ ExpireList => Inv'
<1> SUFFICES ASSUME Inv, ExpireList PROVE Inv'
    OBVIOUS
<1>1. list' = NoList /\ UNCHANGED <<es, catalog, cache, entered, hd, proc>>
      BY DEF ExpireList
<1>2. CatalogInv' /\ HistoryInv' /\ RefsKept
      BY <1>1, ServerUnchanged
<1>3. CacheInv' /\ HandleInv' /\ CallInv'
      BY <1>1, <1>2, CacheUnchanged, HandlesKept, CallsUnchanged DEF Inv
<1> QED BY <1>1, <1>2, <1>3 DEF Inv, ClientInv, Protocol, Holding

LEMMA NoRefOK == NoRef \in Ref /\ \A n : RefOK(NoRef, n)'
BY DEF NoRef, Ref, RefOK

LEMMA ExpireDocInv ==
    ASSUME Inv, NEW n \in Name, ExpireDoc(n)
    PROVE  Inv'
<1>1. /\ cache' = [cache EXCEPT ![n] = NoRef]
      /\ UNCHANGED <<es, catalog, list, entered, hd, proc>>
      BY DEF ExpireDoc
<1>2. CatalogInv' /\ HistoryInv' /\ RefsKept
      BY <1>1, ServerUnchanged
<1>3. CacheInv'
      BY <1>1, <1>2, NoRefOK, CacheStep DEF Inv
<1>4. HandleInv' /\ CallInv'
      BY <1>1, <1>2, HandlesKept, CallsUnchanged DEF Inv
<1> QED BY <1>1, <1>2, <1>3, <1>4 DEF Inv, ClientInv, Protocol, Holding

LEMMA ReleaseInv ==
    ASSUME Inv, NEW h \in Handle, Release(h)
    PROVE  Inv'
<1>1. PICK m : m = [FreshHandle EXCEPT !.st = "closed"]
      OBVIOUS
<1>2. /\ hd[h].st = "open" /\ hd' = [hd EXCEPT ![h] = m]
      /\ UNCHANGED <<es, catalog, list, cache, entered, proc>>
      BY <1>1 DEF Release
<1>3. CatalogInv' /\ HistoryInv' /\ RefsKept
      BY <1>2, ServerUnchanged
<1>4. CacheInv' /\ CallInv' /\ ClientInv'
      BY <1>2, <1>3, CacheUnchanged, CallsUnchanged DEF Inv, ClientInv
<1>5. HandleGood(m)' /\ m \in HandleState /\ HandleOK(m) /\ m.meta = NoRef
      BY <1>1 DEF HandleGood, HandleOK, HandleState, FreshHandle, RefOK
<1>6. HandleInv'
  <2>1. ASSUME NEW g \in Handle
        PROVE  HandleOK(hd'[g]) /\ RefOK(hd[g].meta, hd[g].name)'
    <3>1. CASE g = h
      <4>1. hd'[g] = m
            BY <1>2, <3>1 DEF Inv, HandleInv
      <4> QED BY <1>5, <4>1 DEF RefOK
    <3>2. CASE g # h
      <4>1. PICK x : x = hd[g] /\ x = hd'[g]
            BY <1>2, <3>2 DEF Inv, HandleInv
      <4>2. HandleGood(x)
            BY <4>1 DEF Inv, HandleInv
      <4>3. HandleGood(x)'
            BY <1>3, <4>2, HandleGoodKept
      <4> QED BY <4>1, <4>2, <4>3 DEF HandleGood, RefOK, WriteIndex, Members, Single
    <3> QED BY <3>1, <3>2
  <2>2. hd' \in [Handle -> HandleState]
        BY <1>2, <1>5 DEF Inv, HandleInv
  <2> QED BY <2>1, <2>2 DEF HandleInv, HandleGood
<1>7. Protocol'
  <2>1. \A t \in Proc : proc[t].h # h
    <3> SUFFICES ASSUME NEW t \in Proc, proc[t].h = h PROVE FALSE
        OBVIOUS
    <3>1. h # None /\ proc[t].kind \in {"open", "save"}
          BY Sentinels DEF Inv, CallInv, CallGood, CallOK
    <3> QED BY <1>2, <3>1 DEF Inv, Protocol, Holding
  <2>2. \A g \in Handle \ {h} : hd'[g] = hd[g]
        BY <1>2 DEF Inv, HandleInv
  <2>3. \A t \in Proc : proc[t].h # None => proc[t].h \in Handle
        BY DEF Inv, CallInv, ProcState
  <2> QED BY <1>2, <2>1, <2>2, <2>3 DEF Inv, Protocol, Holding
<1> QED BY <1>3, <1>4, <1>6, <1>7 DEF Inv

-----------------------------------------------------------------------------
(* Get.                                                                    *)

(* The directories that the kernel has entered are visible ones.           *)
LEMMA EnteredVisible ==
    ASSUME Inv, NEW n \in entered
    PROVE  n \in Name /\ Visible(n)
BY DEF Inv, ClientInv

LEMMA ReadInv ==
    ASSUME Inv, NEW t \in Proc, NEW n \in Name, Read(t, n)
    PROVE  Inv'
<1>1. PICK q : q = [Idle EXCEPT !.kind = "read", !.pc = "request", !.name = n]
      OBVIOUS
<1>2. /\ n \in entered /\ Become(t, q) /\ UNCHANGED <<es, catalog, list, cache, entered, hd>>
      BY <1>1 DEF Read
<1>3. /\ q \in ProcState /\ q.kind = "read" /\ q.pc = "request" /\ q.name = n
      /\ q.h = None /\ q.ref = NoRef
      BY <1>1, IdleOK DEF CallOK, Idle, ProcState
<1>4. CallOK(q) /\ RefOK(q.ref, q.name)'
      BY <1>2, <1>3, EnteredVisible DEF CallOK, RefOK
<1> QED BY <1>2, <1>3, <1>4, HandlesUnchanged, QuietStep DEF Inv

(* The version a live document of a name's only index is at.               *)
LEMMA VersionRefOK ==
    ASSUME Inv, NEW n \in Name, Single(n), NEW i \in Members(n), NEW r,
           r = [idx |-> i, gen |-> es[i].gen, seq |-> Len(es[i].hist), at |-> moves[n]]
    PROVE  r \in Ref /\ RefOK(r, n)
<1>1. i \in Index /\ WriteIndex(n) \subseteq {i}
      BY HomeFacts DEF Inv
<1>2. es[i] \in IndexState /\ moves[n] \in Nat
      BY <1>1 DEF Inv, CatalogInv
<1>3. es[i].gen \in Nat /\ Len(es[i].hist) \in Nat
      BY <1>2, LenProperties DEF IndexState
<1>4. r \in Ref /\ r.idx = i /\ r.gen = es[i].gen /\ r.at = moves[n]
      BY <1>1, <1>2, <1>3 DEF Ref
<1> QED BY <1>1, <1>2, <1>4 DEF RefOK

LEMMA EsGetInv ==
    ASSUME Inv, NEW t \in Proc, EsGet(t)
    PROVE  Inv'
<1>1. PICK p, n : p = proc[t] /\ n = p.name
      OBVIOUS
<1>2. /\ p.kind \in {"read", "open"} /\ p.pc = "request" /\ CallOK(p) /\ n \in Name
      /\ UNCHANGED <<es, catalog, list, cache, entered, hd>>
      BY <1>1 DEF EsGet, Getting, Inv, CallInv, CallGood, CallOK
<1>3. PICK s \in Statuses, r \in Ref :
          /\ Become(t, [p EXCEPT !.pc = "answered", !.status = s, !.ref = r])
          /\ RefOK(r, n)
  <2>1. CASE \E s \in Statuses :
                Become(t, [p EXCEPT !.pc = "answered", !.status = s, !.ref = NoRef])
        BY <2>1, NoRefOK DEF RefOK
  <2>2. CASE /\ Single(n)
             /\ \E i \in Members(n) :
                   Become(t, [p EXCEPT !.pc = "answered", !.status = "ok",
                       !.ref = [idx |-> i, gen |-> es[i].gen,
                                seq |-> Len(es[i].hist), at |-> moves[n]]])
    <3>1. PICK i \in Members(n) :
                   Become(t, [p EXCEPT !.pc = "answered", !.status = "ok",
                       !.ref = [idx |-> i, gen |-> es[i].gen,
                                seq |-> Len(es[i].hist), at |-> moves[n]]])
          BY <2>2
    <3>2. PICK r : r = [idx |-> i, gen |-> es[i].gen, seq |-> Len(es[i].hist), at |-> moves[n]]
          OBVIOUS
    <3>3. r \in Ref /\ RefOK(r, n)
          BY <1>2, <2>2, <3>2, VersionRefOK
    <3> QED BY <3>1, <3>2, <3>3 DEF Statuses
  <2> QED BY <1>1, <2>1, <2>2 DEF EsGet, Statuses
<1>4. PICK q : q = [p EXCEPT !.pc = "answered", !.status = s, !.ref = r]
      OBVIOUS
<1>5. /\ q \in ProcState /\ q.pc = "answered" /\ q.kind = p.kind /\ q.name = n
      /\ q.h = p.h /\ q.ref = r /\ q.flags = p.flags
      BY <1>1, <1>2, <1>4 DEF CallOK, ProcState
<1>6. CallOK(q)
      BY <1>2, <1>1, <1>5 DEF CallOK
<1>7. RefOK(q.ref, q.name)'
      BY <1>2, <1>3, <1>5, ServerUnchanged DEF RefsKept
<1>8. q.h # None => Free(t, q.h) /\ Holding(q, hd'[q.h])
      BY <1>1, <1>2, <1>5, OwnHandle DEF Inv, Protocol, Holding
<1> QED BY <1>2, <1>3, <1>4, <1>6, <1>7, <1>8, HandlesUnchanged, QuietStep DEF Inv

(* What a call knows, as the next state sees it.                           *)
LEMMA CallRef ==
    ASSUME Inv, RefsKept, NEW t \in Proc, NEW p, p = proc[t], p.kind # "idle"
    PROVE  CallOK(p) /\ p.name \in Name /\ p.ref \in Ref /\ RefOK(p.ref, p.name)'
BY DEF Inv, CallInv, CallGood, CallOK, ProcState, RefsKept

LEMMA GetDoneInv ==
    ASSUME Inv, NEW t \in Proc, GetDone(t)
    PROVE  Inv'
<1>1. PICK p : p = proc[t]
      OBVIOUS
<1>2. /\ p.kind \in {"read", "open"} /\ p.pc = "answered"
      /\ cache' = IF p.status = "ok" THEN [cache EXCEPT ![p.name] = p.ref] ELSE cache
      /\ \/ p.kind = "open" /\ OpenGot(t, p, p.ref)
         \/ p.kind = "read" /\ Return(t) /\ UNCHANGED hd
      /\ UNCHANGED <<es, catalog, list, entered>>
      BY <1>1 DEF GetDone, Getting, Cached
<1>3. CatalogInv' /\ HistoryInv' /\ RefsKept
      BY <1>2, ServerUnchanged
<1>4. CallOK(p) /\ p.name \in Name /\ p.ref \in Ref /\ RefOK(p.ref, p.name)'
      BY <1>1, <1>2, <1>3, CallRef
<1>5. CacheInv'
  <2>1. CASE p.status = "ok"
        BY <1>2, <1>3, <1>4, <2>1, CacheStep DEF Inv
  <2>2. CASE p.status # "ok"
        BY <1>2, <1>3, <2>2, CacheUnchanged DEF Inv
  <2> QED BY <2>1, <2>2
<1>6. HandleInv' /\ CallInv' /\ Protocol'
  <2>1. CASE p.kind = "open"
    <3>1. p.h \in Handle /\ p.flags \in Flags /\ Visible(p.name)
          BY <1>2, <1>4, <2>1 DEF CallOK
    <3>2. Free(t, p.h)
          BY <1>1, <3>1, OwnHandle, Sentinels
    <3> QED BY <1>2, <1>3, <1>4, <2>1, <3>1, <3>2, OpenGotStep
  <2>2. CASE p.kind = "read"
        BY <1>2, <1>3, <2>2, HandlesUnchanged, ReturnStep DEF Inv
  <2> QED BY <1>2, <2>1, <2>2
<1> QED BY <1>2, <1>3, <1>5, <1>6 DEF Inv, ClientInv

-----------------------------------------------------------------------------
(* What the client does about a save and a delete.                         *)

LEMMA SaveInv ==
    ASSUME Inv, NEW t \in Proc, NEW h \in Handle, Save(t, h)
    PROVE  Inv'
<1>1. PICK m : m = hd[h]
      OBVIOUS
<1>2. PICK q, x : /\ q = [Idle EXCEPT !.kind = "save", !.pc = "request", !.name = m.name, !.h = h,
                                   !.guard = PutGuard(h), !.ref = m.meta]
                  /\ x = [m EXCEPT !.st = "saving"]
      OBVIOUS
<1>3. /\ m.st = "open" /\ Become(t, q) /\ hd' = [hd EXCEPT ![h] = x]
      /\ UNCHANGED <<es, catalog, list, cache, entered>>
      BY <1>1, <1>2 DEF Save, Inv, HandleInv
<1>4. HandleOK(m) /\ RefOK(m.meta, m.name) /\ m \in HandleState
      BY <1>1 DEF Inv, HandleInv, HandleGood
<1>5. /\ m.name \in Name /\ Visible(m.name) /\ m.meta \in Ref /\ m.createOnly \in BOOLEAN
      /\ AlwaysCreate /\ ForIndex(m.name).policy = "safe-create-update"
                => m.createOnly \/ m.meta # NoRef
      BY <1>3, <1>4 DEF HandleOK, HandleState
<1>6. RefOK(m.meta, m.name)'
      BY <1>3, <1>4, <1>5, ServerUnchanged DEF RefsKept
<1>7. /\ PutGuard(h) \in {"create", "match", "none"}
      /\ PutGuard(h) = "match" => m.meta # NoRef
      /\ ForIndex(m.name).policy = "create-only" => PutGuard(h) = "create"
      /\ AlwaysCreate /\ ForIndex(m.name).policy = "safe-create-update" => PutGuard(h) # "none"
      BY <1>1, <1>5 DEF PutGuard
<1>8. /\ q \in ProcState /\ q.kind = "save" /\ q.pc = "request" /\ q.name = m.name
      /\ q.h = h /\ q.ref = m.meta /\ q.guard = PutGuard(h)
      BY <1>2, <1>5, <1>7, IdleOK DEF CallOK, Idle, ProcState
<1>9. CallOK(q)
      BY <1>5, <1>7, <1>8 DEF CallOK, Justified
<1>10. /\ x.st = "saving" /\ x.name = m.name /\ x.createOnly = m.createOnly /\ x.meta = m.meta
       /\ x \in HandleState
  <2>1. x.st = "saving" /\ x.name = m.name /\ x.createOnly = m.createOnly /\ x.meta = m.meta
        BY <1>2, <1>4 DEF HandleState
  <2>2. m = [st |-> m.st, name |-> m.name, createOnly |-> m.createOnly, meta |-> m.meta]
        BY <1>4 DEF HandleState
  <2>3. x = [st |-> "saving", name |-> m.name, createOnly |-> m.createOnly, meta |-> m.meta]
        BY <1>2, <2>2
  <2> QED BY <1>5, <2>1, <2>3 DEF HandleState
<1>11. HandleGood(x)'
       BY <1>5, <1>6, <1>10 DEF HandleGood, HandleOK, RefOK
<1>12. Free(t, h)
       BY <1>1, <1>3, NobodysHandle
<1>13. HandleStep(t) /\ hd'[h] = x
       BY <1>3, <1>11, <1>12, HandleSet DEF Inv
<1>14. Holding(q, hd'[q.h])
       BY <1>8, <1>10, <1>13 DEF Holding
<1>15. RefOK(q.ref, q.name)'
       BY <1>6, <1>8
<1> QED BY <1>3, <1>8, <1>9, <1>12, <1>13, <1>14, <1>15, QuietStep

LEMMA SaveDoneInv ==
    ASSUME Inv, NEW t \in Proc, SaveDone(t)
    PROVE  Inv'
<1>1. PICK p, h : p = proc[t] /\ h = p.h
      OBVIOUS
<1>2. PICK m : m = hd[h]
      OBVIOUS
<1>3. PICK x : x = IF p.status = "ok" THEN [m EXCEPT !.st = "open", !.meta = p.ref, !.createOnly = FALSE]
                   ELSE [m EXCEPT !.st = "open"]
      OBVIOUS
<1>4. /\ p.kind = "save" /\ p.pc = "answered"
      /\ cache' = IF p.status = "ok" THEN [cache EXCEPT ![p.name] = p.ref] ELSE cache
      /\ hd' = [hd EXCEPT ![h] = x] /\ Return(t)
      /\ UNCHANGED <<es, catalog, list, entered>>
      BY <1>1, <1>2, <1>3 DEF SaveDone, Cached
<1>5. CatalogInv' /\ HistoryInv' /\ RefsKept
      BY <1>4, ServerUnchanged
<1>6. CallOK(p) /\ p.name \in Name /\ p.ref \in Ref /\ RefOK(p.ref, p.name)'
      BY <1>1, <1>4, <1>5, CallRef
<1>7. /\ h \in Handle /\ Free(t, h) /\ m.st = "saving" /\ m.name = p.name
      /\ p.status = "ok" => p.ref # NoRef
      BY <1>1, <1>2, <1>4, <1>6, OwnHandle, Sentinels DEF CallOK, Inv, Protocol, Holding
<1>8. HandleGood(m)'
      BY <1>2, <1>5, <1>7, HandleGoodKept DEF Inv, HandleInv
<1>9. /\ m \in HandleState /\ RefOK(m.meta, m.name)' /\ Visible(m.name)
      /\ AlwaysCreate /\ ForIndex(m.name).policy = "safe-create-update"
                => m.createOnly \/ m.meta # NoRef
      BY <1>7, <1>8 DEF HandleGood, HandleOK
<1>10. m.createOnly \in BOOLEAN /\ m.meta \in Ref
       BY <1>7, <1>9 DEF HandleState
<1>11. m = [st |-> m.st, name |-> m.name, createOnly |-> m.createOnly, meta |-> m.meta]
       BY <1>9 DEF HandleState
<1>12. HandleGood(x)'
  <2>1. CASE p.status = "ok"
    <3>1. x = [st |-> "open", name |-> m.name, createOnly |-> FALSE, meta |-> p.ref]
          BY <1>3, <1>11, <2>1
    <3>2. /\ x.st = "open" /\ x.name = p.name /\ x.meta = p.ref /\ x \in HandleState
          BY <1>6, <1>7, <3>1 DEF HandleState
    <3>3. HandleOK(x)
          BY <1>6, <1>7, <1>9, <2>1, <3>2 DEF HandleOK
    <3> QED BY <1>6, <3>2, <3>3 DEF HandleGood, RefOK
  <2>2. CASE p.status # "ok"
    <3>1. x = [st |-> "open", name |-> m.name, createOnly |-> m.createOnly, meta |-> m.meta]
          BY <1>3, <1>11, <2>2
    <3>2. /\ x.st = "open" /\ x.name = m.name /\ x.meta = m.meta /\ x.createOnly = m.createOnly
          /\ x \in HandleState
          BY <1>6, <1>7, <1>10, <3>1 DEF HandleState
    <3>3. HandleOK(x)
          BY <1>6, <1>7, <1>9, <3>2 DEF HandleOK
    <3> QED BY <1>9, <3>2, <3>3 DEF HandleGood, RefOK
  <2> QED BY <2>1, <2>2
<1>13. HandleInv' /\ CallInv' /\ Protocol'
       BY <1>4, <1>5, <1>7, <1>12, HandleSet, ReturnStep DEF Inv
<1>14. CacheInv'
  <2>1. CASE p.status = "ok"
        BY <1>4, <1>5, <1>6, <2>1, CacheStep DEF Inv
  <2>2. CASE p.status # "ok"
        BY <1>4, <1>5, <2>2, CacheUnchanged DEF Inv
  <2> QED BY <2>1, <2>2
<1> QED BY <1>4, <1>5, <1>13, <1>14 DEF Inv, ClientInv

LEMMA UnlinkInv ==
    ASSUME Inv, NEW t \in Proc, NEW n \in Name, Unlink(t, n)
    PROVE  Inv'
<1>1. PICK q : q = [Idle EXCEPT !.kind = "unlink", !.pc = "request", !.name = n]
      OBVIOUS
<1>2. /\ n \in entered /\ ForIndex(n).delete /\ Become(t, q)
      /\ UNCHANGED <<es, catalog, list, cache, entered, hd>>
      BY <1>1 DEF Unlink
<1>3. /\ q \in ProcState /\ q.kind = "unlink" /\ q.pc = "request" /\ q.name = n
      /\ q.h = None /\ q.ref = NoRef
      BY <1>1, IdleOK DEF CallOK, Idle, ProcState
<1>4. CallOK(q) /\ RefOK(q.ref, q.name)'
      BY <1>2, <1>3, EnteredVisible DEF CallOK, RefOK
<1> QED BY <1>2, <1>3, <1>4, HandlesUnchanged, QuietStep DEF Inv

LEMMA UnlinkDoneInv ==
    ASSUME Inv, NEW t \in Proc, UnlinkDone(t)
    PROVE  Inv'
<1>1. PICK p : p = proc[t]
      OBVIOUS
<1>2. /\ p.kind = "unlink" /\ Return(t) /\ UNCHANGED <<es, catalog, list, entered, hd>>
      /\ cache' = IF p.status = "ok" THEN [cache EXCEPT ![p.name] = NoRef] ELSE cache
      BY <1>1 DEF UnlinkDone
<1>3. CatalogInv' /\ HistoryInv' /\ RefsKept
      BY <1>2, ServerUnchanged
<1>4. p.name \in Name
      BY <1>1, <1>2, <1>3, CallRef
<1>5. CacheInv'
  <2>1. CASE p.status = "ok"
        BY <1>2, <1>3, <1>4, <2>1, NoRefOK, CacheStep DEF Inv
  <2>2. CASE p.status # "ok"
        BY <1>2, <1>3, <2>2, CacheUnchanged DEF Inv
  <2> QED BY <2>1, <2>2
<1>6. HandleInv' /\ CallInv' /\ Protocol'
      BY <1>2, <1>3, HandlesUnchanged, ReturnStep DEF Inv
<1> QED BY <1>2, <1>3, <1>5, <1>6 DEF Inv, ClientInv

-----------------------------------------------------------------------------
(* A version that is stored.                                               *)

LEMMA LiveAt ==
    ASSUME NEW i \in Index, es[i] \in IndexState
    PROVE  /\ Len(es[i].hist) \in Nat
           /\ Live(i) <=> Len(es[i].hist) >= 1 /\ es[i].hist[Len(es[i].hist)].live
<1>1. es[i].hist \in Seq(Version)
      BY DEF IndexState
<1> QED BY <1>1, EmptySeq, LenProperties DEF Live

(* What a version that the properties allow looks like as it is stored.    *)
Storable(i, v) ==
    /\ v \in Version
    /\ v.by # "other" => v.via \in Name /\ Visible(v.via)
    /\ v.by = "unlink" => ForIndex(v.via).delete
    /\ v.by \in Handle /\ Live(i) =>
          /\ ForIndex(v.via).policy # "create-only"
          /\ AlwaysCreate /\ ForIndex(v.via).policy = "safe-create-update" => v.on # NoRef
    /\ v.steady => v.on.idx = i /\ v.on.gen = es[i].gen /\ v.on.seq = Len(es[i].hist)

LEMMA StoreStep ==
    ASSUME Inv, NEW i \in Index, NEW v, Storable(i, v), Store(i, v), UNCHANGED catalog
    PROVE  CatalogInv' /\ HistoryInv' /\ RefsKept
<1>1. PICK s, z, h : /\ s = es[i] /\ h = Append(s.hist, v) /\ z = [s EXCEPT !.hist = h]
      OBVIOUS
<1>2. es \in [Index -> IndexState] /\ es' = [es EXCEPT ![i] = z] /\ UNCHANGED <<alias, moves, changes>>
      BY <1>1 DEF Store, catalog, Inv, CatalogInv
<1>3. s \in IndexState /\ s.hist \in Seq(Version) /\ v \in Version
      BY <1>1, <1>2 DEF IndexState, Storable
<1>4. /\ h \in Seq(Version) /\ Len(h) = Len(s.hist) + 1 /\ Len(s.hist) \in Nat
      /\ \A k \in 1..Len(s.hist) : h[k] = s.hist[k]
      /\ h[Len(s.hist) + 1] = v
      BY <1>1, <1>3, AppendProperties, LenProperties
<1>5. z \in IndexState /\ z.open = s.open /\ z.gen = s.gen /\ z.hist = h
      BY <1>1, <1>3, <1>4 DEF IndexState
<1>6. /\ es' \in [Index -> IndexState]
      /\ \A j \in Index : es'[j] = IF j = i THEN z ELSE es[j]
      BY <1>2, <1>5
<1>7. RefsKept
      BY <1>1, <1>2, <1>5, <1>6, StoringKeepsRefs DEF Inv
<1>8. CatalogInv'
      BY <1>2, <1>6 DEF Inv, CatalogInv
<1>9. Sound(i, z)
  <2>1. Sound(i, s)
        BY <1>1 DEF Inv, HistoryInv
  <2>2. ASSUME NEW k \in 1..Len(h) PROVE SoundAt(i, z, k)
    <3>1. CASE k \in 1..Len(s.hist)
      <4>1. SoundAt(i, s, k)
            BY <2>1, <3>1 DEF Sound
      <4>2. k > 1 => k - 1 \in 1..Len(s.hist)
            BY <1>4, <3>1
      <4>3. h[k] = s.hist[k] /\ (k > 1 => h[k - 1] = s.hist[k - 1])
            BY <1>4, <3>1, <4>2
      <4> QED BY <1>5, <4>1, <4>3 DEF SoundAt
    <3>2. CASE k = Len(s.hist) + 1
      <4>1. h[k] = v /\ (k > 1 => h[k - 1] = s.hist[Len(s.hist)])
            BY <1>4, <3>2
      <4>2. k > 1 /\ h[k - 1].live => Live(i)
            BY <1>1, <1>3, <1>4, <3>2, <4>1, LiveAt
      <4>3. k - 1 = Len(s.hist)
            BY <1>4, <3>2
      <4> QED BY <1>1, <1>5, <4>1, <4>2, <4>3 DEF SoundAt, Storable
    <3> QED BY <1>4, <3>1, <3>2
  <2> QED BY <1>5, <2>2 DEF Sound
<1>10. HistoryInv'
       BY <1>6, <1>9 DEF Inv, HistoryInv
<1> QED BY <1>7, <1>8, <1>10

(* Elasticsearch's answer to a save or a delete.                           *)
LEMMA AnsweredStep ==
    ASSUME Inv, CatalogInv', HistoryInv', RefsKept, UNCHANGED <<list, cache, entered, hd>>,
           NEW t \in Proc, proc[t].kind \in {"save", "unlink"}, proc[t].pc = "request",
           NEW s \in Statuses, NEW r \in Ref, NEW b \in BOOLEAN, RefOK(r, proc[t].name),
           Answered(t, s, r, b),
           s = "ok" => b /\ r # NoRef,
           b => s \in {"ok", "unavailable"}
    PROVE  Inv'
<1>1. PICK p : p = proc[t]
      OBVIOUS
<1>2. PICK q : q = [p EXCEPT !.pc = "answered", !.status = s, !.ref = r, !.applied = b]
      OBVIOUS
<1>3. proc' = [proc EXCEPT ![t] = q]
      BY <1>1, <1>2 DEF Answered, Become
<1>4. CallOK(p) /\ p.name \in Name
      BY <1>1, CallRef
<1>5. /\ q \in ProcState /\ q.pc = "answered" /\ q.kind = p.kind /\ q.name = p.name /\ q.h = p.h
      /\ q.ref = r /\ q.status = s /\ q.applied = b
      BY <1>2, <1>4 DEF CallOK, ProcState
<1>6. CallOK(q)
      BY <1>1, <1>4, <1>5 DEF CallOK
<1>7. RefOK(q.ref, q.name)'
      BY <1>1, <1>4, <1>5 DEF RefsKept
<1>8. q.h # None => Free(t, q.h) /\ Holding(q, hd'[q.h])
      BY <1>1, <1>5, OwnHandle DEF Inv, Protocol, Holding
<1>9. HandleInv' /\ CallInv' /\ Protocol'
      BY <1>3, <1>6, <1>7, <1>8, HandlesUnchanged, CallStep DEF Inv
<1>10. CacheInv' /\ ClientInv'
       BY CacheUnchanged DEF Inv, ClientInv
<1> QED BY <1>9, <1>10 DEF Inv

LEMMA NothingApplied ==
    ASSUME Inv, NEW t \in Proc, proc[t].kind \in {"save", "unlink"}, proc[t].pc = "request",
           NEW s \in Statuses \ {"ok"}, Answered(t, s, proc[t].ref, FALSE),
           UNCHANGED <<es, catalog, list, cache, entered, hd>>
    PROVE  Inv'
<1>1. PICK p : p = proc[t]
      OBVIOUS
<1>2. p.ref \in Ref /\ RefOK(p.ref, p.name)
      BY <1>1, CallRef, ServerUnchanged DEF Inv, CallInv, CallGood
<1> QED BY <1>1, <1>2, ServerUnchanged, AnsweredStep

LEMMA AppliedStep ==
    ASSUME Inv, NEW t \in Proc, proc[t].kind \in {"save", "unlink"}, proc[t].pc = "request",
           NEW i \in WriteIndex(proc[t].name), NEW v, Storable(i, v), Applied(t, i, v),
           UNCHANGED <<catalog, list, cache, entered, hd>>
    PROVE  Inv'
<1>1. PICK n : n = proc[t].name
      OBVIOUS
<1>2. n \in Name /\ i \in Index /\ \A j \in WriteIndex(n) : j = i
      BY <1>1, HomeFacts DEF Inv, CallInv, CallGood, CallOK
<1>3. PICK r : r = [idx |-> i, gen |-> es[i].gen, seq |-> Len(es[i].hist) + 1, at |-> moves[n]]
      OBVIOUS
<1>4. es[i] \in IndexState /\ moves[n] \in Nat /\ es[i].gen \in Nat /\ Len(es[i].hist) \in Nat
      BY <1>2, LiveAt DEF Inv, CatalogInv, IndexState
<1>5. r \in Ref /\ r.idx = i /\ r.gen = es[i].gen /\ r.at = moves[n]
      BY <1>2, <1>3, <1>4 DEF Ref
<1>6. RefOK(r, n) /\ r # NoRef
      BY <1>2, <1>4, <1>5, SentinelAssumption DEF RefOK, NoRef
<1>7. PICK s \in {"ok", "unavailable"} : Answered(t, s, r, TRUE)
      BY <1>1, <1>3 DEF Applied
<1>8. CatalogInv' /\ HistoryInv' /\ RefsKept
      BY <1>2, StoreStep DEF Applied
<1> QED BY <1>1, <1>5, <1>6, <1>7, <1>8, AnsweredStep DEF Statuses

LEMMA EsPutInv ==
    ASSUME Inv, NEW t \in Proc, EsPut(t)
    PROVE  Inv'
<1>1. PICK p : p = proc[t]
      OBVIOUS
<1>2. /\ p.kind = "save" /\ p.pc = "request" /\ CallOK(p) /\ RefOK(p.ref, p.name)
      /\ p.name \in Name /\ p.ref \in Ref
      /\ UNCHANGED <<catalog, list, cache, entered, hd>>
      BY <1>1 DEF EsPut, Inv, CallInv, CallGood, CallOK, ProcState
<1>3. CASE UNCHANGED es /\ \E s \in Statuses \ {"ok"} : Answered(t, s, p.ref, FALSE)
      BY <1>1, <1>2, <1>3, NothingApplied
<1>4. ASSUME NEW i \in WriteIndex(p.name), Accepts(i, p),
             Applied(t, i, [live |-> TRUE, by |-> p.h, via |-> p.name, on |-> BasedOn(p),
                            steady |-> BasedOn(p) # NoRef /\ p.ref.at = moves[p.name]])
      PROVE  Inv'
  <2> DEFINE steady == BasedOn(p) # NoRef /\ p.ref.at = moves[p.name]
             on == BasedOn(p)
  <2>1. PICK v : v = [live |-> TRUE, by |-> p.h, via |-> p.name, on |-> on, steady |-> steady]
        OBVIOUS
  <2>2. on \in Ref /\ steady \in BOOLEAN /\ (on # NoRef => p.guard = "match" /\ on = p.ref)
        BY <1>2, NoRefOK DEF BasedOn
  <2>3. p.h \in Handle /\ Visible(p.name) /\ Justified(p)
        BY <1>2 DEF CallOK
  <2>4. steady => p.guard = "match" /\ on = p.ref /\ p.ref # NoRef /\ p.ref.at = moves[p.name]
        BY <2>2 DEF BasedOn
  <2>5. p.guard = "match" => on = p.ref /\ on # NoRef
        BY <2>3 DEF BasedOn, Justified
  <2>6. Applied(t, i, v)
        BY <1>4, <2>1
  <2> HIDE DEF steady, on
  <2>7. /\ v.by = p.h /\ v.via = p.name /\ v.on = on /\ v.steady = steady /\ v.live = TRUE
        BY <2>1
  <2>8. v \in Version
        BY <1>2, <2>1, <2>2, <2>3 DEF Version
  <2>9. p.h # "other" /\ p.h # "unlink"
        BY <2>3, Sentinels
  <2>10. i \in Index /\ es[i] \in IndexState
         BY <1>2, HomeFacts DEF Inv, CatalogInv
  <2>11. steady => on.idx = i /\ on.gen = es[i].gen /\ on.seq = Len(es[i].hist)
    <3>1. steady => p.ref.idx = i /\ p.ref.gen = es[i].gen
          BY <1>2, <2>4 DEF RefOK
    <3>2. p.guard = "match" => Len(es[i].hist) = p.ref.seq
          BY <1>4 DEF Accepts
    <3> QED BY <2>4, <3>1, <3>2
  <2>12. p.guard = "create" => ~Live(i)
         BY <1>4 DEF Accepts
  <2>13. p.guard \in {"create", "match", "none"}
         BY <1>2 DEF CallOK, ProcState
  <2>14. Live(i) => /\ ForIndex(p.name).policy # "create-only"
                    /\ AlwaysCreate /\ ForIndex(p.name).policy = "safe-create-update" => on # NoRef
         BY <2>3, <2>5, <2>12, <2>13 DEF Justified
  <2>15. Storable(i, v)
         BY <1>2, <2>3, <2>7, <2>8, <2>9, <2>11, <2>14 DEF Storable
  <2> QED BY <1>1, <1>2, <2>6, <2>15, AppliedStep
<1>5. \/ UNCHANGED es /\ \E s \in Statuses \ {"ok"} : Answered(t, s, p.ref, FALSE)
      \/ \E i \in WriteIndex(p.name) :
            /\ Accepts(i, p)
            /\ Applied(t, i, [live |-> TRUE, by |-> p.h, via |-> p.name, on |-> BasedOn(p),
                              steady |-> BasedOn(p) # NoRef /\ p.ref.at = moves[p.name]])
      BY <1>1 DEF EsPut, Rejected, Statuses
<1> QED BY <1>3, <1>4, <1>5

LEMMA EsDeleteInv ==
    ASSUME Inv, NEW t \in Proc, EsDelete(t)
    PROVE  Inv'
<1>1. PICK p : p = proc[t]
      OBVIOUS
<1>2. /\ p.kind = "unlink" /\ p.pc = "request" /\ CallOK(p) /\ p.name \in Name
      /\ UNCHANGED <<catalog, list, cache, entered, hd>>
      BY <1>1 DEF EsDelete, Inv, CallInv, CallGood, CallOK, ProcState
<1>3. PICK v : v = [live |-> FALSE, by |-> "unlink", via |-> p.name, on |-> NoRef, steady |-> FALSE]
      OBVIOUS
<1>4. /\ v.by = "unlink" /\ v.via = p.name /\ v.steady = FALSE /\ v \in Version
      BY <1>2, <1>3, NoRefOK DEF Version
<1>5. Visible(p.name) /\ ForIndex(p.name).delete
      BY <1>2 DEF CallOK
<1>6. ASSUME NEW i \in WriteIndex(p.name), Applied(t, i, v)
      PROVE  Inv'
  <2>1. Storable(i, v)
        BY <1>2, <1>4, <1>5, Sentinels DEF Storable
  <2> QED BY <1>1, <1>2, <1>6, <2>1, AppliedStep
<1>7. CASE UNCHANGED es /\ \E s \in Statuses \ {"ok"} : Answered(t, s, p.ref, FALSE)
      BY <1>1, <1>2, <1>7, NothingApplied
<1>8. \/ UNCHANGED es /\ \E s \in Statuses \ {"ok"} : Answered(t, s, p.ref, FALSE)
      \/ \E i \in WriteIndex(p.name) : Applied(t, i, v)
      BY <1>1, <1>3 DEF EsDelete, Rejected, Statuses
<1> QED BY <1>6, <1>7, <1>8

-----------------------------------------------------------------------------
(* Remounts, and other clients.                                            *)

LEMMA RemountInv == Inv /\ Remount => Inv'
<1> SUFFICES ASSUME Inv, Remount PROVE Inv'
    OBVIOUS
<1>1. CatalogInv' /\ HistoryInv' /\ RefsKept
      BY ServerUnchanged DEF Remount
<1>2. ClientInv'
      BY DEF Remount, ClientInv
<1>3. CacheInv'
      BY DEF Remount, CacheInv, NoRef, Ref, RefOK
<1>4. HandleInv'
  <2>1. PICK f, c : f = FreshHandle /\ c = [FreshHandle EXCEPT !.st = "closed"]
        OBVIOUS
  <2>2. f \in HandleState /\ c \in HandleState /\ f.meta = NoRef /\ c.meta = NoRef
        /\ HandleOK(f) /\ HandleOK(c)
        BY <2>1 DEF FreshHandle, HandleState, HandleOK
  <2>3. hd' = [h \in Handle |-> IF hd[h].st = "fresh" THEN f ELSE c]
        BY <2>1 DEF Remount
  <2>4. \A h \in Handle : hd'[h] \in {f, c}
        BY <2>3
  <2>5. hd' \in [Handle -> HandleState]
        BY <2>2, <2>3
  <2> QED BY <2>2, <2>4, <2>5 DEF HandleInv, HandleGood, RefOK
<1>5. CallInv' /\ Protocol'
  <2>1. PICK q : q = Idle
        OBVIOUS
  <2>2. CallOK(q) /\ q.h = None /\ q.ref = NoRef
        BY <2>1, IdleOK
  <2>3. proc' = [t \in Proc |-> q]
        BY <2>1 DEF Remount
  <2>4. q \in ProcState
        BY <2>2 DEF CallOK
  <2> QED BY <2>2, <2>3, <2>4 DEF CallInv, CallGood, RefOK, Protocol
<1> QED BY <1>1, <1>2, <1>3, <1>4, <1>5 DEF Inv

(* A step of Elasticsearch alone.                                          *)
LEMMA ExternalStep ==
    ASSUME Inv, CatalogInv', HistoryInv', RefsKept, UNCHANGED client
    PROVE  Inv'
<1>1. UNCHANGED <<list, cache, entered, hd, proc>>
      BY DEF client
<1>2. CacheInv' /\ HandleInv' /\ CallInv'
      BY <1>1, CacheUnchanged, HandlesKept, CallsUnchanged DEF Inv
<1>3. ClientInv' /\ Protocol'
      BY <1>1 DEF Inv, ClientInv, Protocol, Holding
<1> QED BY <1>2, <1>3 DEF Inv

LEMMA ExternalWriteInv ==
    ASSUME Inv, NEW i \in Index, ExternalWrite(i)
    PROVE  Inv'
<1>1. PICK v : v = [live |-> TRUE, by |-> "other", via |-> None, on |-> NoRef, steady |-> FALSE]
      OBVIOUS
<1>2. Store(i, v) /\ UNCHANGED <<catalog, client>>
      BY <1>1 DEF ExternalWrite
<1>3. Storable(i, v)
      BY <1>1, NoRefOK, Sentinels DEF Storable, Version
<1> QED BY <1>2, <1>3, StoreStep, ExternalStep

(* A name whose home moves is told so, and a home that moves is a number.  *)
LEMMA MovesOK ==
    ASSUME CatalogInv, Moved
    PROVE  moves' \in [Name -> Nat]
BY DEF CatalogInv, Moved

LEMMA RemoveIndexInv ==
    ASSUME Inv, NEW i \in Index, RemoveIndex(i)
    PROVE  Inv'
<1>1. PICK s, z : s = es[i] /\ z = [s EXCEPT !.open = FALSE]
      OBVIOUS
<1>2. /\ es \in [Index -> IndexState] /\ es' = [es EXCEPT ![i] = z]
      /\ UNCHANGED alias /\ changes' = changes + 1 /\ Moved /\ UNCHANGED client
      BY <1>1 DEF RemoveIndex, Change, Inv, CatalogInv
<1>3. z \in IndexState /\ z.gen = s.gen /\ z.hist = s.hist
      BY <1>1, <1>2 DEF IndexState
<1>4. /\ es' \in [Index -> IndexState]
      /\ \A j \in Index : es'[j] = IF j = i THEN z ELSE es[j]
      BY <1>2, <1>3
<1>5. CatalogInv'
      BY <1>2, <1>4, MovesOK DEF Inv, CatalogInv
<1>6. HistoryInv'
  <2>1. Sound(i, s)
        BY <1>1 DEF Inv, HistoryInv
  <2>2. Sound(i, z)
        BY <1>3, <2>1 DEF Sound, SoundAt
  <2> QED BY <1>4, <2>2 DEF Inv, HistoryInv
<1> QED BY <1>2, <1>5, <1>6, MovingKeepsRefs, ExternalStep DEF Inv

LEMMA CreateIndexInv ==
    ASSUME Inv, NEW i \in Index, CreateIndex(i)
    PROVE  Inv'
<1>1. PICK z : z = [open |-> TRUE, gen |-> es[i].gen + 1, hist |-> <<>>]
      OBVIOUS
<1>2. /\ es \in [Index -> IndexState] /\ es' = [es EXCEPT ![i] = z]
      /\ UNCHANGED <<alias, changes, client>> /\ Moved
      BY <1>1 DEF CreateIndex, Inv, CatalogInv
<1>3. es[i].gen \in Nat
      BY <1>2 DEF IndexState
<1>4. z \in IndexState /\ z.hist = <<>>
      BY <1>1, <1>3 DEF IndexState
<1>5. /\ es' \in [Index -> IndexState]
      /\ \A j \in Index : es'[j] = IF j = i THEN z ELSE es[j]
      BY <1>2, <1>4
<1>6. CatalogInv'
      BY <1>2, <1>5, MovesOK DEF Inv, CatalogInv
<1>7. HistoryInv'
  <2>1. Sound(i, z)
        BY <1>4 DEF Sound
  <2> QED BY <1>5, <2>1 DEF Inv, HistoryInv
<1> QED BY <1>2, <1>6, <1>7, MovingKeepsRefs, ExternalStep DEF Inv

LEMMA SwitchAliasInv ==
    ASSUME Inv, NEW a \in Alias, NEW s \in AliasState, SwitchAlias(a, s)
    PROVE  Inv'
<1>1. /\ alias' = [alias EXCEPT ![a] = s] /\ UNCHANGED es /\ changes' = changes + 1
      /\ Moved /\ UNCHANGED client /\ s.write \in s.members \cup {None}
      BY DEF SwitchAlias, Change
<1>2. CatalogInv'
      BY <1>1, MovesOK DEF Inv, CatalogInv
<1>3. HistoryInv'
      BY <1>1 DEF Inv, HistoryInv
<1> QED BY <1>1, <1>2, <1>3, MovingKeepsRefs, ExternalStep DEF Inv

-----------------------------------------------------------------------------
(* The invariant holds.                                                    *)

LEMMA InitInv == Init => Inv
<1> SUFFICES ASSUME Init PROVE Inv
    OBVIOUS
<1>1. CatalogInv
  <2>1. PICK z : z = [open |-> TRUE, gen |-> 0, hist |-> <<>>]
        OBVIOUS
  <2>2. z \in IndexState /\ es = [i \in Index |-> z]
        BY <2>1 DEF Init, IndexState
  <2>3. alias \in [Alias -> AliasState] /\ \A a \in Alias : alias[a].write = None
    <3>1. ASSUME NEW a \in Alias
          PROVE  alias[a] \in AliasState /\ alias[a].write = None
      <4>1. alias[a] \in {[members |-> {i}, write |-> None] : i \in Index}
            BY DEF Init
      <4>2. PICK i \in Index : alias[a] = [members |-> {i}, write |-> None]
            BY <4>1
      <4> QED BY <4>2 DEF AliasState
    <3>2. alias \in [Alias -> {[members |-> {i}, write |-> None] : i \in Index}]
          BY DEF Init
    <3> QED BY <3>1, <3>2
  <2> QED BY <2>2, <2>3 DEF Init, CatalogInv
<1>2. HistoryInv
  <2>1. PICK z : z = [open |-> TRUE, gen |-> 0, hist |-> <<>>]
        OBVIOUS
  <2>2. z \in IndexState /\ z.hist = <<>> /\ es = [i \in Index |-> z]
        BY <2>1 DEF Init, IndexState
  <2>3. ASSUME NEW i \in Index PROVE Sound(i, z)
        BY <2>2 DEF Sound
  <2> QED BY <2>2, <2>3 DEF HistoryInv
<1>3. ClientInv
      BY DEF Init, ClientInv
<1>4. CacheInv
      BY DEF Init, CacheInv, NoRef, Ref, RefOK
<1>5. HandleInv
  <2>1. PICK f : f = FreshHandle
        OBVIOUS
  <2>2. f \in HandleState /\ f.meta = NoRef /\ HandleOK(f)
        BY <2>1 DEF FreshHandle, HandleState, HandleOK
  <2>3. hd = [h \in Handle |-> f]
        BY <2>1 DEF Init
  <2> QED BY <2>2, <2>3 DEF HandleInv, HandleGood, RefOK
<1>6. CallInv /\ Protocol
  <2>1. PICK q : q = Idle
        OBVIOUS
  <2>2. CallOK(q) /\ q.h = None /\ q.ref = NoRef /\ q \in ProcState
        BY <2>1, IdleOK DEF CallOK
  <2>3. proc = [t \in Proc |-> q]
        BY <2>1 DEF Init
  <2> QED BY <2>2, <2>3 DEF CallInv, CallGood, RefOK, Protocol
<1> QED BY <1>1, <1>2, <1>3, <1>4, <1>5, <1>6 DEF Inv

LEMMA StutterInv == Inv /\ UNCHANGED vars => Inv'
<1> SUFFICES ASSUME Inv, UNCHANGED vars PROVE Inv'
    OBVIOUS
<1>1. UNCHANGED <<es, catalog, client>>
      BY DEF vars, client
<1> QED BY <1>1, ServerUnchanged, ExternalStep

LEMMA NextInv == Inv /\ [Next]_vars => Inv'
<1> SUFFICES ASSUME Inv, [Next]_vars PROVE Inv'
    OBVIOUS
<1>1. ASSUME NEW t \in Proc, Advance(t) PROVE Inv'
      BY <1>1, EsResolveInv, EsGetInv, EsPutInv, EsDeleteInv, ResolveDoneInv, ResolveFailedInv,
         GetDoneInv, SaveDoneInv, UnlinkDoneInv DEF Advance, Ended
<1>2. ASSUME NEW t \in Proc, NEW n \in Name, Lookup(t, n) \/ Read(t, n) \/ Unlink(t, n)
      PROVE  Inv'
      BY <1>2, LookupInv, ReadInv, UnlinkInv
<1>3. ASSUME NEW t \in Proc, NEW h \in Handle,
             Save(t, h) \/ \E n \in Name, fl \in Flags : OpenWrite(t, h, n, fl)
      PROVE  Inv'
      BY <1>3, SaveInv, OpenWriteInv
<1>4. ASSUME External PROVE Inv'
      BY <1>4, RemoveIndexInv, CreateIndexInv, ExternalWriteInv, SwitchAliasInv DEF External
<1>5. CASE UNCHANGED vars
      BY <1>5, StutterInv
<1> QED BY <1>1, <1>2, <1>3, <1>4, <1>5, ReleaseInv, ExpireDocInv, ExpireListInv, RemountInv
        DEF Next, Step

(* Everything the client, its cache, its handles and its calls know of the *)
(* catalog stays consistent with it, however it changes.                   *)
THEOREM Invariance == Spec => []Inv
<1>1. Init => Inv
      BY InitInv
<1>2. Inv /\ [Next]_vars => Inv'
      BY NextInv
<1> QED BY <1>1, <1>2, PTL DEF Spec

(* Every variable keeps its type.                                          *)
THEOREM TypeCorrect == Spec => []TypeOK
<1>1. Inv => TypeOK
      BY DEF Inv, CatalogInv, ClientInv, Visibly, CacheInv, HandleInv, CallInv, TypeOK
<1> QED BY <1>1, Invariance, PTL

(* No name that the allowlist or its leading dot hides is read, opened,    *)
(* saved or deleted through, for any allowlist and any stale list          *)
(* (esclient.go VisibleIndices, filterVisible; vfs.go Stat, OpenWrite).    *)
THEOREM AllowlistAlwaysHolds == Spec => []AllowlistHolds
<1>1. Inv => AllowlistHolds
  <2> SUFFICES ASSUME Inv PROVE AllowlistHolds
      OBVIOUS
  <2>1. ASSUME NEW t \in Proc, proc[t].pc \in {"request", "answered"} PROVE Visible(proc[t].name)
        BY <2>1 DEF Inv, CallInv, CallGood, CallOK
  <2>2. ASSUME NEW h \in Handle, hd[h].st \in {"open", "saving"} PROVE Visible(hd[h].name)
        BY <2>2 DEF Inv, HandleInv, HandleGood, HandleOK
  <2>3. ASSUME NEW i \in Index, NEW k \in 1..Len(es[i].hist), es[i].hist[k].by # "other"
        PROVE  Visible(es[i].hist[k].via)
        BY <2>3 DEF Inv, HistoryInv, Sound, SoundAt
  <2> QED BY <2>1, <2>2, <2>3 DEF AllowlistHolds
<1> QED BY <1>1, Invariance, PTL

(* A precondition that names a version is met by that version only, in the *)
(* index and the incarnation it was read from, while the name stays where  *)
(* it was (esclient.go Put, write.go Flush).                               *)
THEOREM SavesStayHome == Spec => []SaveStaysHome
<1>1. Inv => SaveStaysHome
      BY DEF Inv, HistoryInv, Sound, SoundAt, SaveStaysHome
<1> QED BY <1>1, Invariance, PTL

(* Whatever the overrides, every version and every deletion that the mount *)
(* stores obeys the policies of the name it used, provided that whoever    *)
(* opens a document that does not exist asks for it to be created          *)
(* (config.go ForIndex, write.go OpenWrite and Unlink, esclient.go Put).   *)
THEOREM PoliciesAlwaysHold ==
    ASSUME AlwaysCreate
    PROVE  Spec => []PoliciesHold
<1>1. Inv => PoliciesHold
  <2> SUFFICES ASSUME Inv, NEW i \in Index, NEW k \in 1..Len(es[i].hist), NEW v, v = es[i].hist[k]
               PROVE  /\ v.by = "unlink" => Says(v.via, "delete", TRUE)
                      /\ v.by \in Handle /\ k > 1 /\ es[i].hist[k - 1].live =>
                            /\ ~Says(v.via, "policy", "create-only")
                            /\ Says(v.via, "policy", "safe-create-update") => v.on # NoRef
      BY DEF PoliciesHold
  <2>1. SoundAt(i, es[i], k)
        BY DEF Inv, HistoryInv, Sound
  <2>2. v.by = "unlink" \/ v.by \in Handle => v.via \in Name
        BY <2>1, Sentinels DEF SoundAt
  <2>3. CASE v.by = "unlink"
        BY <2>1, <2>2, <2>3, ForIndexSays, Sentinels DEF SoundAt
  <2>4. CASE v.by \in Handle
    <3>1. /\ Says(v.via, "policy", "create-only") <=> ForIndex(v.via).policy = "create-only"
          /\ Says(v.via, "policy", "safe-create-update")
                <=> ForIndex(v.via).policy = "safe-create-update"
          BY <2>2, <2>4, ForIndexSays DEF Policies
    <3> QED BY <2>1, <2>4, <3>1, AlwaysCreate, Sentinels DEF SoundAt
  <2> QED BY <2>3, <2>4
<1> QED BY <1>1, Invariance, PTL

(* OK is told of what was done, and an error other than EIO of what was    *)
(* not (client.go statusError, contract/errors.go Errno).                  *)
THEOREM AnswersAreDefinite == Spec => []DefiniteAnswers
<1>1. Inv => DefiniteAnswers
  <2> SUFFICES ASSUME Inv, NEW t \in Proc, NEW p, p = proc[t],
                      p.pc = "answered", p.kind \in {"save", "unlink"}
               PROVE  /\ Told(p) = "OK" => p.applied
                      /\ Told(p) \notin {"OK", "EIO"} => ~p.applied
      BY DEF DefiniteAnswers
  <2>1. CallOK(p) /\ p \in ProcState
        BY DEF Inv, CallInv, CallGood, CallOK
  <2> QED BY <2>1, ErrnoFacts DEF CallOK
<1> QED BY <1>1, Invariance, PTL

-----------------------------------------------------------------------------
(* How a stale list of indices leaves.                                     *)

(* The answer l to _resolve/index is on its way into idxCache.             *)
Carries(p, l) == p.pc = "resolved" /\ p.list = l

(* A list that no longer says what there is does not come from             *)
(* Elasticsearch any more, and an answer on its way enters the cache once: *)
(* it returns at most as often as there were answers under way when it     *)
(* became stale.  With a list that expires, this is all of StaleListsLeave *)
(* that is not about fairness (ESClient.VisibleIndices).                   *)
StaleListsDwindle ==
    [][\A l \in Listing \ {VisibleIndices} :
         /\ \A t \in Proc : Carries(proc'[t], l) => Carries(proc[t], l)
         /\ list' = l =>
              \/ list = l
              \/ \E t \in Proc : Carries(proc[t], l) /\ ~Carries(proc'[t], l)]_vars

NoNewCarrier(l) == \A t \in Proc : Carries(proc'[t], l) => Carries(proc[t], l)
CarriedBy(l) ==
    list' = l =>
        \/ list = l
        \/ \E t \in Proc : Carries(proc[t], l) /\ ~Carries(proc'[t], l)

(* The call goes on without an answer to _resolve/index.                   *)
Unlisted(t) == \E p : Become(t, p) /\ p.pc # "resolved"

LEMMA UnlistedCarries ==
    ASSUME TypeOK, NEW t \in Proc, Unlisted(t), NEW l
    PROVE  NoNewCarrier(l) /\ ~Carries(proc'[t], l)
<1>1. PICK p : Become(t, p) /\ p.pc # "resolved"
      BY DEF Unlisted
<1>2. proc'[t] = p /\ \A u \in Proc \ {t} : proc'[u] = proc[u]
      BY <1>1 DEF Become, TypeOK
<1> QED BY <1>1, <1>2 DEF NoNewCarrier, Carries

LEMMA ReturnUnlisted ==
    ASSUME NEW t \in Proc, Return(t)
    PROVE  Unlisted(t)
BY DEF Return, Unlisted, Idle

(* However a call uses the list, it does not hold on to it.                *)
LEMMA ListedUnlisted ==
    ASSUME NEW t \in Proc, NEW p \in ProcState, NEW l, Listed(t, p, l)
    PROVE  Unlisted(t)
<1>1. CASE LookupListed(t, p, l)
      BY <1>1, ReturnUnlisted DEF LookupListed
<1>2. CASE OpenListed(t, p, l)
  <2> DEFINE q == [p EXCEPT !.pc = "request"]
  <2>1. q.pc = "request"
        BY DEF ProcState
  <2>2. Return(t) \/ Become(t, q)
        BY <1>2 DEF OpenListed, OpenGot, Refuse
  <2> HIDE DEF q
  <2> QED BY <2>1, <2>2, ReturnUnlisted DEF Unlisted
<1> QED BY <1>1, <1>2 DEF Listed

LEMMA AskListUnlisted ==
    ASSUME NEW t \in Proc, NEW p \in ProcState, AskList(t, p)
    PROVE  Unlisted(t) /\ UNCHANGED list
<1> DEFINE q == [p EXCEPT !.pc = "resolve"]
<1>1. q.pc = "resolve"
      BY DEF ProcState
<1>2. Listed(t, p, list) \/ Become(t, q)
      BY DEF AskList
<1>3. UNCHANGED list
      BY DEF AskList
<1> HIDE DEF q
<1> QED BY <1>1, <1>2, <1>3, ListedUnlisted DEF Unlisted

LEMMA AnsweredUnlisted ==
    ASSUME TypeOK, NEW t \in Proc, NEW s, NEW ref, NEW applied, Answered(t, s, ref, applied)
    PROVE  Unlisted(t)
<1> DEFINE p == [proc[t] EXCEPT !.pc = "answered", !.status = s, !.ref = ref, !.applied = applied]
<1>1. p.pc = "answered"
      BY DEF TypeOK, ProcState
<1>2. Become(t, p)
      BY DEF Answered
<1> HIDE DEF p
<1> QED BY <1>1, <1>2 DEF Unlisted

(* Calls of other kinds, and the beginnings of all.                        *)
LEMMA OthersUnlisted ==
    ASSUME TypeOK, NEW t \in Proc,
           \/ EsGet(t) \/ EsPut(t) \/ EsDelete(t)
           \/ ResolveFailed(t) \/ GetDone(t) \/ SaveDone(t) \/ UnlinkDone(t)
           \/ \E n \in Name : Lookup(t, n) \/ Read(t, n) \/ Unlink(t, n)
           \/ \E h \in Handle : Save(t, h) \/ \E n \in Name, fl \in Flags : OpenWrite(t, h, n, fl)
    PROVE  Unlisted(t) /\ UNCHANGED list
<1>1. CASE EsGet(t)
  <2>1. PICK s, ref : Become(t, [proc[t] EXCEPT !.pc = "answered", !.status = s, !.ref = ref])
        BY <1>1 DEF EsGet
  <2> DEFINE p == [proc[t] EXCEPT !.pc = "answered", !.status = s, !.ref = ref]
  <2>2. p.pc = "answered"
        BY DEF TypeOK, ProcState
  <2>3. Become(t, p) /\ UNCHANGED list
        BY <1>1, <2>1 DEF EsGet
  <2> HIDE DEF p
  <2> QED BY <2>2, <2>3 DEF Unlisted
<1>2. CASE EsPut(t) \/ EsDelete(t)
      BY <1>2, AnsweredUnlisted DEF EsPut, EsDelete, Applied, Rejected
<1>3. CASE ResolveFailed(t) \/ GetDone(t) \/ SaveDone(t) \/ UnlinkDone(t)
      BY <1>3, ReturnUnlisted DEF ResolveFailed, Refuse, GetDone, OpenGot, SaveDone, UnlinkDone
<1>4. ASSUME NEW n \in Name, Lookup(t, n) \/ Read(t, n) \/ Unlink(t, n)
      PROVE  Unlisted(t) /\ UNCHANGED list
  <2> DEFINE p == [Idle EXCEPT !.kind = "lookup", !.name = n]
             r == [Idle EXCEPT !.kind = "read", !.pc = "request", !.name = n]
             u == [Idle EXCEPT !.kind = "unlink", !.pc = "request", !.name = n]
  <2>1. p \in ProcState /\ r.pc = "request" /\ u.pc = "request"
        BY IdleOK DEF Idle, ProcState, CallOK
  <2>2. \/ AskList(t, p)
        \/ (Become(t, r) \/ Become(t, u)) /\ UNCHANGED list
        BY <1>4 DEF Lookup, Read, Unlink
  <2> HIDE DEF p, r, u
  <2> QED BY <2>1, <2>2, AskListUnlisted DEF Unlisted
<1>5. ASSUME NEW h \in Handle, Save(t, h)
      PROVE  Unlisted(t) /\ UNCHANGED list
  <2> DEFINE p == [Idle EXCEPT !.kind = "save", !.pc = "request", !.name = hd[h].name, !.h = h,
                               !.guard = PutGuard(h), !.ref = hd[h].meta]
  <2>1. p.pc = "request"
        BY DEF Idle
  <2>2. Become(t, p) /\ UNCHANGED list
        BY <1>5 DEF Save
  <2> HIDE DEF p
  <2> QED BY <2>1, <2>2 DEF Unlisted
<1>6. ASSUME NEW h \in Handle, NEW n \in Name, NEW fl \in Flags, OpenWrite(t, h, n, fl)
      PROVE  Unlisted(t) /\ UNCHANGED list
  <2> DEFINE p == [Idle EXCEPT !.kind = "open", !.name = n, !.h = h, !.flags = fl]
  <2>1. p \in ProcState
        BY IdleOK, FlagsAssumption DEF Idle, ProcState, CallOK
  <2>2. AskList(t, p)
        BY <1>6 DEF OpenWrite
  <2> HIDE DEF p
  <2> QED BY <2>1, <2>2, AskListUnlisted
<1> QED BY <1>1, <1>2, <1>3, <1>4, <1>5, <1>6

(* A list that has become stale is used up: for any number of goroutines,  *)
(* indices and aliases, however they change.                               *)
THEOREM StaleListsAlwaysDwindle == Spec => StaleListsDwindle
<1>1. ASSUME TypeOK, [Next]_vars, NEW l \in Listing \ {VisibleIndices}
      PROVE  NoNewCarrier(l) /\ CarriedBy(l)
  <2>1. l # NoList
    <3>1. CASE Name = {}
          BY <3>1 DEF Listing, NoList, VisibleIndices
    <3>2. CASE Name # {}
          BY <3>2 DEF Listing, NoList
    <3> QED BY <3>1, <3>2
  <2>2. ASSUME NEW t \in Proc, Unlisted(t), UNCHANGED list
        PROVE  NoNewCarrier(l) /\ CarriedBy(l)
        BY <1>1, <2>2, UnlistedCarries DEF CarriedBy
  <2>3. ASSUME NEW t \in Proc, EsResolve(t) PROVE NoNewCarrier(l) /\ CarriedBy(l)
    <3> DEFINE p == [proc[t] EXCEPT !.pc = "resolved", !.list = VisibleIndices]
    <3>1. Become(t, p) /\ UNCHANGED list
          BY <2>3 DEF EsResolve
    <3>2. p.list = VisibleIndices
          BY <1>1 DEF TypeOK, ProcState
    <3> HIDE DEF p
    <3>3. proc'[t] = p /\ \A u \in Proc \ {t} : proc'[u] = proc[u]
          BY <1>1, <3>1 DEF Become, TypeOK
    <3> QED BY <3>1, <3>2, <3>3 DEF NoNewCarrier, CarriedBy, Carries
  <2>4. ASSUME NEW t \in Proc, ResolveDone(t) PROVE NoNewCarrier(l) /\ CarriedBy(l)
    <3>1. proc[t] \in ProcState
          BY <1>1 DEF TypeOK
    <3>2. Unlisted(t) /\ list' = proc[t].list /\ proc[t].pc = "resolved"
          BY <2>4, <3>1, ListedUnlisted DEF ResolveDone
    <3> QED BY <1>1, <3>2, UnlistedCarries DEF CarriedBy, Carries
  <2>5. CASE UNCHANGED <<list, proc>>
        BY <2>5 DEF NoNewCarrier, CarriedBy
  <2>6. CASE ExpireList
        BY <2>1, <2>6 DEF ExpireList, NoNewCarrier, CarriedBy
  <2>7. CASE Remount
    <3>1. list' = NoList /\ \A t \in Proc : proc'[t].pc = "idle"
          BY <2>7 DEF Remount, Idle
    <3> QED BY <2>1, <3>1 DEF NoNewCarrier, CarriedBy, Carries
  <2>8. ASSUME NEW t \in Proc, Step(t) PROVE NoNewCarrier(l) /\ CarriedBy(l)
        BY <1>1, <2>2, <2>3, <2>4, <2>8, OthersUnlisted DEF Step, Advance, Ended
  <2>9. CASE (\E h \in Handle : Release(h)) \/ (\E n \in Name : ExpireDoc(n)) \/ External
        BY <2>5, <2>9 DEF Release, ExpireDoc, External, RemoveIndex, CreateIndex, ExternalWrite,
           SwitchAlias, Change, client
  <2> QED BY <1>1, <2>5, <2>6, <2>7, <2>8, <2>9 DEF Next, vars
<1>2. TypeOK /\ [Next]_vars =>
        [\A l \in Listing \ {VisibleIndices} :
           /\ \A t \in Proc : Carries(proc'[t], l) => Carries(proc[t], l)
           /\ list' = l =>
                \/ list = l
                \/ \E t \in Proc : Carries(proc[t], l) /\ ~Carries(proc'[t], l)]_vars
      BY <1>1 DEF NoNewCarrier, CarriedBy
<1> QED BY <1>2, TypeCorrect, PTL DEF Spec, StaleListsDwindle
==============================================================================
