------------------------------- MODULE Catalog -------------------------------
(***************************************************************************)
(* Names, the catalog and the policies: how the client decides, from a     *)
(* cached list of indices and aliases, which names exist and which accept  *)
(* writes (ESClient.VisibleIndices, IndexInfo), how the configuration      *)
(* gives each name its policies (Config.ForIndex), what saves and deletes  *)
(* through a name then do, and which errno the caller is told              *)
(* (statusError, contract.Errno).                                          *)
(*                                                                         *)
(* Elasticsearch is external: indices that are removed and created anew,   *)
(* whose _seq_no then starts again, and aliases whose indices change.  One *)
(* document id.  The staging buffer, shared descriptors and requests that  *)
(* are applied after the client has given up are in WritePath.             *)
(***************************************************************************)
EXTENDS Naturals, Sequences

CONSTANTS
    Index,          \* concrete indices
    Alias,          \* aliases
    Hidden,         \* names with a leading dot
    Allow,          \* Config.VisibleIndices; {} exposes all
    Global,         \* the global write_policy and delete_sync
    Overrides,      \* Config.Indices, by name; None inherits
    Flags,          \* the flags that openers use
    Handle,         \* writable opens; each value is used for one open
    Proc,           \* goroutines serving FUSE requests
    None,
    MaxVersions,    \* bound: versions an index's document may get, by index
    MaxChanges      \* bound: changes of indices and aliases

Name == Index \cup Alias
Policies == {"safe-create-update", "create-only", "upsert-new-files"}
IndexSettings == [policy : Policies \cup {None}, delete : BOOLEAN \cup {None}]
OpenFlags == [create : BOOLEAN, excl : BOOLEAN]

ASSUME NamesAssumption == Index \cap Alias = {} /\ Hidden \subseteq Name /\ Allow \subseteq Name
ASSUME GlobalAssumption == Global \in [policy : Policies, delete : BOOLEAN]
ASSUME OverridesAssumption ==
    DOMAIN Overrides \subseteq Name /\ Overrides \in [DOMAIN Overrides -> IndexSettings]
ASSUME FlagsAssumption == Flags \subseteq OpenFlags
ASSUME BoundsAssumption == MaxVersions \in [Index -> Nat] /\ MaxChanges \in Nat
ASSUME SentinelAssumption ==
    /\ None \notin Index \cup Alias \cup Handle
    /\ None \notin Policies /\ None \notin BOOLEAN
    /\ Handle \cap {"unlink", "other"} = {}

VARIABLES
    es,         \* Elasticsearch: each index's incarnation and its document's versions
    alias,      \* Elasticsearch: each alias's indices and its write index, if it names one
    moves,      \* history: how often what a name means has changed
    changes,    \* history: changes of the catalog so far
    list,       \* idxCache: what the cached list says of each name
    cache,      \* docCache, which is keyed by name
    entered,    \* index directories the kernel has looked up
    hd,         \* the vfs.Handle of each open
    proc        \* what each goroutine is doing

catalog == <<alias, moves, changes>>
vars == <<es, catalog, list, cache, entered, hd, proc>>

-----------------------------------------------------------------------------
(* Elasticsearch.                                                          *)

(* A version of the document that a client knows: the index, incarnation   *)
(* and _seq_no, and how often the name it was asked by had moved.          *)
Ref == [idx : Index \cup {None}, gen : Nat, seq : Nat, at : Nat]
NoRef == [idx |-> None, gen |-> 0, seq |-> 0, at |-> 0]

(* A stored version: live or deleted, by which handle (or unlink), through *)
(* which name, the version its precondition named, and whether the name    *)
(* had not moved since that was read.                                      *)
Version == [live : BOOLEAN, by : Handle \cup {"unlink", "other"}, via : Name \cup {None},
            on : Ref, steady : BOOLEAN]
IndexState == [open : BOOLEAN, gen : Nat, hist : Seq(Version)]
AliasState == [members : (SUBSET Index) \ {{}}, write : Index \cup {None}]

Members(n) == IF n \in Alias THEN alias[n].members ELSE IF es[n].open THEN {n} ELSE {}
Single(n) == \E i \in Index : Members(n) = {i}

(* The index a write through the name goes to, as a set of at most one.    *)
WriteIndex(n) ==
    IF n \in Alias /\ alias[n].write # None THEN {alias[n].write}
    ELSE IF Single(n) THEN Members(n) ELSE {}

(* What the name means to reads and to writes.                             *)
Home(n) == <<{<<i, es[i].gen>> : i \in Members(n)}, WriteIndex(n)>>

Live(i) == es[i].hist # <<>> /\ es[i].hist[Len(es[i].hist)].live

Store(i, v) ==
    /\ Len(es[i].hist) < MaxVersions[i]
    /\ es' = [es EXCEPT ![i].hist = Append(@, v)]

-----------------------------------------------------------------------------
(* Configuration and errors.                                               *)

(* Mutant: the overrides of an index are not looked at.                    *)
ForIndexGlobal(n) == Global

ForIndex(n) ==
    LET s == IF n \in DOMAIN Overrides THEN Overrides[n] ELSE [policy |-> None, delete |-> None]
    IN [policy |-> IF s.policy = None THEN Global.policy ELSE s.policy,
        delete |-> IF s.delete = None THEN Global.delete ELSE s.delete]

(* An answer's status by what it says; "unavailable" is no answer as well.  *)
Statuses == {"ok", "notFound", "denied", "conflict", "badRequest", "unavailable"}

(* Mutant: a gateway's timeout is taken for a refusal.                     *)
statusErrorHasty(s) ==
    CASE s = "notFound" -> "NotFound"
      [] s = "denied" -> "Permission"
      [] s = "conflict" -> "Conflict"
      [] s = "badRequest" -> "Usage"
      [] s = "unavailable" -> "Usage"
      [] OTHER -> "Upstream"

statusError(s) ==
    CASE s = "notFound" -> "NotFound"
      [] s = "denied" -> "Permission"
      [] s = "conflict" -> "Conflict"
      [] s = "badRequest" -> "Usage"
      [] OTHER -> "Upstream"

Errno(kind) ==
    CASE kind = "none" -> "OK"
      [] kind = "NotFound" -> "ENOENT"
      [] kind = "Permission" -> "EACCES"
      [] kind = "ReadOnly" -> "EROFS"
      [] kind = "Unsupported" -> "EPERM"
      [] kind = "Usage" -> "EINVAL"
      [] kind = "Conflict" -> "EAGAIN"
      [] OTHER -> "EIO"

(* What the caller of a call is told, by the status of its answer.         *)
Told(p) == Errno(IF p.status = "ok" THEN "none" ELSE statusError(p.status))

-----------------------------------------------------------------------------
(* State of the client.                                                    *)

(* What VisibleIndices answers of a name: "single" is a concrete index or  *)
(* an alias of exactly one, which WriteTarget then names.                  *)
Listing == [Name -> {"absent", "single", "several"}]
NoList == [n \in Name |-> "unknown"]

HandleState ==
    [st : {"fresh", "opening", "closed"}, name : {None}, createOnly : {FALSE}, meta : {NoRef}]
    \cup [st : {"open", "saving"}, name : Name, createOnly : BOOLEAN, meta : Ref]
FreshHandle == [st |-> "fresh", name |-> None, createOnly |-> FALSE, meta |-> NoRef]

ProcState == [kind : {"idle", "lookup", "open", "read", "save", "unlink"},
              pc : {"idle", "resolve", "resolved", "request", "answered"},
              name : Name \cup {None}, h : Handle \cup {None}, flags : OpenFlags \cup {None},
              guard : {"create", "match", "none"}, ref : Ref,
              list : Listing \cup {NoList}, status : Statuses, applied : BOOLEAN]
Idle == [kind |-> "idle", pc |-> "idle", name |-> None, h |-> None, flags |-> None,
         guard |-> "none", ref |-> NoRef, list |-> NoList, status |-> "ok", applied |-> FALSE]

Init ==
    /\ es = [i \in Index |-> [open |-> TRUE, gen |-> 0, hist |-> <<>>]]
    /\ alias \in [Alias -> {[members |-> {i}, write |-> None] : i \in Index}]
    /\ moves = [n \in Name |-> 0]
    /\ changes = 0
    /\ list = NoList
    /\ cache = [n \in Name |-> NoRef]
    /\ entered = {}
    /\ hd = [h \in Handle |-> FreshHandle]
    /\ proc = [t \in Proc |-> Idle]

Become(t, p) == proc' = [proc EXCEPT ![t] = p]

Return(t) == Become(t, Idle)

-----------------------------------------------------------------------------
(* The list of indices.                                                    *)

(* Mutant: an allowlist is not applied to what the list says.              *)
filterNothing(l) == l

(* The cached list is unfiltered; the allowlist applies to every use.      *)
filterVisible(l) == [n \in Name |-> IF Allow = {} \/ n \in Allow THEN l[n] ELSE "absent"]

IndexInfo(l, n) == filterVisible(l)[n]

(* What VisibleIndices makes of the answer of _resolve/index.              *)
VisibleIndices ==
    [n \in Name |-> IF n \in Hidden \/ Members(n) = {} THEN "absent"
                    ELSE IF Single(n) THEN "single" ELSE "several"]

(* VFS.Stat of an index directory: the kernel may use it from then on, or  *)
(* is told ENOENT.                                                         *)
LookupListed(t, p, l) ==
    /\ entered' = IF IndexInfo(l, p.name) = "absent" THEN entered ELSE entered \cup {p.name}
    /\ Return(t)
    /\ UNCHANGED hd

-----------------------------------------------------------------------------
(* VFS.OpenWrite.                                                          *)

(* Mutant: a refused open leaves the handle that it had begun to build.    *)
RefuseHalfway(t, p) ==
    /\ Return(t)
    /\ hd' = [hd EXCEPT ![p.h] = [FreshHandle EXCEPT !.st = "open"]]

Refuse(t, p) ==
    /\ Return(t)
    /\ hd' = [hd EXCEPT ![p.h] = FreshHandle]

(* Get found version ref of the document, or nothing, or failed (NoRef).   *)
OpenGot(t, p, ref) ==
    IF p.flags.excl /\ ref # NoRef
    THEN Refuse(t, p)                                   \* KindConflict
    ELSE /\ Return(t)
         /\ hd' = [hd EXCEPT ![p.h] =
                [st |-> "open", name |-> p.name, meta |-> ref,
                 createOnly |-> \/ p.flags.excl
                                \/ /\ ref = NoRef /\ p.flags.create
                                   /\ ForIndex(p.name).policy = "safe-create-update"]]

(* KindNotFound for a name that is not visible, KindUnsupported for an     *)
(* alias that has no single index; what is cached of the document is used. *)
OpenListed(t, p, l) ==
    /\ \/ IndexInfo(l, p.name) # "single" /\ Refuse(t, p)
       \/ IndexInfo(l, p.name) = "single" /\ cache[p.name] # NoRef /\ OpenGot(t, p, cache[p.name])
       \/ /\ IndexInfo(l, p.name) = "single" /\ cache[p.name] = NoRef
          /\ Become(t, [p EXCEPT !.pc = "request"])
          /\ hd' = [hd EXCEPT ![p.h] = [@ EXCEPT !.st = "opening"]]
    /\ UNCHANGED entered

Listed(t, p, l) ==
    \/ p.kind = "lookup" /\ LookupListed(t, p, l)
    \/ p.kind = "open" /\ OpenListed(t, p, l)

(* A call that begins with IndexInfo finds the list cached, or asks for it. *)
AskList(t, p) ==
    /\ proc[t].kind = "idle"
    /\ \/ list # NoList /\ Listed(t, p, list)
       \/ /\ list = NoList
          /\ Become(t, [p EXCEPT !.pc = "resolve"])
          /\ hd' = IF p.kind = "open" THEN [hd EXCEPT ![p.h] = [@ EXCEPT !.st = "opening"]] ELSE hd
          /\ UNCHANGED entered
    /\ UNCHANGED <<es, catalog, list, cache>>

Lookup(t, n) == AskList(t, [Idle EXCEPT !.kind = "lookup", !.name = n])

(* The kernel opens a document in a directory that it has looked up.       *)
OpenWrite(t, h, n, fl) ==
    /\ hd[h].st = "fresh" /\ n \in entered
    /\ AskList(t, [Idle EXCEPT !.kind = "open", !.name = n, !.h = h, !.flags = fl])

EsResolve(t) ==
    /\ proc[t].pc = "resolve"
    /\ Become(t, [proc[t] EXCEPT !.pc = "resolved", !.list = VisibleIndices])
    /\ UNCHANGED <<es, catalog, list, cache, entered, hd>>

ResolveDone(t) ==
    /\ proc[t].pc = "resolved"
    /\ list' = proc[t].list
    /\ Listed(t, proc[t], proc[t].list)
    /\ UNCHANGED <<es, catalog, cache>>

ResolveFailed(t) ==
    /\ proc[t].pc = "resolve"
    /\ IF proc[t].kind = "open" THEN Refuse(t, proc[t]) ELSE Return(t) /\ UNCHANGED hd
    /\ UNCHANGED <<es, catalog, list, cache, entered>>

(* Mutant: only a list that is still true expires.                          *)
ExpireListNever ==
    /\ list # NoList /\ list = VisibleIndices
    /\ list' = NoList
    /\ UNCHANGED <<es, catalog, cache, entered, hd, proc>>

ExpireList ==
    /\ list # NoList
    /\ list' = NoList
    /\ UNCHANGED <<es, catalog, cache, entered, hd, proc>>

-----------------------------------------------------------------------------
(* ESClient.Get.                                                           *)

(* VFS.Stat and ReadAll of the document, by way of its directory.          *)
Read(t, n) ==
    /\ proc[t].kind = "idle" /\ n \in entered /\ cache[n] = NoRef
    /\ Become(t, [Idle EXCEPT !.kind = "read", !.pc = "request", !.name = n])
    /\ UNCHANGED <<es, catalog, list, cache, entered, hd>>

Getting(t) == proc[t].kind \in {"read", "open"}

(* Elasticsearch refuses to get a document through several indices.        *)
EsGet(t) ==
    /\ Getting(t) /\ proc[t].pc = "request"
    /\ LET n == proc[t].name
           Answer(s, ref) == Become(t, [proc[t] EXCEPT !.pc = "answered", !.status = s, !.ref = ref])
       IN \/ Members(n) = {} /\ Answer("notFound", NoRef)
          \/ Members(n) # {} /\ ~Single(n) /\ Answer("badRequest", NoRef)
          \/ /\ Single(n)
             /\ \E i \in Members(n) :
                   IF Live(i)
                   THEN Answer("ok", [idx |-> i, gen |-> es[i].gen,
                                      seq |-> Len(es[i].hist), at |-> moves[n]])
                   ELSE Answer("notFound", NoRef)
          \/ Answer("unavailable", NoRef)
    /\ UNCHANGED <<es, catalog, list, cache, entered, hd>>

(* Mutant: the document cache is keyed by the document's id alone.         *)
CachedById(n, ref) == [m \in Name |-> ref]

Cached(n, ref) == [cache EXCEPT ![n] = ref]

GetDone(t) ==
    /\ Getting(t) /\ proc[t].pc = "answered"
    /\ LET p == proc[t] IN
       /\ cache' = IF p.status = "ok" THEN Cached(p.name, p.ref) ELSE cache
       /\ \/ p.kind = "open" /\ OpenGot(t, p, p.ref)
          \/ /\ p.kind = "read"
             /\ Return(t) /\ UNCHANGED hd
    /\ UNCHANGED <<es, catalog, list, entered>>

ExpireDoc(n) ==
    /\ cache[n] # NoRef
    /\ cache' = [cache EXCEPT ![n] = NoRef]
    /\ UNCHANGED <<es, catalog, list, entered, hd, proc>>

-----------------------------------------------------------------------------
(* ESClient.Put under Handle.Flush, and ESClient.Delete under VFS.Unlink.  *)

PutGuard(h) ==
    LET policy == ForIndex(hd[h].name).policy IN
    IF hd[h].createOnly \/ policy = "create-only" THEN "create"
    ELSE IF policy = "safe-create-update" /\ hd[h].meta # NoRef THEN "match" ELSE "none"

(* A flush of an edited buffer; its path names the name, not WriteTarget.  *)
Save(t, h) ==
    /\ proc[t].kind = "idle" /\ hd[h].st = "open"
    /\ Become(t, [Idle EXCEPT !.kind = "save", !.pc = "request", !.name = hd[h].name, !.h = h,
                              !.guard = PutGuard(h), !.ref = hd[h].meta])
    /\ hd' = [hd EXCEPT ![h] = [@ EXCEPT !.st = "saving"]]
    /\ UNCHANGED <<es, catalog, list, cache, entered>>

Accepts(i, p) ==
    \/ p.guard = "create" /\ ~Live(i)
    \/ p.guard = "match" /\ Live(i) /\ Len(es[i].hist) = p.ref.seq
    \/ p.guard = "none"

Answered(t, s, ref, applied) ==
    Become(t, [proc[t] EXCEPT !.pc = "answered", !.status = s, !.ref = ref, !.applied = applied])

(* A request that is refused before it does anything.                      *)
Rejected(t) ==
    /\ \E s \in {"denied", "unavailable"} : Answered(t, s, proc[t].ref, FALSE)
    /\ UNCHANGED es

(* A write is acknowledged, unless the acknowledgement is lost on its way. *)
(* Assumed of Elasticsearch and what is before it: 400, 401, 403, 404 and  *)
(* 409 say that nothing was done, and a PUT or DELETE is not redirected.   *)
Applied(t, i, v) ==
    /\ Store(i, v)
    /\ \E s \in {"ok", "unavailable"} :
          Answered(t, s, [idx |-> i, gen |-> es[i].gen, seq |-> Len(es[i].hist) + 1,
                         at |-> moves[proc[t].name]], TRUE)

(* The version that p.guard lets through was based on.                     *)
BasedOn(p) == IF p.guard = "match" THEN p.ref ELSE NoRef

EsPut(t) ==
    /\ proc[t].kind = "save" /\ proc[t].pc = "request"
    /\ LET p == proc[t] IN
       \/ WriteIndex(p.name) = {} /\ Answered(t, IF p.name \in Alias THEN "badRequest" ELSE "notFound", p.ref, FALSE)
          /\ UNCHANGED es
       \/ \E i \in WriteIndex(p.name) :
             \/ /\ Accepts(i, p)
                /\ Applied(t, i, [live |-> TRUE, by |-> p.h, via |-> p.name, on |-> BasedOn(p),
                                  steady |-> BasedOn(p) # NoRef /\ p.ref.at = moves[p.name]])
             \/ ~Accepts(i, p) /\ Answered(t, "conflict", p.ref, FALSE) /\ UNCHANGED es
       \/ Rejected(t)
    /\ UNCHANGED <<catalog, list, cache, entered, hd>>

SaveDone(t) ==
    /\ proc[t].kind = "save" /\ proc[t].pc = "answered"
    /\ LET p == proc[t]
           stored == [hd[p.h] EXCEPT !.st = "open", !.meta = p.ref, !.createOnly = FALSE]
           kept == [hd[p.h] EXCEPT !.st = "open"]
       IN /\ cache' = IF p.status = "ok" THEN Cached(p.name, p.ref) ELSE cache
          /\ hd' = [hd EXCEPT ![p.h] = IF p.status = "ok" THEN stored ELSE kept]
          /\ Return(t)
    /\ UNCHANGED <<es, catalog, list, entered>>

Release(h) ==
    /\ hd[h].st = "open"
    /\ hd' = [hd EXCEPT ![h] = [FreshHandle EXCEPT !.st = "closed"]]
    /\ UNCHANGED <<es, catalog, list, cache, entered, proc>>

(* VFS.Unlink looks at the policy of the name and at nothing else.         *)
Unlink(t, n) ==
    /\ proc[t].kind = "idle" /\ n \in entered
    /\ ForIndex(n).delete                               \* else KindReadOnly
    /\ Become(t, [Idle EXCEPT !.kind = "unlink", !.pc = "request", !.name = n])
    /\ UNCHANGED <<es, catalog, list, cache, entered, hd>>

EsDelete(t) ==
    /\ proc[t].kind = "unlink" /\ proc[t].pc = "request"
    /\ LET p == proc[t] IN
       \/ WriteIndex(p.name) = {} /\ Answered(t, IF p.name \in Alias THEN "badRequest" ELSE "notFound", p.ref, FALSE)
          /\ UNCHANGED es
       \/ \E i \in WriteIndex(p.name) :
             \/ /\ Live(i)
                /\ Applied(t, i, [live |-> FALSE, by |-> "unlink", via |-> p.name,
                                  on |-> NoRef, steady |-> FALSE])
             \/ ~Live(i) /\ Answered(t, "notFound", p.ref, FALSE) /\ UNCHANGED es
       \/ Rejected(t)
    /\ UNCHANGED <<catalog, list, cache, entered, hd>>

UnlinkDone(t) ==
    /\ proc[t].kind = "unlink" /\ proc[t].pc = "answered"
    /\ LET p == proc[t] IN
       /\ cache' = IF p.status = "ok" THEN [cache EXCEPT ![p.name] = NoRef] ELSE cache
       /\ Return(t)
    /\ UNCHANGED <<es, catalog, list, entered, hd>>

(* A crash or an unmount, and a new mount.                                 *)
Remount ==
    /\ list' = NoList
    /\ cache' = [n \in Name |-> NoRef]
    /\ entered' = {}
    /\ hd' = [h \in Handle |-> IF hd[h].st = "fresh" THEN FreshHandle ELSE [FreshHandle EXCEPT !.st = "closed"]]
    /\ proc' = [t \in Proc |-> Idle]
    /\ UNCHANGED <<es, catalog>>

-----------------------------------------------------------------------------
(* Other clients of Elasticsearch.                                         *)

client == <<list, cache, entered, hd, proc>>

Moved == moves' = [n \in Name |-> IF Home(n)' = Home(n) THEN moves[n] ELSE moves[n] + 1]

Change ==
    /\ changes < MaxChanges
    /\ changes' = changes + 1
    /\ Moved
    /\ UNCHANGED client

ExternalWrite(i) ==
    /\ es[i].open
    /\ Store(i, [live |-> TRUE, by |-> "other", via |-> None, on |-> NoRef, steady |-> FALSE])
    /\ UNCHANGED <<catalog, client>>

(* An index that aliases name is taken out of them before it is removed.   *)
RemoveIndex(i) ==
    /\ es[i].open /\ \A a \in Alias : i \notin alias[a].members
    /\ es' = [es EXCEPT ![i] = [@ EXCEPT !.open = FALSE]]
    /\ UNCHANGED alias
    /\ Change

(* By another client, or by a write that names it, where Elasticsearch is  *)
(* set to create indices that way.                                         *)
CreateIndex(i) ==
    /\ ~es[i].open
    /\ es' = [es EXCEPT ![i] = [open |-> TRUE, gen |-> @.gen + 1, hist |-> <<>>]]
    /\ UNCHANGED <<alias, changes, client>>
    /\ Moved

(* Rollover, a switch, or an index that is added or taken out.             *)
SwitchAlias(a, s) ==
    /\ s # alias[a] /\ s.write \in s.members \cup {None}
    /\ \A i \in s.members : es[i].open
    /\ alias' = [alias EXCEPT ![a] = s]
    /\ UNCHANGED es
    /\ Change

-----------------------------------------------------------------------------

Ended(t) == ResolveDone(t) \/ ResolveFailed(t) \/ GetDone(t) \/ SaveDone(t) \/ UnlinkDone(t)

Advance(t) == EsResolve(t) \/ EsGet(t) \/ EsPut(t) \/ EsDelete(t) \/ Ended(t)

Step(t) ==
    \/ Advance(t)
    \/ \E n \in Name : Lookup(t, n) \/ Read(t, n) \/ Unlink(t, n)
    \/ \E h \in Handle : Save(t, h) \/ \E n \in Name, fl \in Flags : OpenWrite(t, h, n, fl)

External ==
    \/ \E i \in Index : RemoveIndex(i) \/ CreateIndex(i) \/ ExternalWrite(i)
    \/ \E a \in Alias, s \in AliasState : SwitchAlias(a, s)

Next ==
    \/ \E t \in Proc : Step(t)
    \/ \E h \in Handle : Release(h)
    \/ \E n \in Name : ExpireDoc(n)
    \/ ExpireList \/ Remount \/ External

Spec == Init /\ [][Next]_vars

(* Requests end (client.go:43) and entries expire, as the TTL is positive. *)
Fairness ==
    /\ \A t \in Proc : WF_vars(Advance(t))
    /\ WF_vars(ExpireList)

FairSpec == Spec /\ Fairness

-----------------------------------------------------------------------------
(* Properties.                                                             *)

TypeOK ==
    /\ es \in [Index -> IndexState]
    /\ alias \in [Alias -> AliasState]
    /\ moves \in [Name -> Nat]
    /\ changes \in Nat
    /\ list \in Listing \cup {NoList}
    /\ cache \in [Name -> Ref]
    /\ entered \subseteq Name
    /\ hd \in [Handle -> HandleState]
    /\ proc \in [Proc -> ProcState]

Visible(n) == n \notin Hidden /\ (Allow = {} \/ n \in Allow)

(* Nothing outside the allowlist is reached, and no hidden name: no        *)
(* document is asked for, opened, stored or deleted through such a name,   *)
(* though only lookups and opens check it (docs/CONTRACTS.md:26).          *)
AllowlistHolds ==
    /\ \A t \in Proc : proc[t].pc \in {"request", "answered"} => Visible(proc[t].name)
    /\ \A h \in Handle : hd[h].st \in {"open", "saving"} => Visible(hd[h].name)
    /\ \A i \in Index : \A k \in 1..Len(es[i].hist) :
          es[i].hist[k].by # "other" => Visible(es[i].hist[k].via)

(* A save whose precondition names a version goes to the index, and the    *)
(* incarnation of it, that the version was read from or written to, as     *)
(* long as the name has not moved since; and it replaces that version.     *)
SaveStaysHome ==
    \A i \in Index : \A k \in 1..Len(es[i].hist) :
        LET v == es[i].hist[k] IN
        v.steady => v.on.idx = i /\ v.on.gen = es[i].gen /\ v.on.seq = k - 1

(* The configuration says so for that name, itself or by inheritance.      *)
Says(n, setting, value) ==
    IF n \in DOMAIN Overrides /\ Overrides[n][setting] # None
    THEN Overrides[n][setting] = value ELSE Global[setting] = value

(* The mount does in an index only what the policies of the name it used   *)
(* allow: nothing is deleted where delete_sync is off, create-only names   *)
(* never replace a live version, and safe-create-update names only with a  *)
(* precondition that names one (docs/CONTRACTS.md:48).                     *)
PoliciesHold ==
    \A i \in Index : \A k \in 1..Len(es[i].hist) :
        LET v == es[i].hist[k] IN
        /\ v.by = "unlink" => Says(v.via, "delete", TRUE)
        /\ v.by \in Handle /\ k > 1 /\ es[i].hist[k - 1].live =>
              /\ ~Says(v.via, "policy", "create-only")
              /\ Says(v.via, "policy", "safe-create-update") => v.on # NoRef

(* What the caller of a save or a delete is told is so: success, and only  *)
(* it, means that the change was made; any error but EIO that it was not   *)
(* (docs/CONTRACTS.md:58).                                                 *)
DefiniteAnswers ==
    \A t \in Proc : proc[t].pc = "answered" /\ proc[t].kind \in {"save", "unlink"} =>
        /\ Told(proc[t]) = "OK" => proc[t].applied
        /\ Told(proc[t]) \notin {"OK", "EIO"} => ~proc[t].applied

(* Once indices and aliases stop changing, the list that admits writes     *)
(* comes to agree with them, whatever answers were still on their way.     *)
StaleListsLeave == <>[](list # NoList => list = VisibleIndices)
==============================================================================
