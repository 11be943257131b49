------------------------------ MODULE WritePath ------------------------------
(***************************************************************************)
(* The write path of ESFS: vfs.Handle (internal/vfs/write.go) over         *)
(* ESClient.Get/Put/Delete (internal/escore/esclient.go), the document     *)
(* cache they share and the sync tracker, as driven by concurrent FUSE     *)
(* requests (internal/fusefs/fusefs.go), one goroutine per request.        *)
(*                                                                         *)
(* Every call is split where the code waits: for the request semaphore and *)
(* for Elasticsearch.  Elasticsearch is external: a document is its        *)
(* history of versions, its _seq_no is the length of that history, and a   *)
(* request the client gave up on may still be applied later.               *)
(*                                                                         *)
(* One index, whose names are all raw-safe (rememberHashed returns early). *)
(* An open that fails in IndexInfo changes nothing and is left out.        *)
(***************************************************************************)
EXTENDS Naturals, Sequences, FiniteSets

CONSTANTS
    Doc,            \* document ids of the index
    Handle,         \* writable opens; each value is used for one successful open
    Proc,           \* goroutines serving FUSE requests
    Body,           \* JSON objects, up to formatting
    None,           \* no handle; the author of a change made outside the mount
    Absent,         \* the value of a deleted version
    Empty, Broken,  \* staged bytes: none at all; some, but not a JSON object
    Policy,         \* the index's WritePolicy
    Flags,          \* the OpenFlags that openers use
    SharedFd,       \* TRUE: a descriptor may be written to after, and while, it is flushed
    MaxVersions,    \* bound: versions a document may get
    MaxLate         \* bound: requests given up on that may still be applied

Policies == {"safe-create-update", "create-only", "upsert-new-files"}
OpenFlags == [create : BOOLEAN, excl : BOOLEAN, truncate : BOOLEAN]

ASSUME PolicyAssumption == Policy \in Policies
ASSUME FlagsAssumption == Flags \subseteq OpenFlags
ASSUME SharedFdAssumption == SharedFd \in BOOLEAN
ASSUME BoundsAssumption == MaxVersions \in Nat /\ MaxLate \in Nat
ASSUME SentinelAssumption ==
    /\ None \notin Handle
    /\ Absent \notin Body
    /\ Empty \notin Body /\ Broken \notin Body /\ Empty # Broken

Content == Body \cup {Empty, Broken}

VARIABLES
    es,     \* Elasticsearch: each document's versions, with the handle that wrote them
    late,   \* write requests the client gave up on that were never answered
    cache,  \* ESClient.docCache
    hd,     \* the vfs.Handle of each open
    proc,   \* what each goroutine is doing
    sync    \* SyncTracker: the index's SyncEvent

vars == <<es, late, cache, hd, proc, sync>>

-----------------------------------------------------------------------------
(* Elasticsearch.                                                          *)

Version == [val : Body \cup {Absent}, by : Handle \cup {None}]

Live(d) == es[d] # <<>> /\ es[d][Len(es[d])].val # Absent

(* The precondition a write request carries: _create, if_seq_no, delete    *)
(* (which needs a live document to report success), or nothing.            *)
Guard == [kind : {"create", "match", "delete", "none"}, seq : Nat]
Unguarded == [kind |-> "none", seq |-> 0]

Request == [doc : Doc, h : Handle \cup {None}, guard : Guard, body : Body \cup {Absent}]

Accepts(d, g) ==
    \/ g.kind = "create" /\ ~Live(d)
    \/ g.kind = "match"  /\ Live(d) /\ Len(es[d]) = g.seq
    \/ g.kind = "delete" /\ Live(d)
    \/ g.kind = "none"

Append1(d, val, by) ==
    /\ Len(es[d]) < MaxVersions
    /\ es' = [es EXCEPT ![d] = Append(@, [val |-> val, by |-> by])]

-----------------------------------------------------------------------------
(* State of the client.                                                    *)

(* A docCache entry.  seq = 0: no entry.  of: the handle whose staging     *)
(* buffer the cached Source is a slice of (Put caches its argument).       *)
CacheEntry == [src : Content, seq : Nat, of : Handle \cup {None}]
NoEntry == [src |-> Empty, seq |-> 0, of |-> None]

(* meta = 0: no OCC metadata.  loaded is a history variable: the version   *)
(* OpenWrite found, 0 if none.                                             *)
HandleState == [st : {"fresh", "opening", "open", "closing", "releasing", "closed"},
                doc : Doc \cup {None}, buf : Content, dirty : BOOLEAN,
                createOnly : BOOLEAN, meta : Nat, flushedErr : BOOLEAN, loaded : Nat]
FreshHandle == [st |-> "fresh", doc |-> None, buf |-> Empty, dirty |-> FALSE,
                createOnly |-> FALSE, meta |-> 0, flushedErr |-> FALSE, loaded |-> 0]

(* src is the slice of h.buf that Flush passes to Put (live: it still      *)
(* shares the buffer's array); body, seq and out are the request's body or *)
(* the answer's _source, its _seq_no, and how the request ended.           *)
ProcState == [kind : {"idle", "read", "open", "flush", "release", "unlink"},
              pc : {"idle", "ready", "sent", "answered"},
              doc : Doc \cup {None}, h : Handle \cup {None}, flags : OpenFlags \cup {None},
              src : Content, live : BOOLEAN, guard : Guard, body : Body \cup {Absent},
              seq : Nat, out : {"none", "found", "missing", "ok", "refused", "fail"}]
Idle == [kind |-> "idle", pc |-> "idle", doc |-> None, h |-> None, flags |-> None,
         src |-> Empty, live |-> FALSE, guard |-> Unguarded, body |-> Absent,
         seq |-> 0, out |-> "none"]

SyncEvent == [pending : {0, 1}, lastWrite : BOOLEAN, lastError : BOOLEAN]

Init ==
    /\ es = [d \in Doc |-> <<>>]
    /\ late = {}
    /\ cache = [d \in Doc |-> NoEntry]
    /\ hd = [h \in Handle |-> FreshHandle]
    /\ proc = [t \in Proc |-> Idle]
    /\ sync = [pending |-> 0, lastWrite |-> FALSE, lastError |-> FALSE]

Become(t, p) == proc' = [proc EXCEPT ![t] = p]
Begin(t, p) == proc[t].pc = "idle" /\ Become(t, p)
Return(t) == Become(t, Idle)

Pushing(t) == proc[t].kind \in {"flush", "release"}
Writing(t) == Pushing(t) \/ proc[t].kind = "unlink"
Getting(t) == proc[t].kind \in {"read", "open"}

-----------------------------------------------------------------------------
(* ESClient.Get: a miss asks Elasticsearch and caches what was found.      *)

(* Stat and ReadAll of a document that is not cached.                      *)
ReadStart(t, d) ==
    /\ cache[d].seq = 0
    /\ Begin(t, [Idle EXCEPT !.kind = "read", !.pc = "sent", !.doc = d])
    /\ UNCHANGED <<es, late, cache, hd, sync>>

EsGet(t) ==
    /\ Getting(t) /\ proc[t].pc = "sent"
    /\ LET d == proc[t].doc IN
       Become(t, IF Live(d)
                 THEN [proc[t] EXCEPT !.pc = "answered", !.out = "found",
                                      !.body = es[d][Len(es[d])].val, !.seq = Len(es[d])]
                 ELSE [proc[t] EXCEPT !.pc = "answered", !.out = "missing"])
    /\ UNCHANGED <<es, late, cache, hd, sync>>

CacheFound(t) ==
    cache' = IF proc[t].out = "found"
             THEN [cache EXCEPT ![proc[t].doc] =
                      [src |-> proc[t].body, seq |-> proc[t].seq, of |-> None]]
             ELSE cache

ReadFinish(t) ==
    /\ proc[t].kind = "read" /\ proc[t].pc = "answered"
    /\ CacheFound(t)
    /\ Return(t)
    /\ UNCHANGED <<es, late, hd, sync>>

(* Mutant: only an entry of a live document's latest version expires.      *)
ExpireFreshOnly(d) ==
    /\ cache[d].seq # 0 /\ cache[d].seq = Len(es[d])
    /\ cache' = [cache EXCEPT ![d] = NoEntry]
    /\ UNCHANGED <<es, late, hd, proc, sync>>

(* TTL expiry or LRU eviction of an entry.                                 *)
Expire(d) ==
    /\ cache[d].seq # 0
    /\ cache' = [cache EXCEPT ![d] = NoEntry]
    /\ UNCHANGED <<es, late, hd, proc, sync>>

-----------------------------------------------------------------------------
(* VFS.OpenWrite.                                                          *)

(* The handle OpenWrite builds from the outcome of its Get.  Cached bytes  *)
(* that prettyJSON cannot indent leave the buffer empty.                   *)
Staged(d, fl, found, src, seq) ==
    [FreshHandle EXCEPT
        !.st = "open", !.doc = d,
        !.buf = IF found /\ ~fl.truncate /\ src \in Body THEN src ELSE Empty,
        !.meta = IF found THEN seq ELSE 0,
        !.loaded = IF found THEN seq ELSE 0,
        !.createOnly = fl.excl \/ (~found /\ fl.create /\ Policy = "safe-create-update")]

OpenWrite(h, d, fl, found, src, seq) ==
    IF fl.excl /\ found
    THEN hd' = [hd EXCEPT ![h] = FreshHandle] /\ UNCHANGED sync   \* document already exists
    ELSE /\ hd' = [hd EXCEPT ![h] = Staged(d, fl, found, src, seq)]
         /\ sync' = [sync EXCEPT !.pending = 1]

OpenHit(h, d, fl) ==
    /\ hd[h].st = "fresh" /\ cache[d].seq # 0
    /\ OpenWrite(h, d, fl, TRUE, cache[d].src, cache[d].seq)
    /\ UNCHANGED <<es, late, cache, proc>>

OpenMiss(t, h, d, fl) ==
    /\ hd[h].st = "fresh" /\ cache[d].seq = 0
    /\ Begin(t, [Idle EXCEPT !.kind = "open", !.pc = "sent", !.doc = d, !.h = h, !.flags = fl])
    /\ hd' = [hd EXCEPT ![h] = [@ EXCEPT !.st = "opening"]]
    /\ UNCHANGED <<es, late, cache, sync>>

OpenFinish(t) ==
    /\ proc[t].kind = "open" /\ proc[t].pc = "answered"
    /\ CacheFound(t)
    /\ OpenWrite(proc[t].h, proc[t].doc, proc[t].flags,
                 proc[t].out = "found", proc[t].body, proc[t].seq)
    /\ Return(t)
    /\ UNCHANGED <<es, late>>

-----------------------------------------------------------------------------
(* Handle.WriteAt and Handle.Truncate.  They work on the staging array in  *)
(* place, or on a new array when append has to grow it.  In place, every   *)
(* slice of the array that Put took sees the new bytes.                    *)

Editable(h) == hd[h].st = "open" \/ (SharedFd /\ hd[h].st = "closing")

SharesBuffer(t, h) == proc[t].live /\ proc[t].h = h

InPlace(h, x) ==
    /\ cache' = [d \in Doc |-> IF cache[d].of = h THEN [cache[d] EXCEPT !.src = x] ELSE cache[d]]
    /\ proc' = [t \in Proc |-> IF SharesBuffer(t, h) THEN [proc[t] EXCEPT !.src = x] ELSE proc[t]]

Reallocate(h) ==
    /\ cache' = [d \in Doc |-> IF cache[d].of = h THEN [cache[d] EXCEPT !.of = None] ELSE cache[d]]
    /\ proc' = [t \in Proc |-> IF SharesBuffer(t, h) THEN [proc[t] EXCEPT !.live = FALSE] ELSE proc[t]]

Stage(h, c) ==
    /\ Editable(h)
    /\ hd' = [hd EXCEPT ![h] = [@ EXCEPT !.buf = c, !.dirty = TRUE]]
    /\ UNCHANGED <<es, late, sync>>

WriteAt(h, c) ==
    /\ Stage(h, c)
    /\ Reallocate(h) \/ \E x \in Body \cup {Broken} : InPlace(h, x)

(* What a truncation, or an extension with NULs that normalizeJSON trims,  *)
(* can make of the staged bytes.                                           *)
Resized(c) == IF c = Broken THEN Content ELSE IF c = Empty THEN {Empty} ELSE {c, Empty, Broken}

Truncate(h, c) ==
    /\ Stage(h, c)
    /\ c \in Resized(hd[h].buf)
    /\ Reallocate(h) \/ InPlace(h, Broken) \/ UNCHANGED <<cache, proc>>

-----------------------------------------------------------------------------
(* Handle.Flush and Handle.Release over ESClient.Put.                      *)

(* Mutant: a retry after an error drops the precondition.                  *)
PutGuardFirstTryOnly(h) ==
    IF hd[h].createOnly \/ Policy = "create-only" THEN [kind |-> "create", seq |-> 0]
    ELSE IF Policy = "safe-create-update" /\ hd[h].meta # 0 /\ ~hd[h].flushedErr
         THEN [kind |-> "match", seq |-> hd[h].meta]
         ELSE Unguarded

(* Mutant: no if_seq_no is sent.                                           *)
PutGuardUnmatched(h) ==
    IF hd[h].createOnly \/ Policy = "create-only" THEN [kind |-> "create", seq |-> 0] ELSE Unguarded

(* The precondition Put puts into the request's path.                      *)
PutGuard(h) ==
    IF hd[h].createOnly \/ Policy = "create-only" THEN [kind |-> "create", seq |-> 0]
    ELSE IF Policy = "safe-create-update" /\ hd[h].meta # 0
         THEN [kind |-> "match", seq |-> hd[h].meta]
         ELSE Unguarded

After(kind, h) == IF kind = "release" THEN "closed" ELSE hd[h].st

(* Mutant: Release resets the count only when its flush succeeded.         *)
PendingOnSuccess(kind) == IF kind = "release" /\ ~sync.lastError THEN 0 ELSE sync.pending

(* Release's deferred SetPending(0) runs however Flush ended.              *)
Pending(kind) == IF kind = "release" THEN 0 ELSE sync.pending

(* FUSE sends FLUSH at every close of a descriptor and RELEASE once, after *)
(* the last one has been answered.                                         *)
MayFlush(kind, h) ==
    /\ hd[h].st \in {"open", "closing"}
    /\ kind = "release" => \A t \in Proc : proc[t].h # h

Flushing(kind) == IF kind = "release" THEN "releasing" ELSE "closing"

Stopped(kind) == IF kind = "release" THEN "closed" ELSE "closing"

(* Mutants of what a failed and a successful flush leave in the handle.    *)
FailedUnnoticed(s) == s
FailedClean(s) == [s EXCEPT !.flushedErr = TRUE, !.dirty = FALSE]
RecaptureNothing(s, seq) == [s EXCEPT !.dirty = FALSE, !.flushedErr = FALSE]

Failed(s) == [s EXCEPT !.flushedErr = TRUE]

(* Flush takes over the OCC metadata of the version it stored.             *)
Recapture(s, seq) ==
    [s EXCEPT !.meta = seq, !.createOnly = FALSE, !.dirty = FALSE, !.flushedErr = FALSE]

FlushClean(kind, h) ==
    /\ MayFlush(kind, h) /\ ~hd[h].dirty
    /\ hd' = [hd EXCEPT ![h] = [@ EXCEPT !.st = Stopped(kind)]]
    /\ sync' = [sync EXCEPT !.pending = Pending(kind)]
    /\ UNCHANGED <<es, late, cache, proc>>

FlushInvalid(kind, h) ==
    /\ MayFlush(kind, h) /\ hd[h].dirty /\ hd[h].buf \notin Body
    /\ hd' = [hd EXCEPT ![h] = [Failed(@) EXCEPT !.st = Stopped(kind)]]
    /\ sync' = [sync EXCEPT !.lastError = TRUE, !.pending = Pending(kind)]
    /\ UNCHANGED <<es, late, cache, proc>>

FlushStart(t, kind, h) ==
    /\ MayFlush(kind, h) /\ hd[h].dirty /\ hd[h].buf \in Body
    /\ Begin(t, [Idle EXCEPT !.kind = kind, !.pc = "ready", !.doc = hd[h].doc, !.h = h,
                             !.src = hd[h].buf, !.live = TRUE, !.guard = PutGuard(h)])
    /\ hd' = [hd EXCEPT ![h] = [@ EXCEPT !.st = Flushing(kind)]]
    /\ UNCHANGED <<es, late, cache, sync>>

(* Mutant: the body is sent as it is at that moment, unchecked.            *)
SendUnchecked(t) ==
    /\ Pushing(t) /\ proc[t].pc = "ready"
    /\ Become(t, [proc[t] EXCEPT !.pc = "sent", !.body = proc[t].src])
    /\ UNCHANGED <<es, late, cache, hd, sync>>

(* httpClient.do got a semaphore slot: the body is marshalled, which copies *)
(* it and fails on bytes that meanwhile are no JSON (then only GiveUp).     *)
Send(t) ==
    /\ Pushing(t) /\ proc[t].pc = "ready" /\ proc[t].src \in Body
    /\ Become(t, [proc[t] EXCEPT !.pc = "sent", !.body = proc[t].src])
    /\ UNCHANGED <<es, late, cache, hd, sync>>

RequestOf(t) == [doc |-> proc[t].doc, h |-> proc[t].h, guard |-> proc[t].guard, body |-> proc[t].body]

EsWrite(t) ==
    /\ Writing(t) /\ proc[t].pc = "sent"
    /\ IF Accepts(proc[t].doc, proc[t].guard)
       THEN /\ Append1(proc[t].doc, proc[t].body, proc[t].h)
            /\ Become(t, [proc[t] EXCEPT !.pc = "answered", !.out = "ok",
                                         !.seq = Len(es[proc[t].doc]) + 1])
       ELSE /\ Become(t, [proc[t] EXCEPT !.pc = "answered", !.out = "refused"])
            /\ UNCHANGED es
    /\ UNCHANGED <<late, cache, hd, sync>>

(* The call fails: the context ends while it waits for a slot, marshalling *)
(* fails, the HTTP timeout fires, the answer is lost, or its status is an  *)
(* error.  A write that was sent but not answered may still be applied.    *)
GiveUp(t) ==
    /\ proc[t].pc \in {"ready", "sent", "answered"} /\ proc[t].out # "fail"
    /\ Become(t, [proc[t] EXCEPT !.pc = "answered", !.out = "fail"])
    /\ late' = IF Writing(t) /\ proc[t].pc = "sent" /\ Cardinality(late) < MaxLate
               THEN late \cup {RequestOf(t)} ELSE late
    /\ UNCHANGED <<es, cache, hd, sync>>

EsLateWrite(r) ==
    /\ r \in late
    /\ late' = late \ {r}
    /\ IF Accepts(r.doc, r.guard) THEN Append1(r.doc, r.body, r.h) ELSE UNCHANGED es
    /\ UNCHANGED <<cache, hd, proc, sync>>

(* Mutant: the new content is cached under the metadata it was based on.   *)
PutEntryOldSeq(t) ==
    [src |-> proc[t].src, seq |-> hd[proc[t].h].meta,
     of |-> IF proc[t].live THEN proc[t].h ELSE None]

(* Put caches the slice it was given under the new _seq_no.  That a 2xx    *)
(* answer has one is assumed of Elasticsearch: Put ignores it if it cannot *)
(* be decoded, and then knows no metadata.                                 *)
PutEntry(t) ==
    [src |-> proc[t].src, seq |-> proc[t].seq,
     of |-> IF proc[t].live THEN proc[t].h ELSE None]

FlushDone(t) ==
    LET h == proc[t].h IN
    /\ Pushing(t) /\ proc[t].pc = "answered" /\ proc[t].out = "ok"
    /\ cache' = [cache EXCEPT ![proc[t].doc] = PutEntry(t)]
    /\ hd' = [hd EXCEPT ![h] = [Recapture(@, proc[t].seq) EXCEPT !.st = After(proc[t].kind, h)]]
    /\ sync' = [sync EXCEPT !.lastWrite = TRUE, !.pending = Pending(proc[t].kind)]
    /\ Return(t)
    /\ UNCHANGED <<es, late>>

FlushFailed(t) ==
    LET h == proc[t].h IN
    /\ Pushing(t) /\ proc[t].pc = "answered" /\ proc[t].out \in {"refused", "fail"}
    /\ hd' = [hd EXCEPT ![h] = [Failed(@) EXCEPT !.st = After(proc[t].kind, h)]]
    /\ sync' = [sync EXCEPT !.lastError = TRUE, !.pending = Pending(proc[t].kind)]
    /\ Return(t)
    /\ UNCHANGED <<es, late, cache>>

-----------------------------------------------------------------------------
(* VFS.Unlink, where delete sync is enabled: an unconditional delete.      *)

UnlinkStart(t, d) ==
    /\ Begin(t, [Idle EXCEPT !.kind = "unlink", !.pc = "sent", !.doc = d,
                             !.guard = [kind |-> "delete", seq |-> 0]])
    /\ UNCHANGED <<es, late, cache, hd, sync>>

UnlinkDone(t) ==
    /\ proc[t].kind = "unlink" /\ proc[t].pc = "answered" /\ proc[t].out = "ok"
    /\ cache' = [cache EXCEPT ![proc[t].doc] = NoEntry]
    /\ sync' = [sync EXCEPT !.lastWrite = TRUE]
    /\ Return(t)
    /\ UNCHANGED <<es, late, hd>>

UnlinkFailed(t) ==
    /\ proc[t].kind = "unlink" /\ proc[t].pc = "answered" /\ proc[t].out \in {"refused", "fail"}
    /\ sync' = [sync EXCEPT !.lastError = TRUE]
    /\ Return(t)
    /\ UNCHANGED <<es, late, cache, hd>>

(* Clients outside the mount write to Elasticsearch directly.              *)
ExternalWrite(d, b) == Append1(d, b, None) /\ UNCHANGED <<late, cache, hd, proc, sync>>
ExternalDelete(d) == Live(d) /\ Append1(d, Absent, None) /\ UNCHANGED <<late, cache, hd, proc, sync>>

-----------------------------------------------------------------------------
(* A goroutine's next step once its call has begun.                        *)
Advance(t) ==
    \/ EsGet(t) \/ ReadFinish(t) \/ OpenFinish(t)
    \/ Send(t) \/ EsWrite(t) \/ GiveUp(t) \/ FlushDone(t) \/ FlushFailed(t)
    \/ UnlinkDone(t) \/ UnlinkFailed(t)

StartCall(t) ==
    \/ \E d \in Doc : ReadStart(t, d) \/ UnlinkStart(t, d)
    \/ \E h \in Handle, d \in Doc, fl \in Flags : OpenMiss(t, h, d, fl)
    \/ \E h \in Handle, kind \in {"flush", "release"} : FlushStart(t, kind, h)

UseHandle(h) ==
    \/ \E d \in Doc, fl \in Flags : OpenHit(h, d, fl)
    \/ \E c \in Content \ {Empty} : WriteAt(h, c)
    \/ \E c \in Content : Truncate(h, c)
    \/ \E kind \in {"flush", "release"} : FlushClean(kind, h) \/ FlushInvalid(kind, h)

Next ==
    \/ \E t \in Proc : StartCall(t) \/ Advance(t)
    \/ \E h \in Handle : UseHandle(h)
    \/ \E r \in late : EsLateWrite(r)
    \/ \E d \in Doc : Expire(d) \/ ExternalDelete(d) \/ \E b \in Body : ExternalWrite(d, b)

Spec == Init /\ [][Next]_vars

(* Every request ends (the HTTP client has a timeout) and entries expire.  *)
FairSpec ==
    /\ Spec
    /\ \A t \in Proc : WF_vars(Advance(t))
    /\ \A d \in Doc : WF_vars(Expire(d))
-----------------------------------------------------------------------------
(* Properties.                                                             *)

(* Every variable has its type.  In particular a stored version is a JSON  *)
(* object or a deletion: nothing else gets through Flush and Put.          *)
TypeOK ==
    /\ es \in [Doc -> Seq(Version)]
    /\ late \subseteq Request
    /\ cache \in [Doc -> CacheEntry]
    /\ hd \in [Handle -> HandleState]
    /\ proc \in [Proc -> ProcState]
    /\ sync \in SyncEvent

(* A version a handle stored overwrites nothing that the handle has not    *)
(* seen: it is the document's first, or follows a deletion, a version the  *)
(* same handle stored, or the very version OpenWrite staged from (the      *)
(* if_seq_no and _create preconditions that Flush and Put choose between). *)
NoSilentOverwrite ==
    \A d \in Doc : \A n \in 2..Len(es[d]), h \in Handle :
        es[d][n].by = h =>
            \/ es[d][n-1].val = Absent
            \/ es[d][n-1].by = h
            \/ n - 1 = hd[h].loaded

(* An edit of a version that OpenWrite found is stored directly on top of  *)
(* it, or of a version the same handle stored: Flush's retry in Release    *)
(* after a lost answer may meet the handle's own version but never one     *)
(* that others stored after it, and a change or a deletion made meanwhile  *)
(* is not overwritten (README.md: "version conflicts surface as errors,    *)
(* never silent overwrites").                                              *)
EditLandsOnItsBase ==
    \A d \in Doc : \A n \in 1..Len(es[d]), h \in Handle :
        es[d][n].by = h /\ hd[h].loaded # 0 =>
            n = hd[h].loaded + 1 \/ (n > 1 /\ es[d][n-1].by = h)

(* What docCache holds for a document is one of its versions, under that   *)
(* version's _seq_no: a reader or an opener is never given bytes that      *)
(* Elasticsearch never stored, however stale the entry is.                 *)
CacheCoherent ==
    \A d \in Doc : cache[d].seq # 0 =>
        /\ cache[d].seq <= Len(es[d])
        /\ es[d][cache[d].seq].val = cache[d].src

(* Between calls, a handle that is not dirty stages exactly the version    *)
(* its OCC metadata names, unless it stages nothing: Flush and Release     *)
(* skip such a handle, so anything else would be an edit lost silently.    *)
CleanBufferIsStored ==
    \A h \in Handle :
        hd[h].st \notin {"fresh", "opening"} /\ ~hd[h].dirty /\ hd[h].buf # Empty =>
            /\ hd[h].meta \in 1..Len(es[hd[h].doc])
            /\ es[hd[h].doc][hd[h].meta].val = hd[h].buf

(* What a handle stages is not what Elasticsearch has under the handle's   *)
(* OCC metadata; staging nothing counts if an edit made it so.             *)
Unstored(h) ==
    LET vs == es[hd[h].doc] IN
    IF hd[h].buf = Empty THEN hd[h].dirty
    ELSE ~(hd[h].meta \in 1..Len(vs) /\ vs[hd[h].meta].val = hd[h].buf)

(* A handle released with edits that were never stored, whatever its dirty *)
(* flag says, has failed its last flush, and .sync.json shows an error.    *)
(* With a shared descriptor this is false: CleanBufferIsStored's violation *)
(* (write.go:154) ends in a release that reports nothing.                  *)
LostEditsReported ==
    \A h \in Handle :
        hd[h].st = "closed" /\ (hd[h].dirty \/ Unstored(h)) => hd[h].flushedErr /\ sync.lastError

(* pending_docs falls back to 0 once the last writable handle is gone, on  *)
(* whatever path Release took.                                             *)
PendingDrains ==
    sync.pending # 0 => \E h \in Handle : hd[h].st \in {"open", "closing", "releasing"}

Opened(h) == hd[h].st \notin {"fresh", "opening"}

(* OccDoc's editors: what each handle was opened on.                       *)
Bases == [h \in Handle |-> IF Opened(h) THEN [doc |-> hd[h].doc, seen |-> hd[h].loaded]
                           ELSE [doc |-> None, seen |-> 0]]

OD == INSTANCE OccDoc WITH Editor <- Handle, Nobody <- None, hist <- es, base <- Bases

(* The write path implements OccDoc: with its caches, in-flight and late   *)
(* requests and retries, each open is an editor that sees one stored       *)
(* version of one document and stores only on what it has seen.            *)
ImplementsOccDoc == OD!Spec

(* Another flush through the same handle has begun or ended meanwhile.     *)
Overlapped(t) ==
    LET h == proc[t].h IN
    proc[t].guard # PutGuard(h) \/ \E u \in Proc \ {t} : proc[u].h = h

(* Nobody else has changed h's document since OpenWrite staged from it.    *)
Undisturbed(h) ==
    LET vs == es[hd[h].doc] IN \A n \in hd[h].loaded + 1..Len(vs) : vs[n].by = h

(* A conflict is never of a handle's own making: a save that is refused,   *)
(* of a handle without a flush that failed since its last save, means that *)
(* somebody else has changed the document since the open, or that another  *)
(* flush through the same handle overlapped this one.                      *)
ConflictsAreReal ==
    [][\A t \in Proc :
         Pushing(t) /\ proc[t].out = "none" /\ proc'[t].out = "refused"
             /\ ~hd[proc[t].h].flushedErr =>
                 Overlapped(t) \/ ~Undisturbed(proc[t].h)]_vars

(* Once a document changes no more, the cache comes to hold its latest     *)
(* version or none, and keeps to that: a version that was answered before  *)
(* the last change may come back after it expired, but not for ever.       *)
StaleEntriesLeave ==
    \A d \in Doc : <>[](cache[d].seq # 0 => cache[d].seq = Len(es[d]))
=============================================================================
