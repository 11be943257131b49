-------------------------- MODULE WritePath_proofs --------------------------
(***************************************************************************)
(* Proofs about the write path, for every set of documents, handles and    *)
(* goroutines: the types are right, and the preconditions that Flush and   *)
(* Put choose keep a handle from overwriting what it has not seen.         *)
(***************************************************************************)
EXTENDS WritePath, TLAPS

(* The opens for which no save goes out without a precondition.            *)
GuardedOpens ==
    \/ Policy = "create-only"
    \/ Policy = "safe-create-update" /\ \A fl \in Flags : fl.create \/ fl.excl

(* What TypeOK needs to be inductive.                                      *)
HandleTyped(s) ==
    s \in HandleState /\ (s.st \notin {"fresh", "opening"} => s.doc \in Doc)

CallTyped(p) ==
    /\ p \in ProcState
    /\ p.kind # "idle" => p.doc \in Doc
    /\ p.kind \in {"open", "flush", "release"} => p.h \in Handle
    /\ p.kind = "open" => p.flags \in Flags
    /\ p.kind \in {"idle", "read", "unlink"} => p.h = None
    /\ p.kind = "idle" <=> p.pc = "idle"
    /\ p.kind \in {"read", "open"} /\ p.out = "found" => p.body \in Body /\ p.seq # 0

TypeInv ==
    /\ TypeOK
    /\ \A h \in Handle : HandleTyped(hd[h])
    /\ \A t \in Proc : CallTyped(proc[t])

(* A handle that is being opened has one opener, and only an open handle   *)
(* is flushed.                                                             *)
Protocol ==
    \A t \in Proc :
        /\ proc[t].kind = "open" =>
             /\ hd[proc[t].h].st = "opening"
             /\ \A u \in Proc : proc[u].kind = "open" /\ proc[u].h = proc[t].h => u = t
        /\ Pushing(t) => Opened(proc[t].h)

(* A version that h may safely build on, among the versions vs of its      *)
(* document: the one it was opened with, or one that it has stored.        *)
Base(h, loaded, vs, s) == s = loaded \/ (s \in 1..Len(vs) /\ vs[s].by = h)

(* The precondition g of a save by h protects what h has not seen.         *)
Justified(h, loaded, vs, g) ==
    \/ g.kind = "create" /\ (loaded = 0 \/ Policy = "create-only")
    \/ g.kind = "match" /\ g.seq # 0 /\ Base(h, loaded, vs, g.seq)
    \/ g.kind = "none" /\ ~GuardedOpens /\ (loaded = 0 \/ Policy = "upsert-new-files")

(* An open handle's metadata names a version that it may build on, or the  *)
(* handle insists on absence.                                              *)
SoundHandle(h, s, vs) ==
    /\ s.createOnly => s.loaded = 0
    /\ s.meta = 0 => s.loaded = 0 /\ (s.createOnly \/ ~GuardedOpens \/ Policy = "create-only")
    /\ s.meta # 0 => Base(h, s.loaded, vs, s.meta)

(* A save p by a handle in state s on a document with versions vs.         *)
SoundCall(p, s, vs) ==
    /\ p.doc = s.doc
    /\ Justified(p.h, s.loaded, vs, p.guard)
    /\ p.out = "ok" => p.seq \in 1..Len(vs) /\ vs[p.seq].by = p.h

(* What h stored among vs is what the two history properties allow.        *)
SoundHistory(h, loaded, vs) ==
    /\ GuardedOpens =>
         \A n \in 2..Len(vs) : vs[n].by = h =>
             vs[n-1].val = Absent \/ vs[n-1].by = h \/ n - 1 = loaded
    /\ Policy = "safe-create-update" =>
         \A n \in 1..Len(vs) : vs[n].by = h /\ loaded # 0 =>
             n = loaded + 1 \/ (n > 1 /\ vs[n-1].by = h)

(* Before it is open, a handle has left no trace.                          *)
Traceless(h) ==
    /\ \A d \in Doc : \A n \in 1..Len(es[d]) : es[d][n].by # h
    /\ \A r \in late : r.h # h

HandleInv(h) == IF Opened(h) THEN SoundHandle(h, hd[h], es[hd[h].doc]) ELSE Traceless(h)
CallInv(t) == Pushing(t) => SoundCall(proc[t], hd[proc[t].h], es[proc[t].doc])
RequestInv(r) == r.h \in Handle => Justified(r.h, hd[r.h].loaded, es[r.doc], r.guard)
HistoryInv == \A h \in Handle, d \in Doc : SoundHistory(h, hd[h].loaded, es[d])

OCCInv ==
    /\ \A h \in Handle : HandleInv(h)
    /\ \A t \in Proc : CallInv(t)
    /\ \A r \in late : RequestInv(r)
    /\ HistoryInv

-----------------------------------------------------------------------------
(* Type correctness.                                                       *)
LEMMA NoVersionIsAbsent == \A v \in Version : v.val # Absent => v.val \in Body
BY DEF Version

(* The values that calls, handles and entries start from are typed.        *)
LEMMA IdleTyped == CallTyped(Idle)
BY DEF CallTyped, Idle, ProcState, Unguarded, Guard, Content

(* A handle's state before its open is typed.                              *)
LEMMA FreshTyped == HandleTyped(FreshHandle)
BY DEF HandleTyped, FreshHandle, HandleState, Content

(* One call, or one handle, changes and keeps its type.                    *)
LEMMA BecomeTyped ==
    ASSUME TypeInv, NEW t \in Proc, NEW p, CallTyped(p), Become(t, p)
    PROVE  /\ proc' \in [Proc -> ProcState] /\ \A u \in Proc : CallTyped(proc'[u])
           /\ proc'[t] = p /\ \A u \in Proc \ {t} : proc'[u] = proc[u]
<1>1. proc \in [Proc -> ProcState] /\ \A u \in Proc : CallTyped(proc[u])
      BY DEF TypeInv, TypeOK
<1>2. p \in ProcState
      BY DEF CallTyped
<1>3. proc' = [proc EXCEPT ![t] = p]
      BY DEF Become
<1>4. proc'[t] = p /\ \A u \in Proc \ {t} : proc'[u] = proc[u]
      BY <1>1, <1>3
<1> QED BY <1>1, <1>2, <1>3, <1>4

(* One handle changes, to a typed state; the others stay.                  *)
LEMMA HandleBecomesTyped ==
    ASSUME TypeInv, NEW h \in Handle, NEW s, HandleTyped(s), hd' = [hd EXCEPT ![h] = s]
    PROVE  /\ hd' \in [Handle -> HandleState] /\ \A g \in Handle : HandleTyped(hd'[g])
           /\ hd'[h] = s /\ \A g \in Handle \ {h} : hd'[g] = hd[g]
<1>1. hd \in [Handle -> HandleState] /\ \A g \in Handle : HandleTyped(hd[g])
      BY DEF TypeInv, TypeOK
<1>2. s \in HandleState
      BY DEF HandleTyped
<1>3. hd'[h] = s /\ \A g \in Handle \ {h} : hd'[g] = hd[g]
      BY <1>1
<1> QED BY <1>1, <1>2, <1>3

(* One cache entry changes.                                                *)
LEMMA CacheEntrySet ==
    ASSUME TypeInv, NEW d \in Doc, NEW e \in CacheEntry, cache' = [cache EXCEPT ![d] = e]
    PROVE  cache' \in [Doc -> CacheEntry]
BY DEF TypeInv, TypeOK

(* The absent entry is an entry.                                           *)
LEMMA NoEntryTyped == NoEntry \in CacheEntry
BY DEF NoEntry, CacheEntry, Content

(* A document's history grows by one version.                              *)
LEMMA Append1Typed ==
    ASSUME TypeInv, NEW d \in Doc, NEW val \in Body \cup {Absent}, NEW by \in Handle \cup {None},
           Append1(d, val, by)
    PROVE  /\ es' \in [Doc -> Seq(Version)]
           /\ \A c \in Doc \ {d} : es'[c] = es[c]
           /\ Len(es[d]) \in Nat /\ Len(es'[d]) = Len(es[d]) + 1
           /\ es'[d][Len(es[d]) + 1] = [val |-> val, by |-> by]
           /\ \A n \in 1..Len(es[d]) : es'[d][n] = es[d][n]
<1> DEFINE v == [val |-> val, by |-> by]
<1>1. es \in [Doc -> Seq(Version)] /\ v \in Version
      BY DEF TypeInv, TypeOK, Version
<1>2. es' = [es EXCEPT ![d] = Append(es[d], v)]
      BY DEF Append1
<1> HIDE DEF v
<1>3. es'[d] = Append(es[d], v) /\ \A c \in Doc \ {d} : es'[c] = es[c]
      BY <1>1, <1>2
<1>4. es[d] \in Seq(Version)
      BY <1>1
<1>5. /\ Append(es[d], v) \in Seq(Version) /\ Len(Append(es[d], v)) = Len(es[d]) + 1
      /\ Append(es[d], v)[Len(es[d]) + 1] = v /\ Len(es[d]) \in Nat
      /\ \A n \in 1..Len(es[d]) : Append(es[d], v)[n] = es[d][n]
      BY <1>1, <1>4
<1>6. es' \in [Doc -> Seq(Version)]
      BY <1>1, <1>2, <1>5
<1> QED BY <1>3, <1>5, <1>6 DEF v

(* The initial state is typed.                                             *)
LEMMA TypeInit == Init => TypeInv
<1> SUFFICES ASSUME Init PROVE TypeInv
    OBVIOUS
<1>1. /\ es \in [Doc -> Seq(Version)] /\ late \subseteq Request /\ cache \in [Doc -> CacheEntry]
      /\ sync \in SyncEvent
      BY NoEntryTyped DEF Init, SyncEvent
<1>2. hd \in [Handle -> HandleState] /\ \A h \in Handle : HandleTyped(hd[h])
  <2>1. FreshHandle \in HandleState
        BY FreshTyped DEF HandleTyped
  <2> QED BY <2>1, FreshTyped DEF Init
<1>3. proc \in [Proc -> ProcState] /\ \A t \in Proc : CallTyped(proc[t])
  <2>1. Idle \in ProcState
        BY IdleTyped DEF CallTyped
  <2> QED BY <2>1, IdleTyped DEF Init
<1> QED BY <1>1, <1>2, <1>3 DEF TypeInv, TypeOK

(* The parts of TypeInv, for each of the six variables.                    *)
EsTyped == es \in [Doc -> Seq(Version)]
LateTyped == late \subseteq Request
CacheTyped == cache \in [Doc -> CacheEntry]
HandlesTyped == hd \in [Handle -> HandleState] /\ \A h \in Handle : HandleTyped(hd[h])
CallsTyped == proc \in [Proc -> ProcState] /\ \A t \in Proc : CallTyped(proc[t])
SyncTyped == sync \in SyncEvent

(* TypeInv is the conjunction of its parts.                                *)
LEMMA TypeInvParts ==
    TypeInv <=> EsTyped /\ LateTyped /\ CacheTyped /\ HandlesTyped /\ CallsTyped /\ SyncTyped
BY DEF TypeInv, TypeOK, EsTyped, LateTyped, CacheTyped, HandlesTyped, CallsTyped, SyncTyped

(* So it is in the next state.                                             *)
LEMMA TypeInvNext ==
    EsTyped' /\ LateTyped' /\ CacheTyped' /\ HandlesTyped' /\ CallsTyped' /\ SyncTyped' => TypeInv'
BY DEF TypeInv, TypeOK, EsTyped, LateTyped, CacheTyped, HandlesTyped, CallsTyped, SyncTyped

(* An unchanged variable keeps its type.                                   *)
LEMMA UnchangedTyped ==
    ASSUME TypeInv
    PROVE  /\ UNCHANGED es => EsTyped'
           /\ UNCHANGED late => LateTyped'
           /\ UNCHANGED cache => CacheTyped'
           /\ UNCHANGED hd => HandlesTyped'
           /\ UNCHANGED proc => CallsTyped'
           /\ UNCHANGED sync => SyncTyped'
BY TypeInvParts DEF EsTyped, LateTyped, CacheTyped, HandlesTyped, CallsTyped, SyncTyped

(* One call changes, and all stay typed.                                   *)
LEMMA BecomeCallsTyped ==
    ASSUME TypeInv, NEW t \in Proc, NEW p, CallTyped(p), Become(t, p)
    PROVE  CallsTyped'
<1>1. proc' \in [Proc -> ProcState] /\ \A u \in Proc : CallTyped(proc'[u])
      BY BecomeTyped
<1> QED BY <1>1 DEF CallsTyped

(* One handle changes, and all stay typed.                                 *)
LEMMA HandleBecomesHandlesTyped ==
    ASSUME TypeInv, NEW h \in Handle, NEW s, HandleTyped(s), hd' = [hd EXCEPT ![h] = s]
    PROVE  HandlesTyped'
<1>1. hd' \in [Handle -> HandleState] /\ \A g \in Handle : HandleTyped(hd'[g])
      BY HandleBecomesTyped
<1> QED BY <1>1 DEF HandlesTyped

(* What the write path sets in the SyncEvent is typed.                     *)
LEMMA SyncFieldTyped ==
    ASSUME TypeInv, NEW n \in {0, 1}
    PROVE  /\ [sync EXCEPT !.pending = n] \in SyncEvent
           /\ [sync EXCEPT !.lastWrite = TRUE] \in SyncEvent
           /\ [sync EXCEPT !.lastError = TRUE] \in SyncEvent
           /\ [sync EXCEPT !.lastWrite = TRUE, !.pending = n] \in SyncEvent
           /\ [sync EXCEPT !.lastError = TRUE, !.pending = n] \in SyncEvent
BY DEF TypeInv, TypeOK, SyncEvent

(* pending_docs after a flush or a release is 0 or 1.                      *)
LEMMA PendingTyped ==
    ASSUME TypeInv, NEW kind
    PROVE  Pending(kind) \in {0, 1}
BY DEF TypeInv, TypeOK, SyncEvent, Pending

(* Reads.                                                                  *)
LEMMA CacheFoundTyped ==
    ASSUME TypeInv, NEW t \in Proc, Getting(t), CacheFound(t)
    PROVE  CacheTyped'
<1>1. CallTyped(proc[t]) /\ proc[t].kind \in {"read", "open"}
      BY DEF TypeInv, Getting
<1>2. proc[t].doc \in Doc /\ proc[t].seq \in Nat
      BY <1>1 DEF CallTyped, ProcState
<1>3. CASE proc[t].out = "found"
  <2>1. [src |-> proc[t].body, seq |-> proc[t].seq, of |-> None] \in CacheEntry
        BY <1>1, <1>2, <1>3 DEF CallTyped, CacheEntry, Content
  <2> QED BY <2>1, <1>2, <1>3, CacheEntrySet DEF CacheFound, CacheTyped
<1>4. CASE proc[t].out # "found"
      BY <1>4 DEF CacheFound, CacheTyped, TypeInv, TypeOK
<1> QED BY <1>3, <1>4

(* The three steps of a read keep the types.                               *)
LEMMA ReadsTyped ==
    ASSUME TypeInv, NEW t \in Proc
    PROVE  /\ \A d \in Doc : ReadStart(t, d) => TypeInv'
           /\ EsGet(t) => TypeInv'
           /\ ReadFinish(t) => TypeInv'
<1>1. ASSUME NEW d \in Doc, ReadStart(t, d) PROVE TypeInv'
  <2> DEFINE p == [Idle EXCEPT !.kind = "read", !.pc = "sent", !.doc = d]
  <2>1. CallTyped(p)
        BY DEF CallTyped, ProcState, Idle, Unguarded, Guard, Content
  <2>2. Become(t, p) /\ UNCHANGED <<es, late, cache, hd, sync>>
        BY <1>1 DEF ReadStart, Begin
  <2> HIDE DEF p
  <2>3. CallsTyped'
        BY <2>1, <2>2, BecomeCallsTyped
  <2> QED BY <2>2, <2>3, UnchangedTyped, TypeInvNext
<1>2. ASSUME EsGet(t) PROVE TypeInv'
  <2> DEFINE d == proc[t].doc
             found == [proc[t] EXCEPT !.pc = "answered", !.out = "found",
                                      !.body = es[d][Len(es[d])].val, !.seq = Len(es[d])]
             missing == [proc[t] EXCEPT !.pc = "answered", !.out = "missing"]
  <2>1. /\ Getting(t) /\ proc[t].pc = "sent" /\ UNCHANGED <<es, late, cache, hd, sync>>
        /\ Become(t, IF Live(d) THEN found ELSE missing)
        BY <1>2 DEF EsGet
  <2>2. CallTyped(proc[t]) /\ proc[t].kind \in {"read", "open"} /\ d \in Doc
        BY <2>1 DEF TypeInv, Getting, CallTyped
  <2>3. CallTyped(missing)
        BY <2>2 DEF CallTyped, ProcState
  <2>4. ASSUME Live(d) PROVE CallTyped(found)
    <3>1. es[d] \in Seq(Version) /\ es[d] # <<>>
          BY <2>2, <2>4 DEF TypeInv, TypeOK, Live
    <3>2. Len(es[d]) \in Nat \ {0} /\ es[d][Len(es[d])] \in Version
          BY <3>1
    <3>3. es[d][Len(es[d])].val \in Body
          BY <2>4, <3>2, NoVersionIsAbsent DEF Live
    <3> QED BY <2>2, <3>2, <3>3 DEF CallTyped, ProcState
  <2>5. CallTyped(IF Live(d) THEN found ELSE missing)
        BY <2>3, <2>4
  <2> HIDE DEF found, missing
  <2>6. CallsTyped'
        BY <2>1, <2>5, BecomeCallsTyped
  <2> QED BY <2>1, <2>6, UnchangedTyped, TypeInvNext
<1>3. ASSUME ReadFinish(t) PROVE TypeInv'
  <2>1. Getting(t) /\ CacheFound(t) /\ Become(t, Idle) /\ UNCHANGED <<es, late, hd, sync>>
        BY <1>3 DEF ReadFinish, Getting, Return
  <2>2. CacheTyped' /\ CallsTyped'
        BY <2>1, CacheFoundTyped, BecomeCallsTyped, IdleTyped
  <2> QED BY <2>1, <2>2, UnchangedTyped, TypeInvNext
<1> QED BY <1>1, <1>2, <1>3

(* Opens.                                                                  *)
LEMMA StagedTyped ==
    ASSUME NEW d \in Doc, NEW fl \in OpenFlags, NEW found \in BOOLEAN, NEW src, NEW seq \in Nat
    PROVE  HandleTyped(Staged(d, fl, found, src, seq))
BY DEF Staged, HandleTyped, HandleState, FreshHandle, Content, OpenFlags

(* OpenWrite makes a typed handle and counts it as pending.                *)
LEMMA OpenWriteTyped ==
    ASSUME TypeInv, NEW h \in Handle, NEW d \in Doc, NEW fl \in Flags, NEW found \in BOOLEAN,
           NEW src, NEW seq \in Nat, OpenWrite(h, d, fl, found, src, seq)
    PROVE  HandlesTyped' /\ SyncTyped'
<1>1. fl \in OpenFlags
      BY FlagsAssumption
<1>2. CASE fl.excl /\ found
  <2>1. hd' = [hd EXCEPT ![h] = FreshHandle] /\ UNCHANGED sync
        BY <1>2 DEF OpenWrite
  <2> QED BY <2>1, FreshTyped, HandleBecomesHandlesTyped, UnchangedTyped
<1>3. CASE ~(fl.excl /\ found)
  <2> DEFINE s == Staged(d, fl, found, src, seq)
  <2>1. hd' = [hd EXCEPT ![h] = s] /\ sync' = [sync EXCEPT !.pending = 1]
        BY <1>3 DEF OpenWrite
  <2>2. HandleTyped(s)
        BY <1>1, StagedTyped
  <2> HIDE DEF s
  <2>3. HandlesTyped'
        BY <2>1, <2>2, HandleBecomesHandlesTyped
  <2>4. SyncTyped'
        BY <2>1 DEF SyncTyped, TypeInv, TypeOK, SyncEvent
  <2> QED BY <2>3, <2>4
<1> QED BY <1>2, <1>3

(* The three steps of an open keep the types.                              *)
LEMMA OpensTyped ==
    ASSUME TypeInv
    PROVE  /\ \A h \in Handle, d \in Doc, fl \in Flags : OpenHit(h, d, fl) => TypeInv'
           /\ \A t \in Proc, h \in Handle, d \in Doc, fl \in Flags : OpenMiss(t, h, d, fl) => TypeInv'
           /\ \A t \in Proc : OpenFinish(t) => TypeInv'
<1>1. ASSUME NEW h \in Handle, NEW d \in Doc, NEW fl \in Flags, OpenHit(h, d, fl) PROVE TypeInv'
  <2>1. /\ OpenWrite(h, d, fl, TRUE, cache[d].src, cache[d].seq)
        /\ UNCHANGED <<es, late, cache, proc>>
        BY <1>1 DEF OpenHit
  <2>2. cache[d].seq \in Nat
        BY DEF TypeInv, TypeOK, CacheEntry
  <2>3. HandlesTyped' /\ SyncTyped'
        BY <2>1, <2>2, OpenWriteTyped
  <2> QED BY <2>1, <2>3, UnchangedTyped, TypeInvNext
<1>2. ASSUME NEW t \in Proc, NEW h \in Handle, NEW d \in Doc, NEW fl \in Flags, OpenMiss(t, h, d, fl)
      PROVE  TypeInv'
  <2> DEFINE p == [Idle EXCEPT !.kind = "open", !.pc = "sent", !.doc = d, !.h = h, !.flags = fl]
             s == [hd[h] EXCEPT !.st = "opening"]
  <2>1. fl \in OpenFlags
        BY FlagsAssumption
  <2>2. CallTyped(p)
        BY <2>1 DEF CallTyped, ProcState, Idle, Unguarded, Guard, Content
  <2>3. HandleTyped(s)
        BY DEF TypeInv, TypeOK, HandleTyped, HandleState
  <2>4. Become(t, p) /\ hd' = [hd EXCEPT ![h] = s] /\ UNCHANGED <<es, late, cache, sync>>
        BY <1>2 DEF OpenMiss, Begin
  <2> HIDE DEF p, s
  <2>5. CallsTyped' /\ HandlesTyped'
        BY <2>2, <2>3, <2>4, BecomeCallsTyped, HandleBecomesHandlesTyped
  <2> QED BY <2>4, <2>5, UnchangedTyped, TypeInvNext
<1>3. ASSUME NEW t \in Proc, OpenFinish(t) PROVE TypeInv'
  <2>1. /\ proc[t].kind = "open" /\ Getting(t) /\ CacheFound(t) /\ Become(t, Idle)
        /\ OpenWrite(proc[t].h, proc[t].doc, proc[t].flags, proc[t].out = "found",
                     proc[t].body, proc[t].seq)
        /\ UNCHANGED <<es, late>>
        BY <1>3 DEF OpenFinish, Getting, Return
  <2>2. /\ proc[t].h \in Handle /\ proc[t].doc \in Doc /\ proc[t].flags \in Flags
        /\ proc[t].seq \in Nat
        BY <2>1 DEF TypeInv, CallTyped, ProcState
  <2>3. (proc[t].out = "found") \in BOOLEAN
        OBVIOUS
  <2>4. HandlesTyped' /\ SyncTyped'
        BY <2>1, <2>2, <2>3, OpenWriteTyped
  <2>5. CacheTyped' /\ CallsTyped'
        BY <2>1, CacheFoundTyped, BecomeCallsTyped, IdleTyped
  <2> QED BY <2>1, <2>4, <2>5, UnchangedTyped, TypeInvNext
<1> QED BY <1>1, <1>2, <1>3

(* Edits.                                                                  *)
LEMMA InPlaceTyped ==
    ASSUME TypeInv, NEW h \in Handle, NEW x \in Content, InPlace(h, x) \/ Reallocate(h)
    PROVE  CacheTyped' /\ CallsTyped'
<1>1. cache \in [Doc -> CacheEntry] /\ proc \in [Proc -> ProcState] /\ \A t \in Proc : CallTyped(proc[t])
      BY DEF TypeInv, TypeOK
<1>2. \A d \in Doc : [cache[d] EXCEPT !.src = x] \in CacheEntry /\ [cache[d] EXCEPT !.of = None] \in CacheEntry
      BY <1>1 DEF CacheEntry
<1>3. CacheTyped'
      BY <1>1, <1>2 DEF InPlace, Reallocate, CacheTyped
<1>4. ASSUME NEW t \in Proc
      PROVE  CallTyped([proc[t] EXCEPT !.src = x]) /\ CallTyped([proc[t] EXCEPT !.live = FALSE])
      BY <1>1 DEF CallTyped, ProcState
<1>5. \A t \in Proc : [proc[t] EXCEPT !.src = x] \in ProcState /\ [proc[t] EXCEPT !.live = FALSE] \in ProcState
      BY <1>4 DEF CallTyped
<1>6. CallsTyped'
      BY <1>1, <1>4, <1>5 DEF InPlace, Reallocate, CallsTyped
<1> QED BY <1>3, <1>6

(* WriteAt and Truncate keep the types.                                    *)
LEMMA EditsTyped ==
    ASSUME TypeInv, NEW h \in Handle, NEW c \in Content, WriteAt(h, c) \/ Truncate(h, c)
    PROVE  TypeInv'
<1>1. Editable(h) /\ hd' = [hd EXCEPT ![h] = [@ EXCEPT !.buf = c, !.dirty = TRUE]]
      /\ UNCHANGED <<es, late, sync>>
      BY DEF WriteAt, Truncate, Stage
<1>2. HandleTyped([hd[h] EXCEPT !.buf = c, !.dirty = TRUE])
      BY DEF TypeInv, TypeOK, HandleTyped, HandleState
<1>3. HandlesTyped'
      BY <1>1, <1>2, HandleBecomesHandlesTyped
<1>4. CacheTyped' /\ CallsTyped'
  <2>1. CASE \E x \in Content : InPlace(h, x) \/ Reallocate(h)
        BY <2>1, InPlaceTyped
  <2>2. CASE UNCHANGED <<cache, proc>>
        BY <2>2, UnchangedTyped
  <2>3. Broken \in Content /\ Body \cup {Broken} \subseteq Content
        BY DEF Content
  <2> QED BY <2>1, <2>2, <2>3 DEF WriteAt, Truncate
<1> QED BY <1>1, <1>3, <1>4, UnchangedTyped, TypeInvNext

(* Flushes.                                                                *)
LEMMA FlushTargetsTyped ==
    ASSUME TypeInv, NEW kind \in {"flush", "release"}, NEW h \in Handle, MayFlush(kind, h)
    PROVE  /\ hd[h] \in HandleState /\ hd[h].doc \in Doc
           /\ HandleTyped([hd[h] EXCEPT !.st = Stopped(kind)])
           /\ HandleTyped([hd[h] EXCEPT !.st = Flushing(kind)])
           /\ HandleTyped([Failed(hd[h]) EXCEPT !.st = Stopped(kind)])
<1>1. hd[h] \in HandleState /\ hd[h].doc \in Doc
      BY DEF TypeInv, TypeOK, HandleTyped, MayFlush
<1> QED BY <1>1 DEF HandleTyped, HandleState, Stopped, Flushing, Failed

(* The beginnings of Flush and Release keep the types.                     *)
LEMMA FlushesTyped ==
    ASSUME TypeInv, NEW kind \in {"flush", "release"}, NEW h \in Handle
    PROVE  /\ FlushClean(kind, h) => TypeInv'
           /\ FlushInvalid(kind, h) => TypeInv'
           /\ \A t \in Proc : FlushStart(t, kind, h) => TypeInv'
<1>1. ASSUME FlushClean(kind, h) PROVE TypeInv'
  <2> DEFINE s == [hd[h] EXCEPT !.st = Stopped(kind)]
  <2>1. /\ MayFlush(kind, h) /\ hd' = [hd EXCEPT ![h] = s]
        /\ sync' = [sync EXCEPT !.pending = Pending(kind)] /\ UNCHANGED <<es, late, cache, proc>>
        BY <1>1 DEF FlushClean
  <2>2. HandleTyped(s)
        BY <2>1, FlushTargetsTyped
  <2> HIDE DEF s
  <2>3. HandlesTyped'
        BY <2>1, <2>2, HandleBecomesHandlesTyped
  <2>4. SyncTyped'
        BY <2>1, PendingTyped, SyncFieldTyped DEF SyncTyped
  <2> QED BY <2>1, <2>3, <2>4, UnchangedTyped, TypeInvNext
<1>2. ASSUME FlushInvalid(kind, h) PROVE TypeInv'
  <2> DEFINE s == [Failed(hd[h]) EXCEPT !.st = Stopped(kind)]
  <2>1. /\ MayFlush(kind, h) /\ hd' = [hd EXCEPT ![h] = s]
        /\ sync' = [sync EXCEPT !.lastError = TRUE, !.pending = Pending(kind)]
        /\ UNCHANGED <<es, late, cache, proc>>
        BY <1>2 DEF FlushInvalid
  <2>2. HandleTyped(s)
        BY <2>1, FlushTargetsTyped
  <2> HIDE DEF s
  <2>3. HandlesTyped'
        BY <2>1, <2>2, HandleBecomesHandlesTyped
  <2>4. SyncTyped'
        BY <2>1, PendingTyped, SyncFieldTyped DEF SyncTyped
  <2> QED BY <2>1, <2>3, <2>4, UnchangedTyped, TypeInvNext
<1>3. ASSUME NEW t \in Proc, FlushStart(t, kind, h) PROVE TypeInv'
  <2> DEFINE s == [hd[h] EXCEPT !.st = Flushing(kind)]
             p == [Idle EXCEPT !.kind = kind, !.pc = "ready", !.doc = hd[h].doc, !.h = h,
                               !.src = hd[h].buf, !.live = TRUE, !.guard = PutGuard(h)]
  <2>1. /\ MayFlush(kind, h) /\ hd[h].buf \in Body /\ Become(t, p)
        /\ hd' = [hd EXCEPT ![h] = s] /\ UNCHANGED <<es, late, cache, sync>>
        BY <1>3 DEF FlushStart, Begin
  <2>2. HandleTyped(s) /\ hd[h] \in HandleState /\ hd[h].doc \in Doc
        BY <2>1, FlushTargetsTyped
  <2>3. PutGuard(h) \in Guard
        BY <2>2 DEF PutGuard, Guard, Unguarded, HandleState
  <2>4. CallTyped(p)
        BY <2>1, <2>2, <2>3 DEF CallTyped, ProcState, Idle, Content
  <2> HIDE DEF s, p
  <2>5. HandlesTyped' /\ CallsTyped'
        BY <2>1, <2>2, <2>4, HandleBecomesHandlesTyped, BecomeCallsTyped
  <2> QED BY <2>1, <2>5, UnchangedTyped, TypeInvNext
<1> QED BY <1>1, <1>2, <1>3

(* The request of a writing call is typed.                                 *)
LEMMA RequestTyped ==
    ASSUME TypeInv, NEW t \in Proc, Writing(t)
    PROVE  RequestOf(t) \in Request /\ proc[t].doc \in Doc
BY DEF TypeInv, CallTyped, ProcState, RequestOf, Request, Writing, Pushing

(* However a request ends, the call stays typed.                           *)
LEMMA EndsTyped ==
    ASSUME NEW p, CallTyped(p), p.pc # "idle", NEW out \in {"ok", "refused", "fail"}, NEW n \in Nat
    PROVE  /\ CallTyped([p EXCEPT !.pc = "answered", !.out = out])
           /\ CallTyped([p EXCEPT !.pc = "answered", !.out = out, !.seq = n])
<1> DEFINE q == [p EXCEPT !.pc = "answered", !.out = out]
           r == [p EXCEPT !.pc = "answered", !.out = out, !.seq = n]
<1>1. p \in ProcState /\ p.kind # "idle"
      BY DEF CallTyped
<1>2. q \in ProcState /\ r \in ProcState
      BY <1>1 DEF ProcState
<1>3. /\ q.kind = p.kind /\ q.doc = p.doc /\ q.h = p.h /\ q.flags = p.flags
      /\ q.pc = "answered" /\ q.out # "found"
      BY <1>1 DEF ProcState
<1>4. /\ r.kind = p.kind /\ r.doc = p.doc /\ r.h = p.h /\ r.flags = p.flags
      /\ r.pc = "answered" /\ r.out # "found"
      BY <1>1 DEF ProcState
<1> HIDE DEF q, r
<1> QED BY <1>1, <1>2, <1>3, <1>4 DEF CallTyped, q, r

(* The steps of a request keep the types.                                  *)
LEMMA RequestsTyped ==
    ASSUME TypeInv, NEW t \in Proc
    PROVE  (Send(t) => TypeInv') /\ (EsWrite(t) => TypeInv') /\ (GiveUp(t) => TypeInv')
<1>1. CallTyped(proc[t]) /\ proc[t] \in ProcState
      BY DEF TypeInv, CallTyped
<1>2. ASSUME Send(t) PROVE TypeInv'
  <2> DEFINE p == [proc[t] EXCEPT !.pc = "sent", !.body = proc[t].src]
  <2>1. /\ Pushing(t) /\ proc[t].src \in Body /\ Become(t, p)
        /\ UNCHANGED <<es, late, cache, hd, sync>>
        BY <1>2 DEF Send
  <2>2. CallTyped(p)
        BY <1>1, <2>1 DEF CallTyped, ProcState, Pushing
  <2> HIDE DEF p
  <2>3. CallsTyped'
        BY <2>1, <2>2, BecomeCallsTyped
  <2> QED BY <2>1, <2>3, UnchangedTyped, TypeInvNext
<1>3. ASSUME EsWrite(t) PROVE TypeInv'
  <2> DEFINE ok == [proc[t] EXCEPT !.pc = "answered", !.out = "ok", !.seq = Len(es[proc[t].doc]) + 1]
             no == [proc[t] EXCEPT !.pc = "answered", !.out = "refused"]
  <2>1. Writing(t) /\ UNCHANGED <<late, cache, hd, sync>>
        BY <1>3 DEF EsWrite
  <2>2. proc[t].doc \in Doc /\ proc[t].body \in Body \cup {Absent} /\ proc[t].h \in Handle \cup {None}
        BY <1>1, <2>1, RequestTyped DEF ProcState
  <2>3. Len(es[proc[t].doc]) + 1 \in Nat
        BY <2>2 DEF TypeInv, TypeOK
  <2>4. CallTyped(ok) /\ CallTyped(no)
        BY <1>1, <1>3, <2>3, EndsTyped DEF EsWrite
  <2>5. CASE Accepts(proc[t].doc, proc[t].guard)
    <3>1. Append1(proc[t].doc, proc[t].body, proc[t].h) /\ Become(t, ok)
          BY <1>3, <2>5 DEF EsWrite
    <3> HIDE DEF ok
    <3>2. EsTyped'
          BY <2>2, <3>1, Append1Typed DEF EsTyped
    <3>3. CallsTyped'
          BY <2>4, <3>1, BecomeCallsTyped
    <3> QED BY <2>1, <3>2, <3>3, UnchangedTyped, TypeInvNext
  <2>6. CASE ~Accepts(proc[t].doc, proc[t].guard)
    <3>1. UNCHANGED es /\ Become(t, no)
          BY <1>3, <2>6 DEF EsWrite
    <3> HIDE DEF no
    <3>2. CallsTyped'
          BY <2>4, <3>1, BecomeCallsTyped
    <3> QED BY <2>1, <3>1, <3>2, UnchangedTyped, TypeInvNext
  <2> QED BY <2>5, <2>6
<1>4. ASSUME GiveUp(t) PROVE TypeInv'
  <2> DEFINE p == [proc[t] EXCEPT !.pc = "answered", !.out = "fail"]
  <2>1. Become(t, p) /\ proc[t].pc # "idle" /\ UNCHANGED <<es, cache, hd, sync>>
        BY <1>4 DEF GiveUp
  <2>2. CallTyped(p)
        BY <1>1, <2>1, EndsTyped
  <2> HIDE DEF p
  <2>3. CallsTyped'
        BY <2>1, <2>2, BecomeCallsTyped
  <2>4. late' = late \/ (Writing(t) /\ late' = late \cup {RequestOf(t)})
        BY <1>4 DEF GiveUp
  <2>5. LateTyped'
        BY <2>4, RequestTyped DEF LateTyped, TypeInv, TypeOK
  <2> QED BY <2>1, <2>3, <2>5, UnchangedTyped, TypeInvNext
<1> QED BY <1>2, <1>3, <1>4

(* Answers to flushes.                                                     *)
LEMMA FlushedTyped ==
    ASSUME TypeInv, Protocol, NEW t \in Proc, Pushing(t)
    PROVE  /\ proc[t].h \in Handle /\ proc[t].doc \in Doc /\ proc[t].kind \in {"flush", "release"}
           /\ Opened(proc[t].h)
           /\ LET h == proc[t].h IN
              /\ HandleTyped([Recapture(hd[h], proc[t].seq) EXCEPT !.st = After(proc[t].kind, h)])
              /\ HandleTyped([Failed(hd[h]) EXCEPT !.st = After(proc[t].kind, h)])
           /\ PutEntry(t) \in CacheEntry
<1>1. /\ proc[t] \in ProcState /\ proc[t].h \in Handle /\ proc[t].doc \in Doc
      /\ proc[t].kind \in {"flush", "release"}
      BY DEF TypeInv, CallTyped, Pushing
<1>2. Opened(proc[t].h)
      BY DEF Protocol
<1>3. hd[proc[t].h] \in HandleState /\ hd[proc[t].h].doc \in Doc /\ proc[t].seq \in Nat
      BY <1>1, <1>2 DEF TypeInv, HandleTyped, Opened, ProcState
<1>4. PutEntry(t) \in CacheEntry
      BY <1>1 DEF PutEntry, CacheEntry, ProcState
<1>5. HandleTyped([Recapture(hd[proc[t].h], proc[t].seq) EXCEPT !.st = After(proc[t].kind, proc[t].h)])
      BY <1>1, <1>3 DEF HandleTyped, HandleState, Recapture, After
<1>6. HandleTyped([Failed(hd[proc[t].h]) EXCEPT !.st = After(proc[t].kind, proc[t].h)])
      BY <1>1, <1>3 DEF HandleTyped, HandleState, Failed, After
<1> QED BY <1>1, <1>2, <1>4, <1>5, <1>6

(* The ends of Flush and Release keep the types.                           *)
LEMMA FlushAnswersTyped ==
    ASSUME TypeInv, Protocol, NEW t \in Proc
    PROVE  (FlushDone(t) => TypeInv') /\ (FlushFailed(t) => TypeInv')
<1> DEFINE h == proc[t].h
<1>1. ASSUME FlushDone(t) PROVE TypeInv'
  <2> DEFINE s == [Recapture(hd[h], proc[t].seq) EXCEPT !.st = After(proc[t].kind, h)]
  <2>1. /\ Pushing(t) /\ cache' = [cache EXCEPT ![proc[t].doc] = PutEntry(t)]
        /\ hd' = [hd EXCEPT ![h] = s] /\ Become(t, Idle)
        /\ sync' = [sync EXCEPT !.lastWrite = TRUE, !.pending = Pending(proc[t].kind)]
        /\ UNCHANGED <<es, late>>
        BY <1>1 DEF FlushDone, Return
  <2>2. h \in Handle /\ proc[t].doc \in Doc /\ HandleTyped(s) /\ PutEntry(t) \in CacheEntry
        BY <2>1, FlushedTyped
  <2> HIDE DEF s, h
  <2>3. CacheTyped'
        BY <2>1, <2>2, CacheEntrySet DEF CacheTyped
  <2>4. HandlesTyped' /\ CallsTyped'
        BY <2>1, <2>2, HandleBecomesHandlesTyped, BecomeCallsTyped, IdleTyped
  <2>5. SyncTyped'
        BY <2>1, PendingTyped, SyncFieldTyped DEF SyncTyped
  <2> QED BY <2>1, <2>3, <2>4, <2>5, UnchangedTyped, TypeInvNext
<1>2. ASSUME FlushFailed(t) PROVE TypeInv'
  <2> DEFINE s == [Failed(hd[h]) EXCEPT !.st = After(proc[t].kind, h)]
  <2>1. /\ Pushing(t) /\ hd' = [hd EXCEPT ![h] = s] /\ Become(t, Idle)
        /\ sync' = [sync EXCEPT !.lastError = TRUE, !.pending = Pending(proc[t].kind)]
        /\ UNCHANGED <<es, late, cache>>
        BY <1>2 DEF FlushFailed, Return
  <2>2. h \in Handle /\ HandleTyped(s)
        BY <2>1, FlushedTyped
  <2> HIDE DEF s, h
  <2>3. HandlesTyped' /\ CallsTyped'
        BY <2>1, <2>2, HandleBecomesHandlesTyped, BecomeCallsTyped, IdleTyped
  <2>4. SyncTyped'
        BY <2>1, PendingTyped, SyncFieldTyped DEF SyncTyped
  <2> QED BY <2>1, <2>3, <2>4, UnchangedTyped, TypeInvNext
<1> QED BY <1>1, <1>2

(* Deletes, and what happens outside the mount.                            *)
LEMMA UnlinksTyped ==
    ASSUME TypeInv, NEW t \in Proc
    PROVE  /\ \A d \in Doc : UnlinkStart(t, d) => TypeInv'
           /\ UnlinkDone(t) => TypeInv'
           /\ UnlinkFailed(t) => TypeInv'
<1>1. ASSUME NEW d \in Doc, UnlinkStart(t, d) PROVE TypeInv'
  <2> DEFINE p == [Idle EXCEPT !.kind = "unlink", !.pc = "sent", !.doc = d,
                               !.guard = [kind |-> "delete", seq |-> 0]]
  <2>1. CallTyped(p)
        BY DEF CallTyped, ProcState, Idle, Guard, Content
  <2>2. Become(t, p) /\ UNCHANGED <<es, late, cache, hd, sync>>
        BY <1>1 DEF UnlinkStart, Begin
  <2> HIDE DEF p
  <2>3. CallsTyped'
        BY <2>1, <2>2, BecomeCallsTyped
  <2> QED BY <2>2, <2>3, UnchangedTyped, TypeInvNext
<1>2. ASSUME UnlinkDone(t) PROVE TypeInv'
  <2>1. /\ cache' = [cache EXCEPT ![proc[t].doc] = NoEntry] /\ Become(t, Idle)
        /\ sync' = [sync EXCEPT !.lastWrite = TRUE] /\ UNCHANGED <<es, late, hd>>
        BY <1>2 DEF UnlinkDone, Return
  <2>2. proc[t].doc \in Doc
        BY <1>2 DEF UnlinkDone, TypeInv, CallTyped
  <2>3. CacheTyped' /\ CallsTyped'
        BY <2>1, <2>2, CacheEntrySet, NoEntryTyped, BecomeCallsTyped, IdleTyped DEF CacheTyped
  <2>4. SyncTyped'
        BY <2>1, SyncFieldTyped DEF SyncTyped
  <2> QED BY <2>1, <2>3, <2>4, UnchangedTyped, TypeInvNext
<1>3. ASSUME UnlinkFailed(t) PROVE TypeInv'
  <2>1. /\ Become(t, Idle) /\ sync' = [sync EXCEPT !.lastError = TRUE]
        /\ UNCHANGED <<es, late, cache, hd>>
        BY <1>3 DEF UnlinkFailed, Return
  <2>2. CallsTyped'
        BY <2>1, BecomeCallsTyped, IdleTyped
  <2>3. SyncTyped'
        BY <2>1, SyncFieldTyped DEF SyncTyped
  <2> QED BY <2>1, <2>2, <2>3, UnchangedTyped, TypeInvNext
<1> QED BY <1>1, <1>2, <1>3

(* Late requests and other clients keep the types.                         *)
LEMMA OthersTyped ==
    ASSUME TypeInv
    PROVE  /\ \A r \in late : EsLateWrite(r) => TypeInv'
           /\ \A d \in Doc, b \in Body : ExternalWrite(d, b) => TypeInv'
           /\ \A d \in Doc : ExternalDelete(d) => TypeInv'
<1>1. ASSUME NEW r \in late, EsLateWrite(r) PROVE TypeInv'
  <2>1. /\ late' = late \ {r} /\ UNCHANGED <<cache, hd, proc, sync>>
        /\ Append1(r.doc, r.body, r.h) \/ UNCHANGED es
        BY <1>1 DEF EsLateWrite
  <2>2. r.doc \in Doc /\ r.body \in Body \cup {Absent} /\ r.h \in Handle \cup {None}
        BY DEF TypeInv, TypeOK, Request
  <2>3. EsTyped'
        BY <2>1, <2>2, Append1Typed, UnchangedTyped DEF EsTyped
  <2>4. LateTyped'
        BY <2>1 DEF LateTyped, TypeInv, TypeOK
  <2> QED BY <2>1, <2>3, <2>4, UnchangedTyped, TypeInvNext
<1>2. ASSUME NEW d \in Doc, NEW b \in Body \cup {Absent}, Append1(d, b, None),
             UNCHANGED <<late, cache, hd, proc, sync>>
      PROVE  TypeInv'
  <2>1. EsTyped'
        BY <1>2, Append1Typed DEF EsTyped
  <2> QED BY <1>2, <2>1, UnchangedTyped, TypeInvNext
<1> QED BY <1>1, <1>2 DEF ExternalWrite, ExternalDelete

(* Every step keeps the types.                                             *)
LEMMA TypeStep ==
    ASSUME TypeInv, Protocol, [Next]_vars
    PROVE  TypeInv'
<1>1. ASSUME NEW t \in Proc, StartCall(t) \/ Advance(t) PROVE TypeInv'
      BY <1>1, ReadsTyped, OpensTyped, FlushesTyped, RequestsTyped, FlushAnswersTyped, UnlinksTyped
      DEF StartCall, Advance
<1>2. ASSUME NEW h \in Handle, UseHandle(h) PROVE TypeInv'
      BY <1>2, OpensTyped, EditsTyped, FlushesTyped DEF UseHandle
<1>3. ASSUME NEW d \in Doc, Expire(d) PROVE TypeInv'
  <2>1. cache' = [cache EXCEPT ![d] = NoEntry] /\ UNCHANGED <<es, late, hd, proc, sync>>
        BY <1>3 DEF Expire
  <2>2. CacheTyped'
        BY <2>1, CacheEntrySet, NoEntryTyped DEF CacheTyped
  <2> QED BY <2>1, <2>2, UnchangedTyped, TypeInvNext
<1>4. CASE UNCHANGED vars
      BY <1>4, UnchangedTyped, TypeInvNext DEF vars
<1> QED BY <1>1, <1>2, <1>3, <1>4, OthersTyped DEF Next

-----------------------------------------------------------------------------
(* Most steps keep everything the other invariants speak of.               *)
HandleKept(h) ==
    /\ hd'[h].doc = hd[h].doc /\ hd'[h].createOnly = hd[h].createOnly
    /\ hd'[h].meta = hd[h].meta /\ hd'[h].loaded = hd[h].loaded
    /\ Opened(h)' = Opened(h)
    /\ hd[h].st = "opening" => hd'[h].st = "opening"

CallKept(t) ==
    \/ proc'[t].kind \in {"idle", "read", "unlink"}
    \/ /\ proc'[t].kind = proc[t].kind /\ proc'[t].h = proc[t].h /\ proc'[t].doc = proc[t].doc
       /\ proc'[t].guard = proc[t].guard
       /\ proc'[t].out = "ok" => proc[t].out = "ok" /\ proc'[t].seq = proc[t].seq

QuietStep ==
    /\ UNCHANGED es /\ late' \subseteq late
    /\ \A h \in Handle : HandleKept(h)
    /\ \A t \in Proc : CallKept(t)

(* One call, or one handle, changes, and keeps that.                       *)
LEMMA BecomeKept ==
    ASSUME TypeInv, NEW t \in Proc, NEW p, CallTyped(p), Become(t, p),
           \/ p.kind \in {"idle", "read", "unlink"}
           \/ /\ p.kind = proc[t].kind /\ p.h = proc[t].h /\ p.doc = proc[t].doc
              /\ p.guard = proc[t].guard
              /\ p.out = "ok" => proc[t].out = "ok" /\ p.seq = proc[t].seq
    PROVE  \A u \in Proc : CallKept(u)
<1>1. proc'[t] = p /\ \A u \in Proc \ {t} : proc'[u] = proc[u]
      BY BecomeTyped
<1>2. CallKept(t)
      BY <1>1 DEF CallKept
<1>3. \A u \in Proc \ {t} : CallKept(u)
      BY <1>1 DEF CallKept
<1> QED BY <1>2, <1>3

(* The same for one open handle that stays open.                           *)
LEMMA HandleBecomesKept ==
    ASSUME TypeInv, NEW h \in Handle, NEW s, HandleTyped(s), hd' = [hd EXCEPT ![h] = s],
           s.doc = hd[h].doc, s.createOnly = hd[h].createOnly,
           s.meta = hd[h].meta, s.loaded = hd[h].loaded,
           Opened(h), s.st \notin {"fresh", "opening"}
    PROVE  \A g \in Handle : HandleKept(g)
<1>1. hd'[h] = s /\ \A g \in Handle \ {h} : hd'[g] = hd[g]
      BY HandleBecomesTyped
<1>2. HandleKept(h)
      BY <1>1 DEF HandleKept, Opened
<1>3. \A g \in Handle \ {h} : HandleKept(g)
      BY <1>1 DEF HandleKept, Opened
<1> QED BY <1>2, <1>3

(* What does not change is kept.                                           *)
LEMMA UnchangedKept ==
    /\ UNCHANGED hd => \A h \in Handle : HandleKept(h)
    /\ UNCHANGED proc => \A t \in Proc : CallKept(t)
BY DEF HandleKept, CallKept, Opened

(* A call that returns is out of consideration.                            *)
LEMMA IdleKept ==
    ASSUME TypeInv, NEW t \in Proc, Become(t, Idle)
    PROVE  \A u \in Proc : CallKept(u)
<1>1. CallTyped(Idle) /\ Idle.kind = "idle"
      BY IdleTyped DEF Idle
<1> QED BY <1>1, BecomeKept

(* Reads are quiet.                                                        *)
LEMMA ReadsQuiet ==
    ASSUME TypeInv, NEW t \in Proc
    PROVE  /\ \A d \in Doc : ReadStart(t, d) => QuietStep
           /\ EsGet(t) => QuietStep
           /\ ReadFinish(t) => QuietStep
<1>1. ASSUME NEW d \in Doc, ReadStart(t, d) PROVE QuietStep
  <2> DEFINE p == [Idle EXCEPT !.kind = "read", !.pc = "sent", !.doc = d]
  <2>1. CallTyped(p) /\ p.kind = "read"
        BY DEF CallTyped, ProcState, Idle, Unguarded, Guard, Content
  <2>2. Become(t, p) /\ UNCHANGED <<es, late, cache, hd, sync>>
        BY <1>1 DEF ReadStart, Begin
  <2> HIDE DEF p
  <2>3. \A u \in Proc : CallKept(u)
        BY <2>1, <2>2, BecomeKept
  <2> QED BY <2>2, <2>3, UnchangedKept DEF QuietStep
<1>2. ASSUME EsGet(t) PROVE QuietStep
  <2> DEFINE d == proc[t].doc
             found == [proc[t] EXCEPT !.pc = "answered", !.out = "found",
                                      !.body = es[d][Len(es[d])].val, !.seq = Len(es[d])]
             missing == [proc[t] EXCEPT !.pc = "answered", !.out = "missing"]
             p == IF Live(d) THEN found ELSE missing
  <2>1. Become(t, p) /\ UNCHANGED <<es, late, cache, hd, sync>>
        BY <1>2 DEF EsGet
  <2>2. proc[t] \in ProcState
        BY DEF TypeInv, TypeOK
  <2>3. /\ p.kind = proc[t].kind /\ p.h = proc[t].h /\ p.doc = proc[t].doc /\ p.guard = proc[t].guard
        /\ p.out # "ok"
        BY <2>2 DEF ProcState
  <2> HIDE DEF p
  <2>4. \A u \in Proc : proc'[u] = IF u = t THEN p ELSE proc[u]
        BY <2>1 DEF Become, TypeInv, TypeOK
  <2>5. \A u \in Proc : CallKept(u)
        BY <2>3, <2>4 DEF CallKept
  <2> QED BY <2>1, <2>5, UnchangedKept DEF QuietStep
<1>3. ASSUME ReadFinish(t) PROVE QuietStep
  <2>1. Become(t, Idle) /\ UNCHANGED <<es, late, hd, sync>>
        BY <1>3 DEF ReadFinish, Return
  <2> QED BY <2>1, IdleKept, UnchangedKept DEF QuietStep
<1> QED BY <1>1, <1>2, <1>3

(* WriteAt and Truncate are quiet.                                         *)
LEMMA EditsQuiet ==
    ASSUME TypeInv, NEW h \in Handle, NEW c \in Content, WriteAt(h, c) \/ Truncate(h, c)
    PROVE  QuietStep
<1> DEFINE s == [hd[h] EXCEPT !.buf = c, !.dirty = TRUE]
<1>1. Editable(h) /\ hd' = [hd EXCEPT ![h] = s] /\ UNCHANGED <<es, late, sync>>
      BY DEF WriteAt, Truncate, Stage
<1>2. hd[h] \in HandleState /\ HandleTyped(hd[h])
      BY DEF TypeInv, TypeOK
<1>3. Opened(h)
      BY <1>1 DEF Editable, Opened
<1>4. /\ HandleTyped(s) /\ s.doc = hd[h].doc /\ s.createOnly = hd[h].createOnly
      /\ s.meta = hd[h].meta /\ s.loaded = hd[h].loaded /\ s.st = hd[h].st
      BY <1>2 DEF HandleTyped, HandleState
<1> HIDE DEF s
<1>5. \A g \in Handle : HandleKept(g)
      BY <1>1, <1>3, <1>4, HandleBecomesKept DEF Opened
<1>6. \A t \in Proc : CallKept(t)
  <2>1. proc \in [Proc -> ProcState]
        BY DEF TypeInv, TypeOK
  <2>2. ASSUME NEW t \in Proc, NEW x,
               \/ proc'[t] = proc[t]
               \/ proc'[t] = [proc[t] EXCEPT !.src = x]
               \/ proc'[t] = [proc[t] EXCEPT !.live = FALSE]
        PROVE  CallKept(t)
    <3>1. proc[t] \in ProcState
          BY <2>1
    <3>2. /\ proc'[t].kind = proc[t].kind /\ proc'[t].h = proc[t].h /\ proc'[t].doc = proc[t].doc
          /\ proc'[t].guard = proc[t].guard /\ proc'[t].out = proc[t].out /\ proc'[t].seq = proc[t].seq
          BY <2>2, <3>1 DEF ProcState
    <3> QED BY <3>2 DEF CallKept
  <2>3. CASE UNCHANGED proc
        BY <2>3, UnchangedKept
  <2>4. CASE \E x \in Content : InPlace(h, x)
        BY <2>2, <2>4 DEF InPlace
  <2>5. CASE Reallocate(h)
        BY <2>2, <2>5 DEF Reallocate
  <2>6. Broken \in Content /\ Body \cup {Broken} \subseteq Content
        BY DEF Content
  <2> QED BY <2>3, <2>4, <2>5, <2>6 DEF WriteAt, Truncate
<1> QED BY <1>1, <1>5, <1>6 DEF QuietStep

(* A Flush or Release that sends nothing is quiet.                         *)
LEMMA FlushesQuiet ==
    ASSUME TypeInv, NEW kind \in {"flush", "release"}, NEW h \in Handle,
           FlushClean(kind, h) \/ FlushInvalid(kind, h)
    PROVE  QuietStep
<1> DEFINE clean == [hd[h] EXCEPT !.st = Stopped(kind)]
           failed == [Failed(hd[h]) EXCEPT !.st = Stopped(kind)]
<1>1. /\ MayFlush(kind, h) /\ UNCHANGED <<es, late, cache, proc>>
      /\ hd' = [hd EXCEPT ![h] = clean] \/ hd' = [hd EXCEPT ![h] = failed]
      BY DEF FlushClean, FlushInvalid
<1>2. hd[h] \in HandleState /\ HandleTyped(clean) /\ HandleTyped(failed)
      BY <1>1, FlushTargetsTyped
<1>3. Opened(h)
      BY <1>1 DEF MayFlush, Opened
<1>4. /\ clean.doc = hd[h].doc /\ clean.createOnly = hd[h].createOnly
      /\ clean.meta = hd[h].meta /\ clean.loaded = hd[h].loaded
      /\ clean.st \notin {"fresh", "opening"}
      BY <1>2 DEF HandleState, Stopped
<1>5. /\ failed.doc = hd[h].doc /\ failed.createOnly = hd[h].createOnly
      /\ failed.meta = hd[h].meta /\ failed.loaded = hd[h].loaded
      /\ failed.st \notin {"fresh", "opening"}
      BY <1>2 DEF HandleState, Stopped, Failed
<1> HIDE DEF clean, failed
<1>6. \A g \in Handle : HandleKept(g)
      BY <1>1, <1>2, <1>3, <1>4, <1>5, HandleBecomesKept
<1> QED BY <1>1, <1>6, UnchangedKept DEF QuietStep

(* Sending a request is quiet.                                             *)
LEMMA SendQuiet ==
    ASSUME TypeInv, NEW t \in Proc, Send(t)
    PROVE  QuietStep
<1> DEFINE p == [proc[t] EXCEPT !.pc = "sent", !.body = proc[t].src]
<1>1. Become(t, p) /\ UNCHANGED <<es, late, cache, hd, sync>>
      BY DEF Send
<1>2. proc[t] \in ProcState
      BY DEF TypeInv, TypeOK
<1>3. /\ p.kind = proc[t].kind /\ p.h = proc[t].h /\ p.doc = proc[t].doc
      /\ p.guard = proc[t].guard /\ p.out = proc[t].out /\ p.seq = proc[t].seq
      BY <1>2 DEF ProcState
<1> HIDE DEF p
<1>4. \A u \in Proc : proc'[u] = IF u = t THEN p ELSE proc[u]
      BY <1>1 DEF Become, TypeInv, TypeOK
<1>5. \A u \in Proc : CallKept(u)
      BY <1>3, <1>4 DEF CallKept
<1> QED BY <1>1, <1>5, UnchangedKept DEF QuietStep

(* A failed Flush or Release is quiet.                                     *)
LEMMA FlushFailedQuiet ==
    ASSUME TypeInv, Protocol, NEW t \in Proc, FlushFailed(t)
    PROVE  QuietStep
<1> DEFINE h == proc[t].h
           s == [Failed(hd[h]) EXCEPT !.st = After(proc[t].kind, h)]
<1>1. /\ Pushing(t) /\ hd' = [hd EXCEPT ![h] = s] /\ Become(t, Idle)
      /\ UNCHANGED <<es, late, cache>>
      BY DEF FlushFailed, Return
<1>2. h \in Handle /\ Opened(h) /\ HandleTyped(s)
      BY <1>1, FlushedTyped
<1>3. hd[h] \in HandleState
      BY <1>2 DEF TypeInv, TypeOK
<1>4. /\ s.doc = hd[h].doc /\ s.createOnly = hd[h].createOnly
      /\ s.meta = hd[h].meta /\ s.loaded = hd[h].loaded
      /\ s.st \notin {"fresh", "opening"}
      BY <1>2, <1>3 DEF HandleState, Failed, After, Opened
<1> HIDE DEF s, h
<1>5. \A g \in Handle : HandleKept(g)
      BY <1>1, <1>2, <1>4, HandleBecomesKept
<1> QED BY <1>1, <1>5, IdleKept DEF QuietStep

(* The client's side of an unlink is quiet.                                *)
LEMMA UnlinksQuiet ==
    ASSUME TypeInv, NEW t \in Proc
    PROVE  /\ \A d \in Doc : UnlinkStart(t, d) => QuietStep
           /\ UnlinkDone(t) \/ UnlinkFailed(t) => QuietStep
<1>1. ASSUME NEW d \in Doc, UnlinkStart(t, d) PROVE QuietStep
  <2> DEFINE p == [Idle EXCEPT !.kind = "unlink", !.pc = "sent", !.doc = d,
                               !.guard = [kind |-> "delete", seq |-> 0]]
  <2>1. CallTyped(p) /\ p.kind = "unlink"
        BY DEF CallTyped, ProcState, Idle, Guard, Content
  <2>2. Become(t, p) /\ UNCHANGED <<es, late, cache, hd, sync>>
        BY <1>1 DEF UnlinkStart, Begin
  <2> HIDE DEF p
  <2>3. \A u \in Proc : CallKept(u)
        BY <2>1, <2>2, BecomeKept
  <2> QED BY <2>2, <2>3, UnchangedKept DEF QuietStep
<1>2. ASSUME UnlinkDone(t) \/ UnlinkFailed(t) PROVE QuietStep
  <2>1. Become(t, Idle) /\ UNCHANGED <<es, late, hd>>
        BY <1>2 DEF UnlinkDone, UnlinkFailed, Return
  <2> QED BY <2>1, IdleKept, UnchangedKept DEF QuietStep
<1> QED BY <1>1, <1>2

-----------------------------------------------------------------------------
(* The protocol of opens and flushes.                                      *)
StagesKept ==
    /\ \A h \in Handle : (Opened(h) => Opened(h)') /\ (hd[h].st = "opening" => hd'[h].st = "opening")
    /\ \A t \in Proc : \/ proc'[t].kind \in {"idle", "read", "unlink"}
                       \/ proc'[t].kind = proc[t].kind /\ proc'[t].h = proc[t].h

(* Handles that move forward and calls that stay keep the protocol.        *)
LEMMA StagesKeptProtocol ==
    ASSUME TypeInv, Protocol, StagesKept
    PROVE  Protocol'
<1> SUFFICES ASSUME NEW t \in Proc
             PROVE  /\ proc'[t].kind = "open" =>
                         /\ hd'[proc'[t].h].st = "opening"
                         /\ \A u \in Proc : proc'[u].kind = "open" /\ proc'[u].h = proc'[t].h => u = t
                    /\ proc'[t].kind \in {"flush", "release"} => Opened(proc[t].h)' /\ proc'[t].h = proc[t].h
    BY DEF Protocol, Pushing, Opened
<1>1. ASSUME NEW u \in Proc, proc'[u].kind \in {"open", "flush", "release"}
      PROVE  proc'[u].kind = proc[u].kind /\ proc'[u].h = proc[u].h /\ proc[u].h \in Handle
      BY <1>1 DEF StagesKept, TypeInv, CallTyped
<1>2. ASSUME proc'[t].kind = "open"
      PROVE  /\ hd'[proc'[t].h].st = "opening"
             /\ \A u \in Proc : proc'[u].kind = "open" /\ proc'[u].h = proc'[t].h => u = t
      BY <1>1, <1>2 DEF Protocol, StagesKept
<1>3. ASSUME proc'[t].kind \in {"flush", "release"}
      PROVE  Opened(proc[t].h)' /\ proc'[t].h = proc[t].h
      BY <1>1, <1>3 DEF Protocol, StagesKept, Pushing, Opened
<1> QED BY <1>2, <1>3

(* Quiet steps are of that kind.                                           *)
LEMMA QuietKeepsStages == QuietStep => StagesKept
BY DEF QuietStep, HandleKept, CallKept, StagesKept

(* What an answer changes in a call.                                       *)
LEMMA AnsweredFields ==
    ASSUME NEW p \in ProcState, NEW out, NEW seq
    PROVE  /\ LET a == [p EXCEPT !.pc = "answered", !.out = out, !.seq = seq] IN
              /\ a.kind = p.kind /\ a.h = p.h /\ a.doc = p.doc /\ a.guard = p.guard
              /\ a.out = out /\ a.seq = seq
           /\ LET a == [p EXCEPT !.pc = "answered", !.out = out] IN
              /\ a.kind = p.kind /\ a.h = p.h /\ a.doc = p.doc /\ a.guard = p.guard
              /\ a.out = out
BY DEF ProcState

(* What the other steps do to calls and handles.                           *)
LEMMA EsWriteShape ==
    ASSUME TypeInv, NEW t \in Proc, EsWrite(t)
    PROVE  /\ \A u \in Proc \ {t} : proc'[u] = proc[u]
           /\ proc'[t].kind = proc[t].kind /\ proc'[t].h = proc[t].h
           /\ proc'[t].doc = proc[t].doc /\ proc'[t].guard = proc[t].guard
           /\ proc'[t].out = "ok" => /\ Append1(proc[t].doc, proc[t].body, proc[t].h)
                                     /\ Accepts(proc[t].doc, proc[t].guard)
                                     /\ proc'[t].seq = Len(es[proc[t].doc]) + 1
           /\ proc'[t].out # "ok" => UNCHANGED es
           /\ UNCHANGED <<late, hd>> /\ Writing(t)
<1> DEFINE ok == [proc[t] EXCEPT !.pc = "answered", !.out = "ok", !.seq = Len(es[proc[t].doc]) + 1]
           no == [proc[t] EXCEPT !.pc = "answered", !.out = "refused"]
<1>1. proc[t] \in ProcState /\ proc \in [Proc -> ProcState]
      BY DEF TypeInv, TypeOK
<1>2. \/ /\ Become(t, ok) /\ Append1(proc[t].doc, proc[t].body, proc[t].h)
         /\ Accepts(proc[t].doc, proc[t].guard)
      \/ Become(t, no) /\ UNCHANGED es
      BY DEF EsWrite
<1>3. \/ /\ proc'[t] = ok /\ Append1(proc[t].doc, proc[t].body, proc[t].h)
         /\ Accepts(proc[t].doc, proc[t].guard)
      \/ proc'[t] = no /\ UNCHANGED es
      BY <1>1, <1>2 DEF Become
<1>4. \A u \in Proc \ {t} : proc'[u] = proc[u]
      BY <1>1, <1>2 DEF Become
<1>5. /\ ok.kind = proc[t].kind /\ ok.h = proc[t].h /\ ok.doc = proc[t].doc
      /\ ok.guard = proc[t].guard /\ ok.seq = Len(es[proc[t].doc]) + 1 /\ ok.out = "ok"
      BY <1>1, AnsweredFields
<1>6. /\ no.kind = proc[t].kind /\ no.h = proc[t].h /\ no.doc = proc[t].doc
      /\ no.guard = proc[t].guard /\ no.out = "refused"
      BY <1>1, AnsweredFields
<1>7. UNCHANGED <<late, hd>> /\ Writing(t)
      BY DEF EsWrite
<1> HIDE DEF ok, no
<1> QED BY <1>3, <1>4, <1>5, <1>6, <1>7

(* A call that gives up keeps its handle, document and precondition.       *)
LEMMA GiveUpShape ==
    ASSUME TypeInv, NEW t \in Proc, GiveUp(t)
    PROVE  \A u \in Proc : /\ CallKept(u)
                           /\ proc'[u].kind = proc[u].kind /\ proc'[u].h = proc[u].h
<1> DEFINE p == [proc[t] EXCEPT !.pc = "answered", !.out = "fail"]
<1>1. proc[t] \in ProcState /\ proc \in [Proc -> ProcState] /\ Become(t, p)
      BY DEF TypeInv, TypeOK, GiveUp
<1>2. /\ p.kind = proc[t].kind /\ p.h = proc[t].h /\ p.doc = proc[t].doc
      /\ p.guard = proc[t].guard /\ p.out = "fail"
      BY <1>1 DEF ProcState
<1> HIDE DEF p
<1>3. \A u \in Proc : proc'[u] = IF u = t THEN p ELSE proc[u]
      BY <1>1 DEF Become
<1> QED BY <1>2, <1>3 DEF CallKept

(* Flush takes over the stored version's _seq_no and no longer insists on  *)
(* absence.                                                                *)
LEMMA FlushDoneShape ==
    ASSUME TypeInv, Protocol, NEW t \in Proc, FlushDone(t)
    PROVE  /\ \A u \in Proc : CallKept(u)
           /\ \A g \in Handle \ {proc[t].h} : hd'[g] = hd[g]
           /\ LET h == proc[t].h IN
              /\ h \in Handle /\ proc[t].doc \in Doc /\ Pushing(t) /\ proc[t].out = "ok"
              /\ Opened(h) /\ hd'[h].st \notin {"fresh", "opening"}
              /\ hd'[h].doc = hd[h].doc /\ hd'[h].createOnly = FALSE
              /\ hd'[h].meta = proc[t].seq /\ hd'[h].loaded = hd[h].loaded
<1> DEFINE h == proc[t].h
           s == [Recapture(hd[h], proc[t].seq) EXCEPT !.st = After(proc[t].kind, h)]
<1>1. /\ Pushing(t) /\ proc[t].out = "ok" /\ Become(t, Idle)
      /\ hd' = [hd EXCEPT ![h] = s] /\ UNCHANGED <<es, late>>
      BY DEF FlushDone, Return
<1>2. h \in Handle /\ proc[t].doc \in Doc /\ Opened(h) /\ HandleTyped(s)
      BY <1>1, FlushedTyped
<1>3. hd[h] \in HandleState
      BY <1>2 DEF TypeInv, TypeOK
<1>4. /\ s.doc = hd[h].doc /\ s.createOnly = FALSE /\ s.meta = proc[t].seq
      /\ s.loaded = hd[h].loaded /\ s.st \notin {"fresh", "opening"}
      BY <1>2, <1>3 DEF HandleState, Recapture, After, Opened
<1> HIDE DEF s
<1>5. hd'[h] = s /\ \A g \in Handle \ {h} : hd'[g] = hd[g]
      BY <1>1, <1>2, HandleBecomesTyped
<1>6. \A u \in Proc : CallKept(u)
      BY <1>1, IdleKept
<1> QED BY <1>1, <1>2, <1>4, <1>5, <1>6 DEF Opened

(* Flush begins a call with the precondition that PutGuard chooses.        *)
LEMMA FlushStartShape ==
    ASSUME TypeInv, NEW t \in Proc, NEW kind \in {"flush", "release"}, NEW h \in Handle,
           FlushStart(t, kind, h)
    PROVE  /\ \A u \in Proc \ {t} : proc'[u] = proc[u]
           /\ proc'[t].kind = kind /\ proc'[t].h = h /\ proc'[t].doc = hd[h].doc
           /\ proc'[t].guard = PutGuard(h) /\ proc'[t].out = "none"
           /\ \A g \in Handle : HandleKept(g)
           /\ Opened(h)
<1> DEFINE p == [Idle EXCEPT !.kind = kind, !.pc = "ready", !.doc = hd[h].doc, !.h = h,
                             !.src = hd[h].buf, !.live = TRUE, !.guard = PutGuard(h)]
           s == [hd[h] EXCEPT !.st = Flushing(kind)]
<1>1. MayFlush(kind, h) /\ Become(t, p) /\ hd' = [hd EXCEPT ![h] = s] /\ Opened(h)
      BY DEF FlushStart, Begin, MayFlush, Opened
<1>2. hd[h] \in HandleState /\ HandleTyped(s)
      BY <1>1, FlushTargetsTyped
<1>3. /\ s.doc = hd[h].doc /\ s.createOnly = hd[h].createOnly /\ s.meta = hd[h].meta
      /\ s.loaded = hd[h].loaded /\ s.st \notin {"fresh", "opening"}
      BY <1>2 DEF HandleState, Flushing
<1>4. /\ p.kind = kind /\ p.h = h /\ p.doc = hd[h].doc /\ p.guard = PutGuard(h) /\ p.out = "none"
      BY DEF Idle
<1> HIDE DEF p, s
<1>5. \A g \in Handle : HandleKept(g)
      BY <1>1, <1>2, <1>3, HandleBecomesKept
<1>6. proc'[t] = p /\ \A u \in Proc \ {t} : proc'[u] = proc[u]
      BY <1>1 DEF Become, TypeInv, TypeOK
<1> QED BY <1>1, <1>4, <1>5, <1>6

(* OpenWrite fails, or opens a handle that either names the version it was *)
(* staged from or knows of none.                                           *)
LEMMA OpenWriteShape ==
    ASSUME TypeInv, NEW h \in Handle, NEW d \in Doc, NEW fl \in Flags, NEW found \in BOOLEAN,
           NEW src, NEW seq \in Nat, found => seq # 0, OpenWrite(h, d, fl, found, src, seq)
    PROVE  /\ \A g \in Handle \ {h} : hd'[g] = hd[g]
           /\ \/ hd'[h].st = "fresh"
              \/ /\ hd'[h].st = "open"
                 /\ hd'[h].loaded = hd'[h].meta
                 /\ hd'[h].createOnly => hd'[h].loaded = 0
                 /\ hd'[h].meta = 0 =>
                      hd'[h].createOnly \/ ~GuardedOpens \/ Policy = "create-only"
<1> DEFINE s == Staged(d, fl, found, src, seq)
<1>1. fl \in OpenFlags
      BY FlagsAssumption
<1>2. HandleTyped(s)
      BY <1>1, StagedTyped
<1>3. /\ s.st = "open" /\ s.meta = (IF found THEN seq ELSE 0) /\ s.loaded = s.meta
      /\ s.createOnly = (fl.excl \/ (~found /\ fl.create /\ Policy = "safe-create-update"))
      BY DEF Staged, FreshHandle
<1> HIDE DEF s
<1>4. CASE fl.excl /\ found
  <2>1. hd' = [hd EXCEPT ![h] = FreshHandle] /\ FreshHandle.st = "fresh"
        BY <1>4 DEF OpenWrite, FreshHandle
  <2> QED BY <2>1, FreshTyped, HandleBecomesTyped
<1>5. CASE ~(fl.excl /\ found)
  <2>1. hd' = [hd EXCEPT ![h] = s]
        BY <1>5 DEF OpenWrite, s
  <2>2. hd'[h] = s /\ \A g \in Handle \ {h} : hd'[g] = hd[g]
        BY <2>1, <1>2, HandleBecomesTyped
  <2>3. s.createOnly => s.loaded = 0
    <3>1. CASE found
      <4>1. ~s.createOnly
            BY <3>1, <1>1, <1>3, <1>5, Zenon
      <4> QED BY <4>1
    <3>2. CASE ~found
          BY <3>2, <1>3
    <3> QED BY <3>1, <3>2
  <2>4. s.meta = 0 => ~found
        BY <1>3
  <2>5. s.meta = 0 => s.createOnly \/ ~GuardedOpens \/ Policy = "create-only"
        BY <2>4, <1>3 DEF GuardedOpens
  <2> QED BY <2>2, <2>3, <2>5, <1>3
<1> QED BY <1>4, <1>5

(* An open answered from the cache.                                        *)
LEMMA OpenHitShape ==
    ASSUME TypeInv, NEW h \in Handle, NEW d \in Doc, NEW fl \in Flags, OpenHit(h, d, fl)
    PROVE  /\ UNCHANGED <<es, late, proc>> /\ hd[h].st = "fresh"
           /\ \A g \in Handle \ {h} : hd'[g] = hd[g]
           /\ \/ hd'[h].st = "fresh"
              \/ /\ hd'[h].st = "open"
                 /\ hd'[h].loaded = hd'[h].meta
                 /\ hd'[h].createOnly => hd'[h].loaded = 0
                 /\ hd'[h].meta = 0 =>
                      hd'[h].createOnly \/ ~GuardedOpens \/ Policy = "create-only"
<1>1. /\ hd[h].st = "fresh" /\ cache[d].seq # 0 /\ UNCHANGED <<es, late, proc>>
      /\ OpenWrite(h, d, fl, TRUE, cache[d].src, cache[d].seq)
      BY DEF OpenHit
<1>2. cache[d].seq \in Nat
      BY DEF TypeInv, TypeOK, CacheEntry
<1> QED BY <1>1, <1>2, OpenWriteShape

(* An open answered by Elasticsearch, or whose Get failed.                 *)
LEMMA OpenFinishShape ==
    ASSUME TypeInv, Protocol, NEW t \in Proc, OpenFinish(t)
    PROVE  /\ UNCHANGED <<es, late>> /\ \A u \in Proc : CallKept(u)
           /\ proc[t].kind = "open" /\ proc'[t] = Idle
           /\ \A u \in Proc \ {t} : proc'[u] = proc[u]
           /\ LET h == proc[t].h IN
              /\ h \in Handle /\ hd[h].st = "opening"
              /\ \A g \in Handle \ {h} : hd'[g] = hd[g]
              /\ \/ hd'[h].st = "fresh"
                 \/ /\ hd'[h].st = "open"
                    /\ hd'[h].loaded = hd'[h].meta
                    /\ hd'[h].createOnly => hd'[h].loaded = 0
                    /\ hd'[h].meta = 0 =>
                         hd'[h].createOnly \/ ~GuardedOpens \/ Policy = "create-only"
<1> DEFINE h == proc[t].h
<1>1. /\ proc[t].kind = "open" /\ Become(t, Idle) /\ UNCHANGED <<es, late>>
      /\ OpenWrite(proc[t].h, proc[t].doc, proc[t].flags, proc[t].out = "found",
                   proc[t].body, proc[t].seq)
      BY DEF OpenFinish, Return
<1>2. /\ h \in Handle /\ proc[t].doc \in Doc /\ proc[t].flags \in Flags /\ proc[t].seq \in Nat
      /\ proc[t].out = "found" => proc[t].seq # 0
      BY <1>1 DEF TypeInv, CallTyped, ProcState
<1>3. (proc[t].out = "found") \in BOOLEAN
      OBVIOUS
<1>4. hd[h].st = "opening"
      BY <1>1 DEF Protocol
<1>5. /\ \A g \in Handle \ {h} : hd'[g] = hd[g]
      /\ \/ hd'[h].st = "fresh"
         \/ /\ hd'[h].st = "open"
            /\ hd'[h].loaded = hd'[h].meta
            /\ hd'[h].createOnly => hd'[h].loaded = 0
            /\ hd'[h].meta = 0 =>
                 hd'[h].createOnly \/ ~GuardedOpens \/ Policy = "create-only"
      BY <1>1, <1>2, <1>3, OpenWriteShape
<1>6. proc'[t] = Idle /\ \A u \in Proc \ {t} : proc'[u] = proc[u]
      BY <1>1, IdleTyped, BecomeTyped
<1>7. \A u \in Proc : CallKept(u)
      BY <1>1, IdleKept
<1> QED BY <1>1, <1>2, <1>4, <1>5, <1>6, <1>7

(* An open that has to ask Elasticsearch.                                  *)
LEMMA OpenMissShape ==
    ASSUME TypeInv, NEW t \in Proc, NEW h \in Handle, NEW d \in Doc, NEW fl \in Flags,
           OpenMiss(t, h, d, fl)
    PROVE  /\ UNCHANGED <<es, late>> /\ hd[h].st = "fresh" /\ hd'[h].st = "opening"
           /\ \A g \in Handle \ {h} : hd'[g] = hd[g]
           /\ proc'[t].kind = "open" /\ proc'[t].h = h
           /\ \A u \in Proc \ {t} : proc'[u] = proc[u]
<1> DEFINE p == [Idle EXCEPT !.kind = "open", !.pc = "sent", !.doc = d, !.h = h, !.flags = fl]
           s == [hd[h] EXCEPT !.st = "opening"]
<1>1. /\ Become(t, p) /\ hd' = [hd EXCEPT ![h] = s] /\ hd[h].st = "fresh"
      /\ UNCHANGED <<es, late>>
      BY DEF OpenMiss, Begin
<1>2. p.kind = "open" /\ p.h = h
      BY DEF Idle
<1>3. hd[h] \in HandleState /\ hd \in [Handle -> HandleState] /\ proc \in [Proc -> ProcState]
      BY DEF TypeInv, TypeOK
<1>4. s.st = "opening"
      BY <1>3 DEF HandleState
<1> HIDE DEF p, s
<1>5. hd'[h] = s /\ \A g \in Handle \ {h} : hd'[g] = hd[g]
      BY <1>1, <1>3
<1>6. proc'[t] = p /\ \A u \in Proc \ {t} : proc'[u] = proc[u]
      BY <1>1, <1>3 DEF Become
<1> QED BY <1>1, <1>2, <1>4, <1>5, <1>6

(* Every kind of step, by what it does to the state the invariants are     *)
(* about.                                                                  *)
LEMMA StepKinds ==
    ASSUME TypeInv, Protocol, [Next]_vars
    PROVE  \/ QuietStep
           \/ \E h \in Handle, d \in Doc, fl \in Flags : OpenHit(h, d, fl)
           \/ \E t \in Proc, h \in Handle, d \in Doc, fl \in Flags : OpenMiss(t, h, d, fl)
           \/ \E t \in Proc : OpenFinish(t) \/ EsWrite(t) \/ GiveUp(t) \/ FlushDone(t)
           \/ \E t \in Proc, kind \in {"flush", "release"}, h \in Handle : FlushStart(t, kind, h)
           \/ \E r \in late : EsLateWrite(r)
           \/ \E d \in Doc, b \in Body : ExternalWrite(d, b)
           \/ \E d \in Doc : ExternalDelete(d)
<1>1. ASSUME NEW t \in Proc, StartCall(t)
      PROVE  \/ QuietStep
             \/ \E h \in Handle, d \in Doc, fl \in Flags : OpenMiss(t, h, d, fl)
             \/ \E kind \in {"flush", "release"}, h \in Handle : FlushStart(t, kind, h)
      BY <1>1, ReadsQuiet, UnlinksQuiet DEF StartCall
<1>2. ASSUME NEW t \in Proc, Advance(t)
      PROVE  QuietStep \/ OpenFinish(t) \/ EsWrite(t) \/ GiveUp(t) \/ FlushDone(t)
      BY <1>2, ReadsQuiet, SendQuiet, FlushFailedQuiet, UnlinksQuiet DEF Advance
<1>3. ASSUME NEW h \in Handle, UseHandle(h)
      PROVE  QuietStep \/ \E d \in Doc, fl \in Flags : OpenHit(h, d, fl)
      BY <1>3, EditsQuiet, FlushesQuiet DEF UseHandle
<1>4. ASSUME NEW d \in Doc, Expire(d) PROVE QuietStep
      BY <1>4, UnchangedKept DEF Expire, QuietStep
<1>5. CASE UNCHANGED vars
      BY <1>5, UnchangedKept DEF vars, QuietStep
<1> QED BY <1>1, <1>2, <1>3, <1>4, <1>5 DEF Next

(* Every step keeps the protocol.                                          *)
LEMMA ProtocolStep ==
    ASSUME TypeInv, Protocol, [Next]_vars
    PROVE  Protocol'
<1>1. CASE StagesKept
      BY <1>1, StagesKeptProtocol
<1>2. CASE QuietStep
      BY <1>1, <1>2, QuietKeepsStages
<1>3. ASSUME NEW h \in Handle, NEW d \in Doc, NEW fl \in Flags, OpenHit(h, d, fl) PROVE Protocol'
  <2>1. StagesKept
        BY <1>3, OpenHitShape DEF StagesKept, Opened
  <2> QED BY <2>1, <1>1
<1>4. ASSUME NEW t \in Proc, NEW h \in Handle, NEW d \in Doc, NEW fl \in Flags, OpenMiss(t, h, d, fl)
      PROVE  Protocol'
  <2>1. /\ hd[h].st = "fresh" /\ hd'[h].st = "opening"
        /\ \A g \in Handle \ {h} : hd'[g] = hd[g]
        /\ proc'[t].kind = "open" /\ proc'[t].h = h
        /\ \A u \in Proc \ {t} : proc'[u] = proc[u]
        BY <1>4, OpenMissShape
  <2>2. \A u \in Proc : proc[u].kind \in {"open", "flush", "release"} => proc[u].h \in Handle /\ proc[u].h # h
        BY <2>1 DEF Protocol, TypeInv, CallTyped, Pushing, Opened
  <2> QED BY <2>1, <2>2 DEF Protocol, Pushing, Opened
<1>5. ASSUME NEW t \in Proc, OpenFinish(t) PROVE Protocol'
  <2> DEFINE h == proc[t].h
  <2>1. /\ proc[t].kind = "open" /\ proc'[t] = Idle
        /\ \A u \in Proc \ {t} : proc'[u] = proc[u]
        /\ h \in Handle /\ hd[h].st = "opening"
        /\ \A g \in Handle \ {h} : hd'[g] = hd[g]
        BY <1>5, OpenFinishShape
  <2>2. \A u \in Proc \ {t} : proc[u].kind \in {"open", "flush", "release"} => proc[u].h \in Handle /\ proc[u].h # h
        BY <2>1 DEF Protocol, TypeInv, CallTyped, Pushing, Opened
  <2>3. Idle.kind = "idle"
        BY DEF Idle
  <2> QED BY <2>1, <2>2, <2>3 DEF Protocol, Pushing, Opened
<1>6. ASSUME NEW t \in Proc, EsWrite(t) PROVE Protocol'
  <2>1. StagesKept
        BY <1>6, EsWriteShape DEF StagesKept, Opened, EsWrite
  <2> QED BY <2>1, <1>1
<1>7. ASSUME NEW t \in Proc, GiveUp(t) PROVE Protocol'
  <2>1. StagesKept
        BY <1>7, GiveUpShape DEF StagesKept, Opened, GiveUp
  <2> QED BY <2>1, <1>1
<1>8. ASSUME NEW t \in Proc, FlushDone(t) PROVE Protocol'
  <2>1. \A h \in Handle : (Opened(h) => Opened(h)') /\ (hd[h].st = "opening" => hd'[h].st = "opening")
        BY <1>8, FlushDoneShape DEF Opened
  <2>2. StagesKept
        BY <1>8, <2>1, FlushDoneShape DEF StagesKept, CallKept
  <2> QED BY <2>2, <1>1
<1>9. ASSUME NEW t \in Proc, NEW kind \in {"flush", "release"}, NEW h \in Handle, FlushStart(t, kind, h)
      PROVE  Protocol'
  <2>1. /\ \A u \in Proc \ {t} : proc'[u] = proc[u]
        /\ proc'[t].kind = kind /\ proc'[t].h = h /\ Opened(h)
        /\ \A g \in Handle : HandleKept(g)
        BY <1>9, FlushStartShape
  <2>2. \A u \in Proc : proc[u].kind \in {"open", "flush", "release"} => proc[u].h \in Handle
        BY DEF TypeInv, CallTyped
  <2> QED BY <2>1, <2>2 DEF Protocol, Pushing, Opened, HandleKept
<1>10. CASE UNCHANGED <<hd, proc>>
  <2>1. StagesKept
        BY <1>10 DEF StagesKept, Opened
  <2> QED BY <2>1, <1>1
<1> QED BY StepKinds, <1>2, <1>3, <1>4, <1>5, <1>6, <1>7, <1>8, <1>9, <1>10
        DEF EsLateWrite, ExternalWrite, ExternalDelete

-----------------------------------------------------------------------------
(* The preconditions.  What a saved version may build on stays so while    *)
(* documents only grow and no handle's starting point changes.             *)
Extends(vs, ws) ==
    /\ Len(vs) \in Nat /\ Len(ws) \in Nat /\ Len(vs) <= Len(ws)
    /\ \A n \in 1..Len(vs) : ws[n] = vs[n]

(* A base stays a base.                                                    *)
LEMMA BaseStays ==
    ASSUME NEW h, NEW l, NEW vs, NEW ws, Extends(vs, ws), NEW s, Base(h, l, vs, s)
    PROVE  Base(h, l, ws, s)
BY DEF Base, Extends

(* A justified precondition stays justified.                               *)
LEMMA JustifiedStays ==
    ASSUME NEW h, NEW l, NEW vs, NEW ws, Extends(vs, ws), NEW g, Justified(h, l, vs, g)
    PROVE  Justified(h, l, ws, g)
BY BaseStays DEF Justified

(* A handle's metadata stays sound.                                        *)
LEMMA SoundHandleStays ==
    ASSUME NEW h, NEW vs, NEW ws, Extends(vs, ws), NEW s, NEW r, SoundHandle(h, s, vs),
           r.createOnly = s.createOnly, r.meta = s.meta, r.loaded = s.loaded
    PROVE  SoundHandle(h, r, ws)
BY BaseStays DEF SoundHandle

(* A save under way stays sound.                                           *)
LEMMA SoundCallStays ==
    ASSUME NEW vs, NEW ws, Extends(vs, ws), NEW s, NEW r, NEW p, NEW q, SoundCall(p, s, vs),
           r.doc = s.doc, r.loaded = s.loaded,
           q.h = p.h, q.doc = p.doc, q.guard = p.guard,
           q.out = "ok" => p.out = "ok" /\ q.seq = p.seq
    PROVE  SoundCall(q, r, ws)
<1>1. Justified(q.h, r.loaded, ws, q.guard)
      BY JustifiedStays DEF SoundCall
<1>2. \A s1 : s1 \in 1..Len(vs) /\ vs[s1].by = p.h => s1 \in 1..Len(ws) /\ ws[s1].by = p.h
      BY DEF Extends
<1> QED BY <1>1, <1>2 DEF SoundCall

(* The precondition that Flush and Put choose is justified.                *)
LEMMA PutGuardJustified ==
    ASSUME TypeInv, NEW h \in Handle, NEW vs, SoundHandle(h, hd[h], vs)
    PROVE  Justified(h, hd[h].loaded, vs, PutGuard(h))
<1>1. CASE hd[h].createOnly \/ Policy = "create-only"
      BY <1>1 DEF PutGuard, Justified, SoundHandle
<1>2. CASE ~(hd[h].createOnly \/ Policy = "create-only") /\ Policy = "safe-create-update" /\ hd[h].meta # 0
      BY <1>2 DEF PutGuard, Justified, SoundHandle
<1>3. CASE /\ ~(hd[h].createOnly \/ Policy = "create-only")
           /\ ~(Policy = "safe-create-update" /\ hd[h].meta # 0)
  <2>1. PutGuard(h) = Unguarded
        BY <1>3 DEF PutGuard
  <2>2. Policy = "upsert-new-files" \/ (Policy = "safe-create-update" /\ hd[h].meta = 0)
        BY <1>3, PolicyAssumption DEF Policies
  <2>3. ~GuardedOpens
        BY <2>2, <1>3 DEF SoundHandle, GuardedOpens
  <2> QED BY <2>1, <2>2, <2>3 DEF Unguarded, Justified, SoundHandle
<1> QED BY <1>1, <1>2, <1>3

(* Elasticsearch, having checked a justified precondition, appends a       *)
(* version that the history properties allow.                              *)
AcceptsIn(vs, g) ==
    \/ g.kind = "create" /\ (Len(vs) = 0 \/ vs[Len(vs)].val = Absent)
    \/ g.kind = "match" /\ Len(vs) = g.seq
    \/ g.kind = "none"

(* A history with one more, justified, version is still allowed.           *)
LEMMA HistoryGrows ==
    ASSUME NEW h, NEW l, NEW vs, NEW ws, Extends(vs, ws), Len(ws) = Len(vs) + 1,
           SoundHistory(h, l, vs),
           ws[Len(ws)].by = h => \E g : Justified(h, l, vs, g) /\ AcceptsIn(vs, g)
    PROVE  SoundHistory(h, l, ws)
<1> DEFINE m == Len(vs)
<1>1. m \in Nat /\ Len(ws) = m + 1 /\ \A n \in 1..m : ws[n] = vs[n]
      BY DEF Extends
<1>2. ASSUME ws[m + 1].by = h
      PROVE  /\ GuardedOpens /\ m > 0 => ws[m].val = Absent \/ ws[m].by = h \/ m = l
             /\ Policy = "safe-create-update" /\ l # 0 => m = l \/ (m > 0 /\ ws[m].by = h)
  <2>1. PICK g : Justified(h, l, vs, g) /\ AcceptsIn(vs, g)
        BY <1>1, <1>2
  <2>2. m > 0 => ws[m] = vs[m]
        BY <1>1
  <2>3. CASE g.kind = "create"
    <3>1. l = 0 \/ Policy = "create-only"
          BY <2>1, <2>3 DEF Justified
    <3>2. m = 0 \/ vs[m].val = Absent
          BY <2>1, <2>3 DEF AcceptsIn
    <3> QED BY <1>1, <2>2, <3>1, <3>2
  <2>4. CASE g.kind = "match"
    <3>1. m = g.seq /\ m # 0 /\ Base(h, l, vs, m)
          BY <2>1, <2>4 DEF Justified, AcceptsIn
    <3>2. m = l \/ vs[m].by = h
          BY <3>1 DEF Base
    <3> QED BY <1>1, <2>2, <3>1, <3>2
  <2>5. CASE g.kind = "none"
    <3>1. ~GuardedOpens /\ (l = 0 \/ Policy = "upsert-new-files")
          BY <2>1, <2>5 DEF Justified
    <3> QED BY <3>1
  <2> QED BY <2>1, <2>3, <2>4, <2>5 DEF Justified
<1>3. ASSUME GuardedOpens, NEW n \in 2..Len(ws), ws[n].by = h
      PROVE  ws[n-1].val = Absent \/ ws[n-1].by = h \/ n - 1 = l
  <2>1. CASE n = m + 1
        BY <2>1, <1>1, <1>2, <1>3
  <2>2. CASE n # m + 1
    <3>1. n \in 2..m /\ n - 1 \in 1..m
          BY <1>1, <2>2
    <3> QED BY <1>1, <1>3, <3>1 DEF SoundHistory
  <2> QED BY <2>1, <2>2
<1>4. ASSUME Policy = "safe-create-update", NEW n \in 1..Len(ws), ws[n].by = h, l # 0
      PROVE  n = l + 1 \/ (n > 1 /\ ws[n-1].by = h)
  <2>1. CASE n = m + 1
        BY <2>1, <1>1, <1>2, <1>4
  <2>2. CASE n # m + 1
    <3>1. n \in 1..m /\ (n > 1 => n - 1 \in 1..m)
          BY <1>1, <2>2
    <3>2. vs[n].by = h /\ (n > 1 => ws[n-1] = vs[n-1])
          BY <1>1, <1>4, <3>1
    <3> QED BY <1>4, <3>1, <3>2 DEF SoundHistory
  <2> QED BY <2>1, <2>2
<1> QED BY <1>3, <1>4 DEF SoundHistory

(* A handle that stored nothing overwrote nothing.                         *)
LEMMA NoHistory ==
    ASSUME NEW h, NEW l, NEW vs, \A n \in 1..Len(vs) : vs[n].by # h, Len(vs) \in Nat
    PROVE  SoundHistory(h, l, vs)
BY DEF SoundHistory

-----------------------------------------------------------------------------
(* What a step may do and keep OCCInv.                                     *)
GoodHandle(h) ==
    \/ HandleKept(h)
    \/ /\ HandleInv(h)'
       /\ Opened(h) => hd'[h].doc = hd[h].doc /\ hd'[h].loaded = hd[h].loaded

GoodRequest(r) == r.h \in Handle => Opened(r.h) /\ Justified(r.h, hd[r.h].loaded, es[r.doc], r.guard)

Grows == \A d \in Doc : Extends(es[d], es'[d])

(* A new version is by nobody, or by an open handle on a justified basis.  *)
NewVersion(d) ==
    \/ es'[d] = es[d]
    \/ /\ Len(es'[d]) = Len(es[d]) + 1
       /\ \A h \in Handle :
            es'[d][Len(es'[d])].by = h =>
                /\ Opened(h)
                /\ \E g : Justified(h, hd[h].loaded, es[d], g) /\ AcceptsIn(es[d], g)

GoodStep ==
    /\ Grows /\ \A d \in Doc : NewVersion(d)
    /\ \A h \in Handle : GoodHandle(h)
    /\ \A t \in Proc : CallKept(t) \/ CallInv(t)'
    /\ \A r \in late' : r \in Request /\ (r \in late \/ GoodRequest(r))

(* An open handle keeps its document and the version it was staged from.   *)
LEMMA OpenHandlesKeepTheirBase ==
    ASSUME GoodStep, NEW h \in Handle, Opened(h)
    PROVE  hd'[h].doc = hd[h].doc /\ hd'[h].loaded = hd[h].loaded
BY DEF GoodStep, GoodHandle, HandleKept

(* The four parts of OCCInv, one by one: handles, ...                      *)
LEMMA HandlesStaySound ==
    ASSUME TypeInv, OCCInv, GoodStep, NEW h \in Handle
    PROVE  HandleInv(h)'
<1>1. CASE HandleInv(h)'
      BY <1>1
<1>2. CASE HandleKept(h) /\ Opened(h)
  <2>1. /\ hd[h].doc \in Doc /\ hd'[h].doc = hd[h].doc
        /\ hd'[h].createOnly = hd[h].createOnly /\ hd'[h].meta = hd[h].meta /\ hd'[h].loaded = hd[h].loaded
        BY <1>2 DEF TypeInv, HandleTyped, HandleKept, Opened
  <2>2. SoundHandle(h, hd[h], es[hd[h].doc])
        BY <1>2 DEF OCCInv, HandleInv
  <2>3. Extends(es[hd[h].doc], es'[hd[h].doc])
        BY <2>1 DEF GoodStep, Grows
  <2>4. SoundHandle(h, hd'[h], es'[hd[h].doc])
        BY <2>1, <2>2, <2>3, SoundHandleStays
  <2>5. Opened(h)'
        BY <1>2 DEF HandleKept
  <2> QED BY <2>1, <2>4, <2>5 DEF HandleInv, Opened
<1>3. CASE HandleKept(h) /\ ~Opened(h)
  <2>1. ~Opened(h)'
        BY <1>3 DEF HandleKept
  <2>2. Traceless(h)
        BY <1>3 DEF OCCInv, HandleInv
  <2>3. ASSUME NEW d \in Doc, NEW n \in 1..Len(es'[d])
        PROVE  es'[d][n].by # h
    <3>1. Extends(es[d], es'[d]) /\ NewVersion(d)
          BY DEF GoodStep, Grows
    <3>2. CASE n \in 1..Len(es[d])
          BY <2>2, <3>1, <3>2 DEF Traceless, Extends
    <3>3. CASE n \notin 1..Len(es[d])
      <4>1. n = Len(es'[d]) /\ Len(es'[d]) = Len(es[d]) + 1
            BY <3>1, <3>3 DEF Extends, NewVersion
      <4>2. es'[d][n].by = h => Opened(h)
            BY <3>1, <4>1 DEF NewVersion, Extends
      <4> QED BY <4>2, <1>3
    <3> QED BY <3>2, <3>3
  <2>4. \A r \in late' : r.h # h
        BY <1>3, <2>2 DEF GoodStep, GoodRequest, Traceless
  <2>5. Traceless(h)'
        BY <2>3, <2>4 DEF Traceless
  <2> QED BY <2>1, <2>5 DEF HandleInv, Opened
<1> QED BY <1>1, <1>2, <1>3 DEF GoodStep, GoodHandle

(* ... saves under way, ...                                                *)
LEMMA CallsStaySound ==
    ASSUME TypeInv, Protocol, OCCInv, GoodStep, NEW t \in Proc
    PROVE  CallInv(t)'
<1> SUFFICES ASSUME CallKept(t), Pushing(t)'
             PROVE  SoundCall(proc'[t], hd'[proc'[t].h], es'[proc'[t].doc])
    BY DEF GoodStep, CallInv
<1> DEFINE h == proc[t].h
           d == proc[t].doc
<1>1. /\ Pushing(t) /\ proc'[t].h = h /\ proc'[t].doc = d /\ proc'[t].guard = proc[t].guard
      /\ proc'[t].out = "ok" => proc[t].out = "ok" /\ proc'[t].seq = proc[t].seq
      BY DEF CallKept, Pushing
<1>2. h \in Handle /\ d \in Doc /\ Opened(h)
      BY <1>1 DEF TypeInv, CallTyped, Pushing, Protocol
<1>3. SoundCall(proc[t], hd[h], es[d])
      BY <1>1 DEF OCCInv, CallInv
<1>4. hd'[h].doc = hd[h].doc /\ hd'[h].loaded = hd[h].loaded
      BY <1>2, OpenHandlesKeepTheirBase
<1>5. Extends(es[d], es'[d])
      BY <1>2 DEF GoodStep, Grows
<1>6. SoundCall(proc'[t], hd'[h], es'[d])
      BY <1>1, <1>3, <1>4, <1>5, SoundCallStays
<1> QED BY <1>1, <1>6

(* ... requests given up on, ...                                           *)
LEMMA RequestsStayJustified ==
    ASSUME TypeInv, OCCInv, GoodStep, NEW r \in late', r.h \in Handle
    PROVE  Justified(r.h, hd'[r.h].loaded, es'[r.doc], r.guard)
<1>1. Opened(r.h) /\ Justified(r.h, hd[r.h].loaded, es[r.doc], r.guard)
      BY DEF GoodStep, GoodRequest, OCCInv, HandleInv, Traceless, RequestInv
<1>2. r.doc \in Doc
      BY DEF GoodStep, Request
<1>3. hd'[r.h].loaded = hd[r.h].loaded
      BY <1>1, OpenHandlesKeepTheirBase
<1>4. Extends(es[r.doc], es'[r.doc])
      BY <1>2 DEF GoodStep, Grows
<1> QED BY <1>1, <1>3, <1>4, JustifiedStays

(* ... and the documents' histories.                                       *)
LEMMA HistoryStaysSound ==
    ASSUME TypeInv, OCCInv, GoodStep, NEW h \in Handle, NEW d \in Doc
    PROVE  SoundHistory(h, hd'[h].loaded, es'[d])
<1>1. Extends(es[d], es'[d]) /\ NewVersion(d)
      BY DEF GoodStep, Grows
<1>2. CASE ~Opened(h)
  <2>1. \A n \in 1..Len(es[d]) : es[d][n].by # h
        BY <1>2 DEF OCCInv, HandleInv, Traceless
  <2>2. \A n \in 1..Len(es'[d]) : es'[d][n].by # h
    <3>1. CASE es'[d] = es[d]
          BY <3>1, <2>1
    <3>2. CASE Len(es'[d]) = Len(es[d]) + 1 /\ es'[d][Len(es'[d])].by # h
          BY <3>2, <2>1, <1>1 DEF Extends
    <3> QED BY <3>1, <3>2, <1>1, <1>2 DEF NewVersion
  <2> QED BY <2>2, <1>1, NoHistory DEF Extends
<1>3. CASE Opened(h)
  <2>1. hd'[h].loaded = hd[h].loaded /\ SoundHistory(h, hd[h].loaded, es[d])
        BY <1>3, OpenHandlesKeepTheirBase DEF OCCInv, HistoryInv
  <2>2. CASE es'[d] = es[d]
        BY <2>1, <2>2
  <2>3. CASE es'[d] # es[d]
    <3>1. /\ Len(es'[d]) = Len(es[d]) + 1
          /\ es'[d][Len(es'[d])].by = h =>
                \E g : Justified(h, hd[h].loaded, es[d], g) /\ AcceptsIn(es[d], g)
          BY <1>1, <2>3 DEF NewVersion
    <3>2. SoundHistory(h, hd[h].loaded, es'[d])
          BY <1>1, <2>1, <3>1, HistoryGrows
    <3> QED BY <2>1, <3>2
  <2> QED BY <2>2, <2>3
<1> QED BY <1>2, <1>3

(* Together.                                                               *)
LEMMA GoodStepsKeepOCC ==
    ASSUME TypeInv, Protocol, OCCInv, GoodStep
    PROVE  OCCInv'
<1>1. \A r \in late' : RequestInv(r)'
      BY RequestsStayJustified DEF RequestInv
<1>2. HistoryInv'
      BY HistoryStaysSound DEF HistoryInv
<1> QED BY <1>1, <1>2, HandlesStaySound, CallsStaySound DEF OCCInv

-----------------------------------------------------------------------------
(* Every step is such a step.                                              *)
LEMMA UnchangedGrows ==
    ASSUME TypeInv, UNCHANGED es
    PROVE  Grows /\ \A d \in Doc : NewVersion(d)
BY DEF TypeInv, TypeOK, Grows, Extends, NewVersion

(* Quiet steps are good.                                                   *)
LEMMA QuietGood ==
    ASSUME TypeInv, late' \subseteq Request, QuietStep
    PROVE  GoodStep
BY UnchangedGrows DEF QuietStep, GoodStep, GoodHandle

(* A step that opens a handle, or begins to, is good.                      *)
LEMMA OpenGood ==
    ASSUME TypeInv, OCCInv, late' \subseteq Request, UNCHANGED <<es, late>>,
           NEW h \in Handle, ~Opened(h), \A g \in Handle \ {h} : hd'[g] = hd[g],
           \/ hd'[h].st \in {"fresh", "opening"}
           \/ /\ hd'[h].st = "open"
              /\ hd'[h].loaded = hd'[h].meta
              /\ hd'[h].createOnly => hd'[h].loaded = 0
              /\ hd'[h].meta = 0 => hd'[h].createOnly \/ ~GuardedOpens \/ Policy = "create-only",
           \A t \in Proc : CallKept(t) \/ CallInv(t)'
    PROVE  GoodStep
<1>1. Traceless(h)
      BY DEF OCCInv, HandleInv
<1>2. Traceless(h)'
      BY <1>1 DEF Traceless
<1>3. HandleInv(h)'
  <2>1. CASE hd'[h].st \in {"fresh", "opening"}
        BY <2>1, <1>2 DEF HandleInv, Opened
  <2>2. CASE hd'[h].st = "open"
    <3>1. \A vs : SoundHandle(h, hd'[h], vs)
          BY <2>2 DEF SoundHandle, Base
    <3>2. Opened(h)'
          BY <2>2 DEF Opened
    <3> QED BY <3>1, <3>2 DEF HandleInv, Opened
  <2> QED BY <2>1, <2>2
<1>4. \A g \in Handle \ {h} : HandleKept(g)
      BY DEF HandleKept, Opened
<1>5. \A g \in Handle : GoodHandle(g)
      BY <1>3, <1>4 DEF GoodHandle
<1> QED BY <1>5, UnchangedGrows DEF GoodStep

(* What Elasticsearch checks of a justified precondition.                  *)
LEMMA AcceptsJustified ==
    ASSUME TypeInv, NEW d \in Doc, NEW g, NEW h, NEW l, Accepts(d, g), Justified(h, l, es[d], g)
    PROVE  AcceptsIn(es[d], g)
<1>1. ~Live(d) => Len(es[d]) = 0 \/ es[d][Len(es[d])].val = Absent
      BY DEF Live
<1> QED BY <1>1 DEF Accepts, Justified, AcceptsIn

(* By whom a document may be given a new version.                          *)
Entitled(by, d) ==
    by \in Handle => Opened(by) /\ \E g : Justified(by, hd[by].loaded, es[d], g) /\ Accepts(d, g)

(* A step that adds a version by someone entitled to it is good.           *)
LEMMA GrowGood ==
    ASSUME TypeInv, late' \subseteq Request, late' \subseteq late, UNCHANGED hd,
           NEW d \in Doc, NEW val \in Body \cup {Absent}, NEW by \in Handle \cup {None},
           Append1(d, val, by), Entitled(by, d),
           \A t \in Proc : CallKept(t) \/ CallInv(t)'
    PROVE  GoodStep
<1>1. /\ es' \in [Doc -> Seq(Version)] /\ \A c \in Doc \ {d} : es'[c] = es[c]
      /\ Len(es[d]) \in Nat /\ Len(es'[d]) = Len(es[d]) + 1
      /\ es'[d][Len(es[d]) + 1] = [val |-> val, by |-> by]
      /\ \A n \in 1..Len(es[d]) : es'[d][n] = es[d][n]
      BY Append1Typed
<1>2. \A c \in Doc : Len(es[c]) \in Nat
      BY DEF TypeInv, TypeOK
<1>3. Extends(es[d], es'[d]) /\ \A c \in Doc \ {d} : Extends(es[c], es'[c])
      BY <1>1, <1>2 DEF Extends
<1>4. NewVersion(d)
  <2>1. \A h \in Handle : h = by => Opened(h) /\ \E g : Justified(h, hd[h].loaded, es[d], g) /\ AcceptsIn(es[d], g)
        BY AcceptsJustified DEF Entitled
  <2> QED BY <1>1, <2>1 DEF NewVersion
<1>5. \A c \in Doc \ {d} : NewVersion(c)
      BY <1>1 DEF NewVersion
<1>6. \A h \in Handle : GoodHandle(h)
      BY UnchangedKept DEF GoodHandle
<1>7. Grows
      BY <1>3 DEF Grows
<1> QED BY <1>4, <1>5, <1>6, <1>7 DEF GoodStep

(* Elasticsearch answering a save or a delete.                             *)
LEMMA EsWriteGood ==
    ASSUME TypeInv, Protocol, OCCInv, late' \subseteq Request, NEW t \in Proc, EsWrite(t)
    PROVE  GoodStep
<1> DEFINE h == proc[t].h
           d == proc[t].doc
<1>1. /\ \A u \in Proc \ {t} : proc'[u] = proc[u]
      /\ proc'[t].kind = proc[t].kind /\ proc'[t].h = h /\ proc'[t].doc = d
      /\ proc'[t].guard = proc[t].guard
      /\ proc'[t].out = "ok" => /\ Append1(d, proc[t].body, h) /\ Accepts(d, proc[t].guard)
                                /\ proc'[t].seq = Len(es[d]) + 1
      /\ proc'[t].out # "ok" => UNCHANGED es
      /\ UNCHANGED <<late, hd>> /\ Writing(t)
      BY EsWriteShape
<1>2. /\ d \in Doc /\ h \in Handle \cup {None} /\ proc[t].body \in Body \cup {Absent}
      /\ h \in Handle => Pushing(t)
      BY <1>1, SentinelAssumption DEF Writing, Pushing, TypeInv, CallTyped, ProcState
<1>3. \A u \in Proc \ {t} : CallKept(u)
      BY <1>1 DEF CallKept
<1>4. CASE proc'[t].out # "ok"
  <2>1. CallKept(t)
        BY <1>1, <1>4 DEF CallKept
  <2> QED BY <2>1, <1>1, <1>3, <1>4, UnchangedKept, QuietGood DEF QuietStep
<1>5. CASE proc'[t].out = "ok"
  <2>1. Append1(d, proc[t].body, h) /\ Accepts(d, proc[t].guard) /\ proc'[t].seq = Len(es[d]) + 1
        BY <1>1, <1>5
  <2>2. Pushing(t) => /\ Opened(h) /\ SoundCall(proc[t], hd[h], es[d])
        BY DEF Protocol, OCCInv, CallInv
  <2>3. Entitled(h, d)
        BY <1>2, <2>1, <2>2 DEF Entitled, SoundCall
  <2>4. /\ Len(es[d]) \in Nat /\ Len(es'[d]) = Len(es[d]) + 1
        /\ es'[d][Len(es[d]) + 1] = [val |-> proc[t].body, by |-> h]
        /\ \A n \in 1..Len(es[d]) : es'[d][n] = es[d][n]
        BY <1>2, <2>1, Append1Typed
  <2>5. Extends(es[d], es'[d])
        BY <2>4 DEF Extends
  <2>6. ASSUME Pushing(t)
        PROVE  SoundCall(proc'[t], hd[h], es'[d])
    <3>1. proc[t].doc = hd[h].doc /\ Justified(h, hd[h].loaded, es[d], proc[t].guard)
          BY <2>2, <2>6 DEF SoundCall
    <3>2. Justified(h, hd[h].loaded, es'[d], proc[t].guard)
          BY <3>1, <2>5, JustifiedStays
    <3>3. proc'[t].seq \in 1..Len(es'[d]) /\ proc'[t].seq = Len(es[d]) + 1
          BY <2>1, <2>4
    <3>4. es'[d][proc'[t].seq].by = h
          BY <2>4, <3>3
    <3> HIDE DEF h, d
    <3>5. /\ proc'[t].h = h /\ proc'[t].doc = hd[h].doc
          /\ Justified(proc'[t].h, hd[h].loaded, es'[d], proc'[t].guard)
          BY <1>1, <3>1, <3>2 DEF d
    <3> QED BY <3>3, <3>4, <3>5 DEF SoundCall
  <2>7. CallInv(t)'
        BY <1>1, <2>6 DEF CallInv, Pushing
  <2>8. \A u \in Proc : CallKept(u) \/ CallInv(u)'
        BY <1>3, <2>7
  <2> QED BY <1>1, <1>2, <2>1, <2>3, <2>8, GrowGood
<1> QED BY <1>4, <1>5

(* Elasticsearch applying a request that was given up on.                  *)
LEMMA EsLateWriteGood ==
    ASSUME TypeInv, OCCInv, late' \subseteq Request, NEW r \in late, EsLateWrite(r)
    PROVE  GoodStep
<1>1. /\ late' \subseteq late /\ UNCHANGED <<hd, proc>>
      /\ (Accepts(r.doc, r.guard) /\ Append1(r.doc, r.body, r.h)) \/ UNCHANGED es
      BY DEF EsLateWrite
<1>2. r.doc \in Doc /\ r.body \in Body \cup {Absent} /\ r.h \in Handle \cup {None}
      BY DEF TypeInv, TypeOK, Request
<1>3. \A t \in Proc : CallKept(t)
      BY <1>1, UnchangedKept
<1>4. CASE UNCHANGED es
      BY <1>1, <1>3, <1>4, UnchangedKept, QuietGood DEF QuietStep
<1>5. CASE Accepts(r.doc, r.guard) /\ Append1(r.doc, r.body, r.h)
  <2>1. r.h \in Handle => Opened(r.h) /\ Justified(r.h, hd[r.h].loaded, es[r.doc], r.guard)
        BY DEF OCCInv, HandleInv, Traceless, RequestInv
  <2>2. Entitled(r.h, r.doc)
        BY <2>1, <1>5 DEF Entitled
  <2> QED BY <1>1, <1>2, <1>3, <1>5, <2>2, GrowGood
<1> QED BY <1>1, <1>4, <1>5

(* Other clients: the history properties speak of the mount's handles      *)
(* only.                                                                   *)
LEMMA ExternalGood ==
    ASSUME TypeInv, late' \subseteq Request, NEW d \in Doc,
           ExternalDelete(d) \/ \E b \in Body : ExternalWrite(d, b)
    PROVE  GoodStep
<1>1. PICK val \in Body \cup {Absent} : Append1(d, val, None) /\ UNCHANGED <<late, hd, proc>>
      BY DEF ExternalDelete, ExternalWrite
<1>2. Entitled(None, d)
      BY SentinelAssumption DEF Entitled
<1>3. \A t \in Proc : CallKept(t)
      BY <1>1, UnchangedKept
<1> QED BY <1>1, <1>2, <1>3, GrowGood

(* Giving up: the request is as justified as the call was.                 *)
LEMMA GiveUpGood ==
    ASSUME TypeInv, Protocol, OCCInv, late' \subseteq Request, NEW t \in Proc, GiveUp(t)
    PROVE  GoodStep
<1>1. /\ UNCHANGED <<es, hd>>
      /\ late' = late \/ (Writing(t) /\ late' = late \cup {RequestOf(t)})
      BY DEF GiveUp
<1>2. \A u \in Proc : CallKept(u)
      BY GiveUpShape
<1>3. ASSUME Writing(t) PROVE GoodRequest(RequestOf(t))
  <2> DEFINE r == RequestOf(t)
  <2>1. r.h = proc[t].h /\ r.doc = proc[t].doc /\ r.guard = proc[t].guard
        BY DEF RequestOf
  <2>2. proc[t].h \in Handle => Pushing(t)
        BY <1>3, SentinelAssumption DEF Writing, TypeInv, CallTyped
  <2>3. Pushing(t) => /\ Opened(proc[t].h)
                      /\ Justified(proc[t].h, hd[proc[t].h].loaded, es[proc[t].doc], proc[t].guard)
        BY DEF Protocol, OCCInv, CallInv, SoundCall
  <2> HIDE DEF r
  <2> QED BY <2>1, <2>2, <2>3 DEF GoodRequest, r
<1>4. \A r \in late' : r \in late \/ GoodRequest(r)
      BY <1>1, <1>3
<1>5. \A h \in Handle : GoodHandle(h)
      BY <1>1, UnchangedKept DEF GoodHandle
<1> QED BY <1>1, <1>2, <1>4, <1>5, UnchangedGrows DEF GoodStep

(* The beginning of Flush.                                                 *)
LEMMA FlushStartGood ==
    ASSUME TypeInv, OCCInv, late' \subseteq Request, NEW t \in Proc,
           NEW kind \in {"flush", "release"}, NEW h \in Handle, FlushStart(t, kind, h)
    PROVE  GoodStep
<1>1. /\ \A u \in Proc \ {t} : proc'[u] = proc[u]
      /\ proc'[t].kind = kind /\ proc'[t].h = h /\ proc'[t].doc = hd[h].doc
      /\ proc'[t].guard = PutGuard(h) /\ proc'[t].out = "none"
      /\ \A g \in Handle : HandleKept(g)
      /\ Opened(h)
      BY FlushStartShape
<1>2. UNCHANGED <<es, late>>
      BY DEF FlushStart
<1>3. SoundHandle(h, hd[h], es[hd[h].doc])
      BY <1>1 DEF OCCInv, HandleInv
<1>4. Justified(h, hd[h].loaded, es[hd[h].doc], PutGuard(h))
      BY <1>3, PutGuardJustified
<1>5. hd'[h].doc = hd[h].doc /\ hd'[h].loaded = hd[h].loaded
      BY <1>1 DEF HandleKept
<1>6. SoundCall(proc'[t], hd'[h], es[hd[h].doc])
      BY <1>1, <1>4, <1>5 DEF SoundCall
<1>7. CallInv(t)'
      BY <1>1, <1>2, <1>6 DEF CallInv
<1>8. \A u \in Proc \ {t} : CallKept(u)
      BY <1>1 DEF CallKept
<1>9. \A g \in Handle : GoodHandle(g)
      BY <1>1 DEF GoodHandle
<1> QED BY <1>2, <1>7, <1>8, <1>9, UnchangedGrows DEF GoodStep

(* The end of Flush: its own version is the new base.                      *)
LEMMA FlushDoneGood ==
    ASSUME TypeInv, Protocol, OCCInv, late' \subseteq Request, NEW t \in Proc, FlushDone(t)
    PROVE  GoodStep
<1> DEFINE h == proc[t].h
           d == proc[t].doc
<1>1. /\ \A u \in Proc : CallKept(u)
      /\ \A g \in Handle \ {h} : hd'[g] = hd[g]
      /\ h \in Handle /\ d \in Doc /\ Pushing(t) /\ proc[t].out = "ok"
      /\ Opened(h) /\ hd'[h].st \notin {"fresh", "opening"}
      /\ hd'[h].doc = hd[h].doc /\ hd'[h].createOnly = FALSE
      /\ hd'[h].meta = proc[t].seq /\ hd'[h].loaded = hd[h].loaded
      BY FlushDoneShape
<1>2. UNCHANGED <<es, late>>
      BY DEF FlushDone
<1>3. d = hd[h].doc /\ proc[t].seq \in 1..Len(es[d]) /\ es[d][proc[t].seq].by = h
      BY <1>1 DEF OCCInv, CallInv, SoundCall
<1>4. Base(h, hd'[h].loaded, es[d], hd'[h].meta) /\ hd'[h].meta # 0
      BY <1>1, <1>3 DEF Base
<1>5. SoundHandle(h, hd'[h], es[d])
      BY <1>1, <1>4 DEF SoundHandle
<1>6. \A g \in Handle : g = h => HandleInv(g)'
      BY <1>1, <1>2, <1>3, <1>5 DEF HandleInv, Opened
<1>7. \A g \in Handle \ {h} : HandleKept(g)
      BY <1>1 DEF HandleKept, Opened
<1>8. \A g \in Handle : GoodHandle(g)
      BY <1>1, <1>6, <1>7 DEF GoodHandle
<1> QED BY <1>1, <1>2, <1>8, UnchangedGrows DEF GoodStep

(* The three ways through OpenWrite.                                       *)
LEMMA OpensGood ==
    ASSUME TypeInv, Protocol, OCCInv, late' \subseteq Request
    PROVE  /\ \A h \in Handle, d \in Doc, fl \in Flags : OpenHit(h, d, fl) => GoodStep
           /\ \A t \in Proc, h \in Handle, d \in Doc, fl \in Flags : OpenMiss(t, h, d, fl) => GoodStep
           /\ \A t \in Proc : OpenFinish(t) => GoodStep
<1>1. ASSUME NEW h \in Handle, NEW d \in Doc, NEW fl \in Flags, OpenHit(h, d, fl)
      PROVE  GoodStep
  <2>1. ~Opened(h) /\ UNCHANGED proc
        BY <1>1, OpenHitShape DEF Opened
  <2>2. \A t \in Proc : CallKept(t)
        BY <2>1, UnchangedKept
  <2> QED BY <1>1, <2>1, <2>2, OpenHitShape, OpenGood
<1>2. ASSUME NEW t \in Proc, NEW h \in Handle, NEW d \in Doc, NEW fl \in Flags, OpenMiss(t, h, d, fl)
      PROVE  GoodStep
  <2>1. /\ UNCHANGED <<es, late>> /\ hd[h].st = "fresh" /\ hd'[h].st = "opening"
        /\ \A g \in Handle \ {h} : hd'[g] = hd[g]
        /\ proc'[t].kind = "open" /\ \A u \in Proc \ {t} : proc'[u] = proc[u]
        BY <1>2, OpenMissShape
  <2>2. CallInv(t)'
        BY <2>1 DEF CallInv, Pushing
  <2>3. \A u \in Proc \ {t} : CallKept(u)
        BY <2>1 DEF CallKept
  <2>4. ~Opened(h) /\ \A u \in Proc : CallKept(u) \/ CallInv(u)'
        BY <2>1, <2>2, <2>3 DEF Opened
  <2> QED BY <2>1, <2>4, OpenGood
<1>3. ASSUME NEW t \in Proc, OpenFinish(t) PROVE GoodStep
  <2>1. PICK h \in Handle : h = proc[t].h
        BY <1>3, OpenFinishShape
  <2>2. ~Opened(h) /\ UNCHANGED <<es, late>> /\ \A u \in Proc : CallKept(u)
        BY <1>3, <2>1, OpenFinishShape DEF Opened
  <2>3. /\ \A g \in Handle \ {h} : hd'[g] = hd[g]
        /\ \/ hd'[h].st = "fresh"
           \/ /\ hd'[h].st = "open"
              /\ hd'[h].loaded = hd'[h].meta
              /\ hd'[h].createOnly => hd'[h].loaded = 0
              /\ hd'[h].meta = 0 => hd'[h].createOnly \/ ~GuardedOpens \/ Policy = "create-only"
        BY <1>3, <2>1, OpenFinishShape
  <2> QED BY <2>2, <2>3, OpenGood
<1> QED BY <1>1, <1>2, <1>3

(* Every step is good.                                                     *)
LEMMA EveryStepGood ==
    ASSUME TypeInv, Protocol, OCCInv, [Next]_vars
    PROVE  GoodStep
<1>1. late' \subseteq Request
      BY TypeStep DEF TypeInv, TypeOK
<1> QED BY <1>1, StepKinds, QuietGood, OpensGood, EsWriteGood, GiveUpGood, FlushDoneGood,
           FlushStartGood, EsLateWriteGood, ExternalGood

(* Every step keeps OCCInv.                                                *)
LEMMA OCCStep ==
    ASSUME TypeInv, Protocol, OCCInv, [Next]_vars
    PROVE  OCCInv'
BY EveryStepGood, GoodStepsKeepOCC

-----------------------------------------------------------------------------
(* Initially nothing has happened.                                         *)
LEMMA ProtocolInit == Init => Protocol
<1> SUFFICES ASSUME Init PROVE Protocol
    OBVIOUS
<1>1. \A t \in Proc : proc[t].kind = "idle"
      BY DEF Init, Idle
<1> QED BY <1>1 DEF Protocol, Pushing

(* Nothing has been stored or asked for.                                   *)
LEMMA OCCInit == Init => OCCInv
<1> SUFFICES ASSUME Init PROVE OCCInv
    OBVIOUS
<1>1. /\ \A h \in Handle : hd[h].st = "fresh"
      /\ \A t \in Proc : proc[t].kind = "idle"
      /\ \A d \in Doc : Len(es[d]) = 0
      /\ late = {}
      BY DEF Init, FreshHandle, Idle
<1>2. \A d \in Doc : \A n \in 1..Len(es[d]) : FALSE
      BY <1>1
<1>3. \A h \in Handle : HandleInv(h)
      BY <1>1, <1>2 DEF HandleInv, Traceless, Opened
<1>4. \A t \in Proc : CallInv(t)
      BY <1>1 DEF CallInv, Pushing
<1>5. ASSUME NEW h \in Handle, NEW d \in Doc PROVE SoundHistory(h, hd[h].loaded, es[d])
      BY <1>1, <1>2, NoHistory
<1> QED BY <1>1, <1>3, <1>4, <1>5 DEF OCCInv, HistoryInv

-----------------------------------------------------------------------------
(* The theorems.                                                           *)
IInv == TypeInv /\ Protocol /\ OCCInv

(* The inductive invariant holds in every reachable state.                 *)
THEOREM Invariance == Spec => []IInv
<1>1. Init => IInv
      BY TypeInit, ProtocolInit, OCCInit DEF IInv
<1>2. IInv /\ [Next]_vars => IInv'
      BY TypeStep, ProtocolStep, OCCStep DEF IInv
<1> QED BY <1>1, <1>2, PTL DEF Spec

(* Every variable keeps its type: whatever two goroutines do to a handle's *)
(* buffer, only JSON objects and deletions become versions.                *)
THEOREM TypeCorrect == Spec => []TypeOK
<1>1. IInv => TypeOK
      BY DEF IInv, TypeInv
<1> QED BY <1>1, Invariance, PTL

(* Under "create-only", and under "safe-create-update" when every opener   *)
(* passes O_CREAT or O_EXCL, no save overwrites what its handle has not    *)
(* seen, for any number of documents, handles, goroutines and versions.    *)
THEOREM SeenBeforeOverwritten ==
    ASSUME GuardedOpens
    PROVE  Spec => []NoSilentOverwrite
<1>1. IInv => NoSilentOverwrite
      BY DEF IInv, OCCInv, HistoryInv, SoundHistory, NoSilentOverwrite
<1> QED BY <1>1, Invariance, PTL

(* Under "safe-create-update" every edit of an existing document lands on  *)
(* the version it was staged from, or on the handle's own.                 *)
THEOREM EditsLandOnTheirBase ==
    ASSUME Policy = "safe-create-update"
    PROVE  Spec => []EditLandsOnItsBase
<1>1. IInv => EditLandsOnItsBase
      BY DEF IInv, OCCInv, HistoryInv, SoundHistory, EditLandsOnItsBase
<1> QED BY <1>1, Invariance, PTL
=============================================================================
