---------------------------- MODULE OccDoc_proofs ----------------------------
(***************************************************************************)
(* Proofs that the write path implements OccDoc, of what its caches and    *)
(* buffers hold, of where its version conflicts come from, and of how      *)
(* stale cache entries leave, for every set of documents, handles and      *)
(* goroutines.                                                             *)
(***************************************************************************)
EXTENDS WritePath_proofs

(* Version n of vs is the JSON object x.                                   *)
Holds(vs, n, x) == n \in 1..Len(vs) /\ vs[n].val = x /\ x \in Body

(* A handle that has been flushed takes no more writes, unless descriptors *)
(* are shared.                                                             *)
Settled(h) == hd[h].st \notin {"fresh", "opening", "open"}

EntryInv(d) ==
    /\ cache[d].seq # 0 =>
         /\ Holds(es[d], cache[d].seq, es[d][cache[d].seq].val)
         /\ ~SharedFd => es[d][cache[d].seq].val = cache[d].src
    /\ ~SharedFd /\ cache[d].of \in Handle => Settled(cache[d].of)

AnswerInv(t) ==
    Getting(t) /\ proc[t].out = "found" => Holds(es[proc[t].doc], proc[t].seq, proc[t].body)

SaveInv(t) ==
    Pushing(t) =>
        /\ proc[t].pc = "ready" => proc[t].out = "none"
        /\ ~SharedFd => Settled(proc[t].h) /\ proc[t].src = hd[proc[t].h].buf
        /\ proc[t].pc = "sent" \/ proc[t].out = "ok" =>
             proc[t].body \in Body /\ (~SharedFd => proc[t].body = proc[t].src)
        /\ proc[t].out = "ok" => Holds(es[proc[t].doc], proc[t].seq, proc[t].body)

BufferInv(h) ==
    Opened(h) /\ ~SharedFd /\ ~hd[h].dirty /\ hd[h].buf # Empty =>
        /\ hd[h].meta \in 1..Len(es[hd[h].doc])
        /\ es[hd[h].doc][hd[h].meta].val = hd[h].buf

LateInv(r) == r.h \in Handle => r.body \in Body /\ r.doc = hd[r.h].doc

Coherent ==
    /\ \A d \in Doc : EntryInv(d)
    /\ \A t \in Proc : AnswerInv(t) /\ SaveInv(t)
    /\ \A h \in Handle : BufferInv(h)
    /\ \A r \in late : LateInv(r)

-----------------------------------------------------------------------------
(* What a step may do and keep Coherent.                                   *)
EntryKept(d) == cache'[d].seq = cache[d].seq /\ (~SharedFd => cache'[d] = cache[d])

SaveKept(t) ==
    /\ proc'[t].kind = proc[t].kind /\ proc'[t].h = proc[t].h /\ proc'[t].doc = proc[t].doc
    /\ proc'[t].pc = proc[t].pc /\ proc'[t].out = proc[t].out /\ proc'[t].seq = proc[t].seq
    /\ proc'[t].body = proc[t].body
    /\ ~SharedFd => proc'[t].src = proc[t].src

BufferKept(h) ==
    /\ Opened(h)' => Opened(h)
    /\ hd'[h].doc = hd[h].doc /\ hd'[h].buf = hd[h].buf
    /\ hd'[h].dirty = hd[h].dirty /\ hd'[h].meta = hd[h].meta

SettledStay(h) == ~SharedFd /\ Settled(h) => Settled(h)' /\ hd'[h].buf = hd[h].buf

CoherentStep ==
    /\ \A d \in Doc : EntryKept(d) \/ EntryInv(d)'
    /\ \A t \in Proc : SaveKept(t) \/ (AnswerInv(t)' /\ SaveInv(t)')
    /\ \A h \in Handle : BufferKept(h) \/ BufferInv(h)'
    /\ \A h \in Handle : SettledStay(h)
    /\ \A r \in late' : r \in late \/ LateInv(r)'

(* What a version is, it stays.                                            *)
LEMMA HoldsStays ==
    ASSUME NEW vs, NEW ws, Extends(vs, ws), NEW n, NEW x, Holds(vs, n, x)
    PROVE  Holds(ws, n, x) /\ ws[n] = vs[n]
BY DEF Holds, Extends

(* Such a step keeps Coherent.                                             *)
LEMMA CoherentStays ==
    ASSUME IInv, Coherent, GoodStep, CoherentStep
    PROVE  Coherent'
<1>1. ASSUME NEW d \in Doc, EntryKept(d) PROVE EntryInv(d)'
  <2>1. Extends(es[d], es'[d])
        BY DEF GoodStep, Grows
  <2>2. EntryInv(d) /\ \A h \in Handle : SettledStay(h)
        BY DEF Coherent, CoherentStep
  <2> DEFINE n == cache[d].seq
  <2>3. n # 0 => Holds(es'[d], n, es[d][n].val) /\ es'[d][n] = es[d][n]
        BY <2>1, <2>2, HoldsStays DEF EntryInv
  <2>4. cache'[d].seq # 0 => /\ Holds(es'[d], cache'[d].seq, es'[d][cache'[d].seq].val)
                             /\ ~SharedFd => es'[d][cache'[d].seq].val = cache'[d].src
    <3>1. cache'[d].seq = n /\ (~SharedFd => cache'[d].src = cache[d].src)
          BY <1>1 DEF EntryKept
    <3>2. n # 0 /\ ~SharedFd => es[d][n].val = cache[d].src
          BY <2>2 DEF EntryInv
    <3> HIDE DEF n
    <3> QED BY <2>3, <3>1, <3>2
  <2>5. ASSUME ~SharedFd, cache'[d].of \in Handle
        PROVE  hd'[cache'[d].of].st \notin {"fresh", "opening", "open"}
    <3>1. cache'[d].of = cache[d].of /\ Settled(cache[d].of)
          BY <1>1, <2>2, <2>5 DEF EntryKept, EntryInv
    <3>2. SettledStay(cache[d].of)
          BY <2>2, <2>5, <3>1
    <3> QED BY <2>5, <3>1, <3>2 DEF SettledStay, Settled
  <2> QED BY <2>4, <2>5 DEF EntryInv, Settled
<1>2. ASSUME NEW t \in Proc, SaveKept(t) PROVE AnswerInv(t)' /\ SaveInv(t)'
  <2> DEFINE d == proc[t].doc
             h == proc[t].h
  <2>1. CallTyped(proc[t]) /\ AnswerInv(t) /\ SaveInv(t) /\ \A g \in Handle : SettledStay(g)
        BY DEF IInv, TypeInv, Coherent, CoherentStep
  <2>2. Getting(t) \/ Pushing(t) => Extends(es[d], es'[d])
        BY <2>1 DEF CallTyped, Getting, Pushing, GoodStep, Grows
  <2>3. Pushing(t) => h \in Handle
        BY <2>1 DEF CallTyped, Pushing
  <2>4. AnswerInv(t)'
        BY <1>2, <2>1, <2>2, HoldsStays DEF SaveKept, AnswerInv, Getting
  <2>5. SaveInv(t)'
    <3>1. ASSUME Pushing(t), ~SharedFd
          PROVE  hd'[h].st \notin {"fresh", "opening", "open"} /\ proc[t].src = hd'[h].buf
          BY <2>1, <2>3, <3>1 DEF SaveInv, SettledStay, Settled
    <3>2. ASSUME Pushing(t), proc[t].out = "ok" PROVE Holds(es'[d], proc[t].seq, proc[t].body)
          BY <2>1, <2>2, <3>2, HoldsStays DEF SaveInv
    <3> QED BY <1>2, <2>1, <3>1, <3>2 DEF SaveKept, SaveInv, Pushing, Settled
  <2> QED BY <2>4, <2>5
<1>3. ASSUME NEW h \in Handle, BufferKept(h) PROVE BufferInv(h)'
  <2>1. BufferInv(h) /\ HandleTyped(hd[h])
        BY DEF Coherent, IInv, TypeInv
  <2>2. Opened(h) => hd[h].doc \in Doc /\ Extends(es[hd[h].doc], es'[hd[h].doc])
        BY <2>1 DEF HandleTyped, Opened, GoodStep, Grows
  <2> QED BY <1>3, <2>1, <2>2 DEF BufferKept, BufferInv, Opened, Extends
<1>4. ASSUME NEW r \in late PROVE LateInv(r)'
  <2>1. r.h \in Handle => Opened(r.h)
        BY DEF IInv, OCCInv, HandleInv, Traceless
  <2>2. r.h \in Handle => hd'[r.h].doc = hd[r.h].doc
        BY <2>1, OpenHandlesKeepTheirBase
  <2> QED BY <2>2 DEF Coherent, LateInv
<1>5. /\ \A d \in Doc : EntryInv(d)'
      /\ \A t \in Proc : AnswerInv(t)' /\ SaveInv(t)'
      /\ \A h \in Handle : BufferInv(h)'
      /\ \A r \in late' : LateInv(r)'
      BY <1>1, <1>2, <1>3, <1>4 DEF CoherentStep
<1> QED BY <1>5 DEF Coherent
-----------------------------------------------------------------------------

(* What stays the same is kept.                                            *)
LEMMA SameKept ==
    /\ UNCHANGED cache => \A d \in Doc : EntryKept(d)
    /\ UNCHANGED proc => \A t \in Proc : SaveKept(t)
    /\ UNCHANGED hd => \A h \in Handle : BufferKept(h) /\ SettledStay(h)
    /\ UNCHANGED late => \A r \in late' : r \in late
BY DEF EntryKept, SaveKept, BufferKept, SettledStay, Settled, Opened

(* One call changes.                                                       *)
LEMMA OneCall ==
    ASSUME TypeInv, NEW t \in Proc, NEW p, Become(t, p)
    PROVE  proc'[t] = p /\ \A u \in Proc \ {t} : SaveKept(u)
<1>1. \A u \in Proc : proc'[u] = IF u = t THEN p ELSE proc[u]
      BY DEF Become, TypeInv, TypeOK
<1> QED BY <1>1 DEF SaveKept

(* A call that neither saves nor was given an answer claims nothing.       *)
LEMMA CallClaimsNothing ==
    ASSUME TypeInv, NEW t \in Proc, NEW p, Become(t, p),
           p.kind \notin {"flush", "release"}, p.out # "found"
    PROVE  \A u \in Proc : SaveKept(u) \/ (AnswerInv(u)' /\ SaveInv(u)')
<1>1. AnswerInv(t)' /\ SaveInv(t)'
      BY OneCall DEF AnswerInv, SaveInv, Pushing
<1> QED BY <1>1, OneCall

(* A call returns.                                                         *)
LEMMA ReturnClaimsNothing ==
    ASSUME TypeInv, NEW t \in Proc, Return(t)
    PROVE  \A u \in Proc : SaveKept(u) \/ (AnswerInv(u)' /\ SaveInv(u)')
BY CallClaimsNothing DEF Return, Idle

(* One handle changes.                                                     *)
LEMMA OneHandle ==
    ASSUME TypeInv, NEW h \in Handle, NEW s, HandleTyped(s), hd' = [hd EXCEPT ![h] = s]
    PROVE  hd'[h] = s /\ \A g \in Handle \ {h} : BufferKept(g) /\ SettledStay(g)
BY HandleBecomesTyped DEF BufferKept, SettledStay, Settled, Opened

(* What Get found is an entry, under the _seq_no it was found with.        *)
LEMMA FillHeld ==
    ASSUME TypeInv, Coherent, NEW t \in Proc, Getting(t), CacheFound(t), UNCHANGED es
    PROVE  \A d \in Doc : EntryKept(d) \/ EntryInv(d)'
<1> DEFINE e == [src |-> proc[t].body, seq |-> proc[t].seq, of |-> None]
<1>1. PICK c \in Doc : c = proc[t].doc
      BY DEF TypeInv, CallTyped, Getting
<1>2. CASE proc[t].out # "found"
      BY <1>2, SameKept DEF CacheFound
<1>3. CASE proc[t].out = "found"
  <2>1. \A d \in Doc : cache'[d] = IF d = c THEN e ELSE cache[d]
        BY <1>1, <1>3 DEF CacheFound, TypeInv, TypeOK
  <2>2. Holds(es[c], proc[t].seq, proc[t].body)
        BY <1>1, <1>3 DEF Coherent, AnswerInv
  <2>3. e.seq = proc[t].seq /\ e.src = proc[t].body /\ e.of = None /\ None \notin Handle
        BY SentinelAssumption
  <2> HIDE DEF e
  <2>4. cache'[c] = e /\ es'[c] = es[c]
        BY <1>1, <2>1
  <2>5. EntryInv(c)'
        BY <2>2, <2>3, <2>4 DEF EntryInv, Holds
  <2>6. \A d \in Doc : d # c => EntryKept(d)
        BY <2>1 DEF EntryKept
  <2> QED BY <2>5, <2>6
<1> QED BY <1>2, <1>3

(* Reads.                                                                  *)
LEMMA ReadsCoherent ==
    ASSUME TypeInv, Coherent, NEW t \in Proc
    PROVE  /\ \A d \in Doc : ReadStart(t, d) => CoherentStep
           /\ EsGet(t) => CoherentStep
           /\ ReadFinish(t) => CoherentStep
<1>1. ASSUME NEW d \in Doc, ReadStart(t, d) PROVE CoherentStep
  <2> DEFINE p == [Idle EXCEPT !.kind = "read", !.pc = "sent", !.doc = d]
  <2>1. Become(t, p) /\ UNCHANGED <<es, late, cache, hd, sync>> /\ p.kind = "read" /\ p.out = "none"
        BY <1>1 DEF ReadStart, Begin, Idle
  <2> HIDE DEF p
  <2> QED BY <2>1, SameKept, CallClaimsNothing DEF CoherentStep
<1>2. ASSUME EsGet(t) PROVE CoherentStep
  <2> DEFINE d == proc[t].doc
             found == [proc[t] EXCEPT !.pc = "answered", !.out = "found",
                                      !.body = es[d][Len(es[d])].val, !.seq = Len(es[d])]
             missing == [proc[t] EXCEPT !.pc = "answered", !.out = "missing"]
             p == IF Live(d) THEN found ELSE missing
  <2>1. Become(t, p) /\ UNCHANGED <<es, late, cache, hd, sync>> /\ Getting(t)
        BY <1>2 DEF EsGet
  <2>2. proc[t] \in ProcState /\ d \in Doc
        BY <2>1 DEF TypeInv, TypeOK, CallTyped, Getting
  <2>3. /\ p.kind = proc[t].kind /\ p.doc = d
        /\ p.out = "found" => Live(d) /\ p.body = es[d][Len(es[d])].val /\ p.seq = Len(es[d])
        BY <2>2 DEF ProcState
  <2>4. Live(d) => Holds(es[d], Len(es[d]), es[d][Len(es[d])].val)
    <3>1. es[d] \in Seq(Version)
          BY <2>2 DEF TypeInv, TypeOK
    <3>2. Live(d) => Len(es[d]) \in 1..Len(es[d]) /\ es[d][Len(es[d])] \in Version
          BY <3>1 DEF Live
    <3> QED BY <3>2, NoVersionIsAbsent DEF Live, Holds
  <2> HIDE DEF p
  <2>5. AnswerInv(t)' /\ SaveInv(t)'
        BY <2>1, <2>3, <2>4, OneCall DEF AnswerInv, SaveInv, Getting, Pushing
  <2> QED BY <2>1, <2>5, SameKept, OneCall DEF CoherentStep
<1>3. ASSUME ReadFinish(t) PROVE CoherentStep
  <2>1. CacheFound(t) /\ Getting(t) /\ Return(t) /\ UNCHANGED <<es, late, hd, sync>>
        BY <1>3 DEF ReadFinish, Getting
  <2> QED BY <2>1, SameKept, FillHeld, ReturnClaimsNothing DEF CoherentStep
<1> QED BY <1>1, <1>2, <1>3

(* An entry leaves.                                                        *)
LEMMA DropHeld ==
    ASSUME TypeInv, NEW c \in Doc, cache' = [cache EXCEPT ![c] = NoEntry]
    PROVE  \A d \in Doc : EntryKept(d) \/ EntryInv(d)'
<1>1. \A d \in Doc : cache'[d] = IF d = c THEN NoEntry ELSE cache[d]
      BY DEF TypeInv, TypeOK
<1>2. EntryInv(c)'
      BY <1>1, SentinelAssumption DEF EntryInv, NoEntry
<1> QED BY <1>1, <1>2 DEF EntryKept

(* A handle opened with version seq stages that version or nothing.        *)
LEMMA OpenWriteCoherent ==
    ASSUME TypeInv, UNCHANGED es, NEW h \in Handle, ~Opened(h), NEW d \in Doc, NEW fl \in Flags,
           NEW found \in BOOLEAN, NEW src, NEW seq \in Nat, found => seq # 0,
           found /\ ~SharedFd => Holds(es[d], seq, src),
           OpenWrite(h, d, fl, found, src, seq)
    PROVE  /\ \A g \in Handle : BufferKept(g) \/ BufferInv(g)'
           /\ \A g \in Handle : SettledStay(g)
<1> DEFINE s == IF fl.excl /\ found THEN FreshHandle ELSE Staged(d, fl, found, src, seq)
<1>1. hd' = [hd EXCEPT ![h] = s]
      BY DEF OpenWrite
<1>2. HandleTyped(s)
      BY FreshTyped, StagedTyped, FlagsAssumption
<1>3. s.buf # Empty => found /\ s.buf = src /\ s.meta = seq /\ s.doc = d
      BY DEF Staged, FreshHandle
<1> HIDE DEF s
<1>4. hd'[h] = s /\ \A g \in Handle \ {h} : BufferKept(g) /\ SettledStay(g)
      BY <1>1, <1>2, OneHandle
<1>5. BufferInv(h)'
      BY <1>3, <1>4 DEF BufferInv, Holds
<1>6. SettledStay(h)
      BY DEF SettledStay, Settled, Opened
<1> QED BY <1>4, <1>5, <1>6

(* The three ways through OpenWrite.                                       *)
LEMMA OpensCoherent ==
    ASSUME TypeInv, Protocol, Coherent
    PROVE  /\ \A h \in Handle, d \in Doc, fl \in Flags : OpenHit(h, d, fl) => CoherentStep
           /\ \A t \in Proc, h \in Handle, d \in Doc, fl \in Flags : OpenMiss(t, h, d, fl) => CoherentStep
           /\ \A t \in Proc : OpenFinish(t) => CoherentStep
<1>1. ASSUME NEW h \in Handle, NEW d \in Doc, NEW fl \in Flags, OpenHit(h, d, fl)
      PROVE  CoherentStep
  <2>1. /\ ~Opened(h) /\ cache[d].seq # 0 /\ cache[d].seq \in Nat /\ UNCHANGED <<es, late, cache, proc>>
        /\ OpenWrite(h, d, fl, TRUE, cache[d].src, cache[d].seq)
        BY <1>1 DEF OpenHit, Opened, TypeInv, TypeOK, CacheEntry
  <2>2. ~SharedFd => Holds(es[d], cache[d].seq, cache[d].src)
        BY <2>1 DEF Coherent, EntryInv
  <2>3. /\ \A g \in Handle : BufferKept(g) \/ BufferInv(g)'
        /\ \A g \in Handle : SettledStay(g)
        BY <2>1, <2>2, OpenWriteCoherent
  <2> QED BY <2>1, <2>3, SameKept DEF CoherentStep
<1>2. ASSUME NEW t \in Proc, NEW h \in Handle, NEW d \in Doc, NEW fl \in Flags, OpenMiss(t, h, d, fl)
      PROVE  CoherentStep
  <2> DEFINE p == [Idle EXCEPT !.kind = "open", !.pc = "sent", !.doc = d, !.h = h, !.flags = fl]
  <2>1. Become(t, p) /\ UNCHANGED <<es, late, cache, sync>> /\ p.kind = "open" /\ p.out = "none"
        BY <1>2 DEF OpenMiss, Begin, Idle
  <2> HIDE DEF p
  <2>2. /\ hd[h].st = "fresh" /\ hd'[h].st = "opening" /\ \A g \in Handle \ {h} : hd'[g] = hd[g]
        BY <1>2, OpenMissShape
  <2>3. \A g \in Handle : (BufferKept(g) \/ BufferInv(g)') /\ SettledStay(g)
        BY <2>2 DEF BufferKept, BufferInv, SettledStay, Settled, Opened
  <2> QED BY <2>1, <2>3, SameKept, CallClaimsNothing DEF CoherentStep
<1>3. ASSUME NEW t \in Proc, OpenFinish(t) PROVE CoherentStep
  <2> DEFINE h == proc[t].h
             found == proc[t].out = "found"
  <2>1. /\ proc[t].kind = "open" /\ Getting(t) /\ CacheFound(t) /\ Return(t) /\ UNCHANGED <<es, late>>
        /\ OpenWrite(h, proc[t].doc, proc[t].flags, found, proc[t].body, proc[t].seq)
        BY <1>3 DEF OpenFinish, Getting
  <2>2. /\ h \in Handle /\ proc[t].doc \in Doc /\ proc[t].flags \in Flags /\ proc[t].seq \in Nat
        /\ found => proc[t].seq # 0
        BY <2>1 DEF TypeInv, CallTyped, ProcState
  <2>3. ~Opened(h)
        BY <2>1 DEF Protocol, Opened
  <2>4. found => Holds(es[proc[t].doc], proc[t].seq, proc[t].body)
        BY <2>1 DEF Coherent, AnswerInv
  <2>5. found \in BOOLEAN
        OBVIOUS
  <2> HIDE DEF h, found
  <2>6. /\ \A g \in Handle : BufferKept(g) \/ BufferInv(g)'
        /\ \A g \in Handle : SettledStay(g)
        BY <2>1, <2>2, <2>3, <2>4, <2>5, OpenWriteCoherent
  <2> QED BY <2>1, <2>6, SameKept, FillHeld, ReturnClaimsNothing DEF CoherentStep
<1> QED BY <1>1, <1>2, <1>3

(* WriteAt and Truncate: the handle is dirty; only where descriptors are   *)
(* shared can they reach what a save or the cache still holds.             *)
LEMMA EditsCoherent ==
    ASSUME TypeInv, Coherent, NEW h \in Handle, NEW c \in Content, WriteAt(h, c) \/ Truncate(h, c)
    PROVE  CoherentStep
<1> DEFINE s == [hd[h] EXCEPT !.buf = c, !.dirty = TRUE]
<1>1. Editable(h) /\ hd' = [hd EXCEPT ![h] = s] /\ UNCHANGED <<es, late, sync>>
      BY DEF WriteAt, Truncate, Stage
<1>2. hd[h] \in HandleState /\ HandleTyped(hd[h])
      BY DEF TypeInv, TypeOK
<1>3. HandleTyped(s) /\ s.dirty = TRUE /\ s.st = hd[h].st
      BY <1>2 DEF HandleTyped, HandleState
<1> HIDE DEF s
<1>4. hd'[h] = s /\ \A g \in Handle \ {h} : BufferKept(g) /\ SettledStay(g)
      BY <1>1, <1>3, OneHandle
<1>5. BufferInv(h)'
      BY <1>3, <1>4 DEF BufferInv
<1>6. ~SharedFd => ~Settled(h)
      BY <1>1 DEF Editable, Settled
<1>7. SettledStay(h)
      BY <1>6 DEF SettledStay
<1>8. ~SharedFd => /\ \A d \in Doc : cache[d].of # h
                   /\ \A t \in Proc : Pushing(t) => ~SharesBuffer(t, h)
      BY <1>6 DEF Coherent, EntryInv, SaveInv, SharesBuffer
<1>9. /\ UNCHANGED cache \/ \E x : cache' = [d \in Doc |-> IF cache[d].of = h THEN [cache[d] EXCEPT !.src = x] ELSE cache[d]]
         \/ cache' = [d \in Doc |-> IF cache[d].of = h THEN [cache[d] EXCEPT !.of = None] ELSE cache[d]]
      /\ UNCHANGED proc \/ \E x : proc' = [t \in Proc |-> IF SharesBuffer(t, h) THEN [proc[t] EXCEPT !.src = x] ELSE proc[t]]
         \/ proc' = [t \in Proc |-> IF SharesBuffer(t, h) THEN [proc[t] EXCEPT !.live = FALSE] ELSE proc[t]]
      BY DEF WriteAt, Truncate, InPlace, Reallocate
<1>10. ASSUME NEW d \in Doc PROVE EntryKept(d)
  <2>1. cache[d] \in CacheEntry
        BY DEF TypeInv, TypeOK
  <2>2. cache'[d].seq = cache[d].seq
        BY <1>9, <2>1 DEF CacheEntry
  <2>3. ~SharedFd => cache'[d] = cache[d]
        BY <1>8, <1>9
  <2> QED BY <2>2, <2>3 DEF EntryKept
<1>11. ASSUME NEW t \in Proc PROVE SaveKept(t) \/ (AnswerInv(t)' /\ SaveInv(t)')
  <2>1. proc[t] \in ProcState /\ AnswerInv(t) /\ (~Pushing(t) => ~Pushing(t)')
    <3>1. proc[t] \in ProcState /\ AnswerInv(t)
          BY DEF TypeInv, TypeOK, Coherent
    <3>2. proc'[t].kind = proc[t].kind
          BY <1>9, <3>1 DEF ProcState
    <3> QED BY <3>1, <3>2 DEF Pushing
  <2>2. /\ proc'[t].kind = proc[t].kind /\ proc'[t].h = proc[t].h /\ proc'[t].doc = proc[t].doc
        /\ proc'[t].pc = proc[t].pc /\ proc'[t].out = proc[t].out /\ proc'[t].seq = proc[t].seq
        /\ proc'[t].body = proc[t].body
        BY <1>9, <2>1 DEF ProcState
  <2>3. Pushing(t) /\ ~SharedFd => proc'[t] = proc[t]
        BY <1>8, <1>9
  <2>4. CASE Pushing(t)
        BY <2>2, <2>3, <2>4 DEF SaveKept
  <2>5. CASE ~Pushing(t)
        BY <1>1, <2>1, <2>2, <2>5 DEF AnswerInv, SaveInv, Getting
  <2> QED BY <2>4, <2>5
<1>12. \A g \in Handle : (BufferKept(g) \/ BufferInv(g)') /\ SettledStay(g)
      BY <1>4, <1>5, <1>7
<1> QED BY <1>1, <1>10, <1>11, <1>12, SameKept DEF CoherentStep

(* A flush that leaves the staged bytes and the metadata alone.            *)
LEMMA StopCoherent ==
    ASSUME TypeInv, NEW h \in Handle, Opened(h), NEW s, HandleTyped(s), hd' = [hd EXCEPT ![h] = s],
           s.st = hd[h].st \/ s.st \in {"closing", "releasing", "closed"},
           s.buf = hd[h].buf, s.dirty = hd[h].dirty, s.doc = hd[h].doc, s.meta = hd[h].meta
    PROVE  \A g \in Handle : BufferKept(g) /\ SettledStay(g)
<1>1. hd'[h] = s /\ \A g \in Handle \ {h} : BufferKept(g) /\ SettledStay(g)
      BY OneHandle
<1>2. BufferKept(h) /\ SettledStay(h)
      BY <1>1 DEF BufferKept, SettledStay, Settled
<1> QED BY <1>1, <1>2

(* A Flush or Release that sends nothing.                                  *)
LEMMA FlushesCoherent ==
    ASSUME TypeInv, NEW kind \in {"flush", "release"}, NEW h \in Handle,
           FlushClean(kind, h) \/ FlushInvalid(kind, h)
    PROVE  CoherentStep
<1> DEFINE clean == [hd[h] EXCEPT !.st = Stopped(kind)]
           failed == [Failed(hd[h]) EXCEPT !.st = Stopped(kind)]
<1>1. /\ MayFlush(kind, h) /\ UNCHANGED <<es, late, cache, proc>>
      /\ hd' = [hd EXCEPT ![h] = clean] \/ hd' = [hd EXCEPT ![h] = failed]
      BY DEF FlushClean, FlushInvalid
<1>2. hd[h] \in HandleState /\ HandleTyped(clean) /\ HandleTyped(failed)
      BY <1>1, FlushTargetsTyped
<1>3. Opened(h)
      BY <1>1 DEF MayFlush, Opened
<1>4. /\ clean.doc = hd[h].doc /\ clean.buf = hd[h].buf
      /\ clean.meta = hd[h].meta /\ clean.dirty = hd[h].dirty
      /\ clean.st \in {"closing", "closed"}
      BY <1>2 DEF HandleState, Stopped
<1>5. /\ failed.doc = hd[h].doc /\ failed.buf = hd[h].buf
      /\ failed.meta = hd[h].meta /\ failed.dirty = hd[h].dirty
      /\ failed.st \in {"closing", "closed"}
      BY <1>2 DEF HandleState, Stopped, Failed
<1> HIDE DEF clean, failed
<1>6. \A g \in Handle : BufferKept(g) /\ SettledStay(g)
      BY <1>1, <1>2, <1>3, <1>4, <1>5, StopCoherent
<1> QED BY <1>1, <1>6, SameKept DEF CoherentStep

(* Flush hands the staged bytes to a call.                                 *)
LEMMA FlushStartCoherent ==
    ASSUME TypeInv, NEW t \in Proc, NEW kind \in {"flush", "release"}, NEW h \in Handle,
           FlushStart(t, kind, h)
    PROVE  CoherentStep
<1> DEFINE p == [Idle EXCEPT !.kind = kind, !.pc = "ready", !.doc = hd[h].doc, !.h = h,
                             !.src = hd[h].buf, !.live = TRUE, !.guard = PutGuard(h)]
           s == [hd[h] EXCEPT !.st = Flushing(kind)]
<1>1. MayFlush(kind, h) /\ Become(t, p) /\ hd' = [hd EXCEPT ![h] = s] /\ Opened(h)
      BY DEF FlushStart, Begin, MayFlush, Opened
<1>2. hd[h] \in HandleState /\ HandleTyped(s)
      BY <1>1, FlushTargetsTyped
<1>3. /\ s.doc = hd[h].doc /\ s.buf = hd[h].buf /\ s.dirty = hd[h].dirty /\ s.meta = hd[h].meta
      /\ s.st \in {"closing", "releasing"}
      BY <1>2 DEF HandleState, Flushing
<1>4. /\ p.kind = kind /\ p.h = h /\ p.src = hd[h].buf /\ p.pc = "ready" /\ p.out = "none"
      BY DEF Idle
<1> HIDE DEF p, s
<1>5. \A g \in Handle : BufferKept(g) /\ SettledStay(g)
      BY <1>1, <1>2, <1>3, StopCoherent
<1>6. proc'[t] = p /\ \A u \in Proc \ {t} : SaveKept(u)
      BY <1>1, OneCall
<1>7. hd'[h] = s
      BY <1>1, <1>2, OneHandle
<1>8. AnswerInv(t)' /\ SaveInv(t)'
      BY <1>3, <1>4, <1>6, <1>7 DEF AnswerInv, SaveInv, Getting, Settled
<1>9. UNCHANGED <<late, cache>>
      BY DEF FlushStart
<1> QED BY <1>5, <1>6, <1>8, <1>9, SameKept DEF CoherentStep

(* The request goes out with the bytes as they then are.                   *)
LEMMA SendCoherent ==
    ASSUME TypeInv, Coherent, NEW t \in Proc, Send(t)
    PROVE  CoherentStep
<1> DEFINE p == [proc[t] EXCEPT !.pc = "sent", !.body = proc[t].src]
<1>1. /\ Become(t, p) /\ UNCHANGED <<es, late, cache, hd, sync>>
      /\ Pushing(t) /\ proc[t].src \in Body
      BY DEF Send
<1>2. proc[t] \in ProcState
      BY DEF TypeInv, TypeOK
<1>3. /\ p.kind = proc[t].kind /\ p.h = proc[t].h /\ p.doc = proc[t].doc /\ p.src = proc[t].src
      /\ p.out = proc[t].out /\ p.seq = proc[t].seq /\ p.body = proc[t].src
      /\ p.pc = "sent"
      BY <1>2 DEF ProcState
<1> HIDE DEF p
<1>4. proc'[t] = p /\ \A u \in Proc \ {t} : SaveKept(u)
      BY <1>1, OneCall
<1>5. SaveInv(t)
      BY DEF Coherent
<1>6. proc[t].out # "ok"
      BY <1>1, <1>5 DEF Send, SaveInv
<1>7. AnswerInv(t)' /\ SaveInv(t)'
      BY <1>1, <1>3, <1>4, <1>5, <1>6 DEF AnswerInv, SaveInv, Getting, Pushing, Settled
<1> QED BY <1>1, <1>4, <1>7, SameKept DEF CoherentStep

(* A save that Elasticsearch answers becomes the version it names.         *)
LEMMA EsWriteCoherent ==
    ASSUME TypeInv, Coherent, NEW t \in Proc, EsWrite(t)
    PROVE  CoherentStep
<1> DEFINE d == proc[t].doc
           ok == [proc[t] EXCEPT !.pc = "answered", !.out = "ok", !.seq = Len(es[d]) + 1]
           no == [proc[t] EXCEPT !.pc = "answered", !.out = "refused"]
           p == IF Accepts(d, proc[t].guard) THEN ok ELSE no
<1>1. /\ Writing(t) /\ proc[t].pc = "sent" /\ Become(t, p) /\ UNCHANGED <<late, cache, hd, sync>>
      /\ Accepts(d, proc[t].guard) => Append1(d, proc[t].body, proc[t].h)
      BY DEF EsWrite
<1>2. proc[t] \in ProcState /\ d \in Doc /\ proc[t].h \in Handle \cup {None}
      BY <1>1 DEF TypeInv, TypeOK, CallTyped, Writing, Pushing, ProcState
<1>3. /\ p.kind = proc[t].kind /\ p.h = proc[t].h /\ p.doc = d /\ p.src = proc[t].src
      /\ p.body = proc[t].body /\ p.pc = "answered"
      /\ p.out = "ok" => Accepts(d, proc[t].guard) /\ p.seq = Len(es[d]) + 1
      /\ p.out \in {"ok", "refused"}
      BY <1>2 DEF ProcState
<1> HIDE DEF p, d
<1>4. proc'[t] = p /\ \A u \in Proc \ {t} : SaveKept(u)
      BY <1>1, OneCall
<1>5. SaveInv(t)
      BY DEF Coherent
<1>6. ASSUME Pushing(t), p.out = "ok" PROVE Holds(es'[d], p.seq, p.body)
  <2>1. proc[t].body \in Body
        BY <1>1, <1>5, <1>6 DEF SaveInv
  <2>2. es'[d][Len(es[d]) + 1] = [val |-> proc[t].body, by |-> proc[t].h] /\ Len(es'[d]) = Len(es[d]) + 1
        /\ Len(es[d]) \in Nat
        BY <1>1, <1>2, <1>3, <1>6, <2>1, Append1Typed
  <2> QED BY <1>3, <1>6, <2>1, <2>2 DEF Holds
<1>7. AnswerInv(t)' /\ SaveInv(t)'
      BY <1>1, <1>3, <1>4, <1>5, <1>6 DEF AnswerInv, SaveInv, Getting, Pushing, Writing, Settled
<1> QED BY <1>1, <1>4, <1>7, SameKept DEF CoherentStep

(* A call that gives up claims nothing; what it sent may still be applied. *)
LEMMA GiveUpCoherent ==
    ASSUME IInv, Coherent, NEW t \in Proc, GiveUp(t)
    PROVE  CoherentStep
<1> DEFINE p == [proc[t] EXCEPT !.pc = "answered", !.out = "fail"]
<1>1. /\ proc[t] \in ProcState /\ Become(t, p) /\ UNCHANGED <<es, cache, hd, sync>>
      /\ late' = late \/ (Writing(t) /\ proc[t].pc = "sent" /\ late' = late \cup {RequestOf(t)})
      BY DEF IInv, TypeInv, TypeOK, GiveUp
<1>2. /\ p.kind = proc[t].kind /\ p.h = proc[t].h /\ p.src = proc[t].src /\ p.out = "fail"
      /\ p.pc = "answered"
      BY <1>1 DEF ProcState
<1> HIDE DEF p
<1>3. proc'[t] = p /\ \A u \in Proc \ {t} : SaveKept(u)
      BY <1>1, OneCall DEF IInv
<1>4. SaveInv(t)
      BY DEF Coherent
<1>5. AnswerInv(t)' /\ SaveInv(t)'
      BY <1>1, <1>2, <1>3, <1>4 DEF AnswerInv, SaveInv, Getting, Pushing, Settled
<1>6. ASSUME Writing(t), proc[t].pc = "sent", proc[t].h \in Handle
      PROVE  proc[t].body \in Body /\ proc[t].doc = hd[proc[t].h].doc
  <2>1. Pushing(t)
        BY <1>6, SentinelAssumption DEF Writing, IInv, TypeInv, CallTyped
  <2> QED BY <1>4, <1>6, <2>1 DEF SaveInv, IInv, OCCInv, CallInv, SoundCall
<1>7. Writing(t) /\ proc[t].pc = "sent" => LateInv(RequestOf(t))
      BY <1>6 DEF LateInv, RequestOf
<1>8. \A r : LateInv(r) => LateInv(r)'
      BY <1>1 DEF LateInv
<1> QED BY <1>1, <1>3, <1>5, <1>7, <1>8, SameKept DEF CoherentStep

(* The end of a successful flush: cache and handle name the new version.   *)
LEMMA FlushDoneCoherent ==
    ASSUME IInv, Coherent, NEW t \in Proc, FlushDone(t)
    PROVE  CoherentStep
<1>1. PICK h \in Handle, d \in Doc : h = proc[t].h /\ d = proc[t].doc /\ Pushing(t)
      BY FlushDoneShape DEF IInv
<1> DEFINE s == [Recapture(hd[h], proc[t].seq) EXCEPT !.st = After(proc[t].kind, h)]
           e == PutEntry(t)
<1>2. /\ proc[t].out = "ok" /\ Return(t) /\ UNCHANGED <<es, late>>
      /\ hd' = [hd EXCEPT ![h] = s] /\ cache' = [cache EXCEPT ![d] = e]
      BY <1>1 DEF FlushDone
<1>3. Opened(h) /\ HandleTyped(s) /\ hd[h] \in HandleState
      BY <1>1, FlushedTyped DEF IInv, TypeInv, TypeOK
<1>4. /\ s.doc = hd[h].doc /\ s.meta = proc[t].seq /\ s.buf = hd[h].buf
      /\ s.st = hd[h].st \/ s.st = "closed"
      BY <1>3 DEF HandleState, Recapture, After
<1>5. e.src = proc[t].src /\ e.seq = proc[t].seq /\ (e.of = h \/ e.of = None)
      BY <1>1 DEF PutEntry
<1>6. /\ ~SharedFd => Settled(h) /\ proc[t].src = hd[h].buf /\ proc[t].body = proc[t].src
      /\ Holds(es[d], proc[t].seq, proc[t].body)
      BY <1>1, <1>2 DEF Coherent, SaveInv
<1>7. d = hd[h].doc
      BY <1>1 DEF IInv, OCCInv, CallInv, SoundCall
<1> HIDE DEF s, e
<1>8. hd'[h] = s /\ \A g \in Handle \ {h} : BufferKept(g) /\ SettledStay(g)
      BY <1>2, <1>3, OneHandle DEF IInv
<1>9. SettledStay(h) /\ (~SharedFd => Settled(h)')
      BY <1>4, <1>6, <1>8 DEF SettledStay, Settled
<1>10. BufferInv(h)'
      BY <1>2, <1>4, <1>6, <1>7, <1>8 DEF BufferInv, Holds
<1>11. cache'[d] = e /\ \A c \in Doc \ {d} : EntryKept(c)
      BY <1>2 DEF IInv, TypeInv, TypeOK, EntryKept
<1>12. EntryInv(d)'
      BY <1>2, <1>5, <1>6, <1>9, <1>11, SentinelAssumption DEF EntryInv, Holds
<1>13. \A u \in Proc : SaveKept(u) \/ (AnswerInv(u)' /\ SaveInv(u)')
      BY <1>2, ReturnClaimsNothing DEF IInv
<1>14. \A g \in Handle : (BufferKept(g) \/ BufferInv(g)') /\ SettledStay(g)
      BY <1>8, <1>9, <1>10
<1>15. \A c \in Doc : EntryKept(c) \/ EntryInv(c)'
      BY <1>11, <1>12
<1> QED BY <1>2, <1>13, <1>14, <1>15 DEF CoherentStep

(* A failed flush leaves bytes and metadata alone.                         *)
LEMMA FlushFailedCoherent ==
    ASSUME IInv, NEW t \in Proc, FlushFailed(t)
    PROVE  CoherentStep
<1> DEFINE h == proc[t].h
           s == [Failed(hd[h]) EXCEPT !.st = After(proc[t].kind, h)]
<1>1. /\ Pushing(t) /\ hd' = [hd EXCEPT ![h] = s] /\ Return(t)
      /\ UNCHANGED <<es, late, cache>>
      BY DEF FlushFailed
<1>2. h \in Handle /\ Opened(h) /\ HandleTyped(s)
      BY <1>1, FlushedTyped DEF IInv
<1>3. hd[h] \in HandleState
      BY <1>2 DEF IInv, TypeInv, TypeOK
<1>4. /\ s.doc = hd[h].doc /\ s.buf = hd[h].buf /\ s.dirty = hd[h].dirty /\ s.meta = hd[h].meta
      /\ s.st = hd[h].st \/ s.st = "closed"
      BY <1>3 DEF HandleState, Failed, After
<1> HIDE DEF s, h
<1>5. \A g \in Handle : BufferKept(g) /\ SettledStay(g)
      BY <1>1, <1>2, <1>4, StopCoherent DEF IInv
<1> QED BY <1>1, <1>5, SameKept, ReturnClaimsNothing DEF CoherentStep, IInv

(* Unlinks.                                                                *)
LEMMA UnlinksCoherent ==
    ASSUME TypeInv, NEW t \in Proc
    PROVE  /\ \A d \in Doc : UnlinkStart(t, d) => CoherentStep
           /\ UnlinkDone(t) \/ UnlinkFailed(t) => CoherentStep
<1>1. ASSUME NEW d \in Doc, UnlinkStart(t, d) PROVE CoherentStep
  <2> DEFINE p == [Idle EXCEPT !.kind = "unlink", !.pc = "sent", !.doc = d,
                               !.guard = [kind |-> "delete", seq |-> 0]]
  <2>1. Become(t, p) /\ UNCHANGED <<es, late, cache, hd, sync>> /\ p.kind = "unlink" /\ p.out = "none"
        BY <1>1 DEF UnlinkStart, Begin, Idle
  <2> HIDE DEF p
  <2> QED BY <2>1, SameKept, CallClaimsNothing DEF CoherentStep
<1>2. ASSUME UnlinkDone(t) PROVE CoherentStep
  <2>1. PICK d \in Doc : d = proc[t].doc
        BY <1>2 DEF UnlinkDone, TypeInv, CallTyped
  <2>2. Return(t) /\ UNCHANGED <<es, late, hd>> /\ cache' = [cache EXCEPT ![d] = NoEntry]
        BY <1>2, <2>1 DEF UnlinkDone
  <2> QED BY <2>2, SameKept, DropHeld, ReturnClaimsNothing DEF CoherentStep
<1>3. ASSUME UnlinkFailed(t) PROVE CoherentStep
  <2>1. Return(t) /\ UNCHANGED <<es, late, cache, hd>>
        BY <1>3 DEF UnlinkFailed
  <2> QED BY <2>1, SameKept, ReturnClaimsNothing DEF CoherentStep
<1> QED BY <1>1, <1>2, <1>3

(* Every step is such a step.                                              *)
LEMMA EveryStepCoherent ==
    ASSUME IInv, Coherent, [Next]_vars
    PROVE  CoherentStep
<1>1. ASSUME NEW t \in Proc, StartCall(t) PROVE CoherentStep
      BY <1>1, ReadsCoherent, UnlinksCoherent, OpensCoherent, FlushStartCoherent DEF StartCall, IInv
<1>2. ASSUME NEW t \in Proc, Advance(t) PROVE CoherentStep
      BY <1>2, ReadsCoherent, OpensCoherent, SendCoherent, EsWriteCoherent, GiveUpCoherent,
         FlushDoneCoherent, FlushFailedCoherent, UnlinksCoherent DEF Advance, IInv
<1>3. ASSUME NEW h \in Handle, UseHandle(h) PROVE CoherentStep
  <2>1. Content \ {Empty} \subseteq Content
        OBVIOUS
  <2> QED BY <1>3, <2>1, OpensCoherent, EditsCoherent, FlushesCoherent DEF UseHandle, IInv
<1>4. ASSUME NEW d \in Doc, Expire(d) PROVE CoherentStep
      BY <1>4, DropHeld, SameKept DEF Expire, CoherentStep, IInv
<1>5. CASE UNCHANGED <<cache, hd, proc>> /\ late' \subseteq late
      BY <1>5, SameKept DEF CoherentStep
<1> QED BY <1>1, <1>2, <1>3, <1>4, <1>5
        DEF Next, vars, EsLateWrite, ExternalWrite, ExternalDelete

(* Initially nothing is held.                                              *)
LEMMA CoherentInit == Init => Coherent
<1> SUFFICES ASSUME Init PROVE Coherent
    OBVIOUS
<1>1. /\ \A h \in Handle : hd[h].st = "fresh"
      /\ \A t \in Proc : proc[t].kind = "idle"
      /\ \A d \in Doc : cache[d].seq = 0 /\ cache[d].of = None
      /\ late = {}
      BY DEF Init, FreshHandle, Idle, NoEntry
<1> QED BY <1>1, SentinelAssumption
        DEF Coherent, EntryInv, AnswerInv, SaveInv, BufferInv, Getting, Pushing, Opened

-----------------------------------------------------------------------------
(* What the caches and buffers hold.                                       *)

(* Coherent holds in every reachable state.                                *)
THEOREM CoherentAlways == Spec => []Coherent
<1>1. IInv /\ Coherent /\ [Next]_vars => Coherent'
  <2>1. IInv /\ [Next]_vars => GoodStep
        BY EveryStepGood DEF IInv
  <2> QED BY <2>1, EveryStepCoherent, CoherentStays
<1> QED BY <1>1, CoherentInit, Invariance, PTL DEF Spec

(* Where no descriptor is written to while, or after, it is flushed, what  *)
(* the document cache holds under a _seq_no is what Elasticsearch stored   *)
(* under it, whatever fills, flushes, unlinks and expiries interleave.     *)
THEOREM CacheHoldsStoredVersions ==
    ASSUME ~SharedFd
    PROVE  Spec => []CacheCoherent
<1>1. Coherent => CacheCoherent
      BY DEF Coherent, EntryInv, Holds, CacheCoherent
<1> QED BY <1>1, CoherentAlways, PTL

(* Under the same condition a handle with nothing to flush stages the very *)
(* version its OCC metadata names, so that skipping its flush loses        *)
(* nothing.                                                                *)
THEOREM CleanBuffersAreStored ==
    ASSUME ~SharedFd
    PROVE  Spec => []CleanBufferIsStored
<1>1. Coherent => CleanBufferIsStored
      BY DEF Coherent, BufferInv, Opened, CleanBufferIsStored
<1> QED BY <1>1, CoherentAlways, PTL

-----------------------------------------------------------------------------
(* The SyncEvent that .sync.json shows.                                    *)
Active(h) == hd[h].st \in {"open", "closing", "releasing"}

ReportsStep ==
    /\ sync.lastError => sync'.lastError
    /\ \A h \in Handle : hd'[h].st = "closed" /\ hd'[h].dirty =>
         \/ hd[h].st = "closed" /\ hd[h].dirty /\ hd'[h].flushedErr = hd[h].flushedErr
         \/ hd'[h].flushedErr /\ sync'.lastError

DrainsStep ==
    \/ sync'.pending = 0
    \/ sync'.pending = sync.pending /\ \A h \in Handle : Active(h) => Active(h)'
    \/ \E h \in Handle : Active(h)'

SyncStep == ReportsStep /\ DrainsStep

(* A step that touches neither handles nor the SyncEvent.                  *)
LEMMA QuietSync == UNCHANGED <<hd, sync>> => SyncStep
BY DEF SyncStep, ReportsStep, DrainsStep, Active

(* What each way to set the SyncEvent sets.                                *)
LEMMA SyncFields ==
    ASSUME TypeInv, NEW n
    PROVE  /\ sync' = [sync EXCEPT !.pending = n] =>
                sync'.pending = n /\ sync'.lastError = sync.lastError
           /\ sync' = [sync EXCEPT !.lastWrite = TRUE] =>
                sync'.pending = sync.pending /\ sync'.lastError = sync.lastError
           /\ sync' = [sync EXCEPT !.lastError = TRUE] =>
                sync'.pending = sync.pending /\ sync'.lastError = TRUE
           /\ sync' = [sync EXCEPT !.lastWrite = TRUE, !.pending = n] =>
                sync'.pending = n /\ sync'.lastError = sync.lastError
           /\ sync' = [sync EXCEPT !.lastError = TRUE, !.pending = n] =>
                sync'.pending = n /\ sync'.lastError = TRUE
BY DEF TypeInv, TypeOK, SyncEvent

(* A flush or release that stops handle h in state s.                      *)
LEMMA StopSync ==
    ASSUME TypeInv, NEW h \in Handle, NEW s, HandleTyped(s), hd' = [hd EXCEPT ![h] = s],
           sync.lastError => sync'.lastError,
           s.st = "closed" /\ s.dirty => s.flushedErr /\ sync'.lastError,
           \/ sync'.pending = 0
           \/ sync'.pending = sync.pending /\ (Active(h) => s.st \in {"open", "closing", "releasing"})
    PROVE  SyncStep
<1>1. hd'[h] = s /\ \A g \in Handle \ {h} : hd'[g] = hd[g]
      BY HandleBecomesTyped
<1>2. ReportsStep
      BY <1>1 DEF ReportsStep
<1>3. DrainsStep
      BY <1>1 DEF DrainsStep, Active
<1> QED BY <1>2, <1>3 DEF SyncStep

(* Opens count as pending.                                                 *)
LEMMA OpenWriteSync ==
    ASSUME TypeInv, NEW h \in Handle, ~Opened(h), NEW d \in Doc, NEW fl \in Flags,
           NEW found \in BOOLEAN, NEW src, NEW seq \in Nat, OpenWrite(h, d, fl, found, src, seq)
    PROVE  SyncStep
<1>1. CASE fl.excl /\ found
  <2>1. hd' = [hd EXCEPT ![h] = FreshHandle] /\ UNCHANGED sync
        BY <1>1 DEF OpenWrite
  <2>2. FreshHandle.st = "fresh" /\ ~Active(h)
        BY DEF FreshHandle, Active, Opened
  <2> QED BY <2>1, <2>2, FreshTyped, StopSync
<1>2. CASE ~(fl.excl /\ found)
  <2> DEFINE s == Staged(d, fl, found, src, seq)
  <2>1. hd' = [hd EXCEPT ![h] = s] /\ sync' = [sync EXCEPT !.pending = 1]
        BY <1>2 DEF OpenWrite
  <2>2. HandleTyped(s)
        BY FlagsAssumption, StagedTyped
  <2>3. s.st = "open"
        BY DEF Staged, FreshHandle
  <2> HIDE DEF s
  <2>4. hd'[h] = s /\ \A g \in Handle \ {h} : hd'[g] = hd[g]
        BY <2>1, <2>2, HandleBecomesTyped
  <2>5. sync'.lastError = sync.lastError
        BY <2>1, SyncFields
  <2> QED BY <2>3, <2>4, <2>5 DEF SyncStep, ReportsStep, DrainsStep, Active
<1> QED BY <1>1, <1>2

(* Flush and Release that send nothing.                                    *)
LEMMA FlushesSync ==
    ASSUME TypeInv, NEW kind \in {"flush", "release"}, NEW h \in Handle,
           FlushClean(kind, h) \/ FlushInvalid(kind, h)
    PROVE  SyncStep
<1> DEFINE clean == [hd[h] EXCEPT !.st = Stopped(kind)]
           failed == [Failed(hd[h]) EXCEPT !.st = Stopped(kind)]
<1>1. MayFlush(kind, h)
      BY DEF FlushClean, FlushInvalid
<1>2. hd[h] \in HandleState /\ HandleTyped(clean) /\ HandleTyped(failed)
      BY <1>1, FlushTargetsTyped
<1>3. /\ clean.dirty = hd[h].dirty /\ clean.st = Stopped(kind)
      /\ failed.flushedErr = TRUE /\ failed.st = Stopped(kind)
      BY <1>2 DEF HandleState, Failed
<1>4. Pending(kind) = 0 \/ (Pending(kind) = sync.pending /\ Stopped(kind) = "closing")
      BY DEF Pending, Stopped
<1>5. CASE FlushClean(kind, h)
  <2>1. hd' = [hd EXCEPT ![h] = clean] /\ sync' = [sync EXCEPT !.pending = Pending(kind)] /\ ~clean.dirty
        BY <1>3, <1>5 DEF FlushClean
  <2> HIDE DEF clean
  <2> QED BY <2>1, <1>2, <1>3, <1>4, SyncFields, StopSync
<1>6. CASE FlushInvalid(kind, h)
  <2>1. hd' = [hd EXCEPT ![h] = failed] /\ sync' = [sync EXCEPT !.lastError = TRUE, !.pending = Pending(kind)]
        BY <1>6 DEF FlushInvalid
  <2> HIDE DEF failed
  <2> QED BY <2>1, <1>2, <1>3, <1>4, SyncFields, StopSync
<1> QED BY <1>5, <1>6

(* The start of a flush, and an edit.                                      *)
LEMMA StartsSync ==
    ASSUME TypeInv, NEW h \in Handle
    PROVE  /\ \A t \in Proc, kind \in {"flush", "release"} : FlushStart(t, kind, h) => SyncStep
           /\ \A c \in Content : Stage(h, c) => SyncStep
<1>1. ASSUME NEW t \in Proc, NEW kind \in {"flush", "release"}, FlushStart(t, kind, h)
      PROVE  SyncStep
  <2> DEFINE s == [hd[h] EXCEPT !.st = Flushing(kind)]
  <2>1. MayFlush(kind, h) /\ hd' = [hd EXCEPT ![h] = s] /\ UNCHANGED sync
        BY <1>1 DEF FlushStart
  <2>2. hd[h] \in HandleState /\ HandleTyped(s)
        BY <2>1, FlushTargetsTyped
  <2>3. s.st \in {"closing", "releasing"}
        BY <2>2 DEF HandleState, Flushing
  <2> HIDE DEF s
  <2> QED BY <2>1, <2>2, <2>3, StopSync
<1>2. ASSUME NEW c \in Content, Stage(h, c) PROVE SyncStep
  <2> DEFINE s == [hd[h] EXCEPT !.buf = c, !.dirty = TRUE]
  <2>1. hd' = [hd EXCEPT ![h] = s] /\ UNCHANGED sync /\ Editable(h)
        BY <1>2 DEF Stage
  <2>2. HandleTyped(s) /\ s.st = hd[h].st
        BY DEF TypeInv, TypeOK, HandleTyped, HandleState
  <2>3. hd[h].st \in {"open", "closing"}
        BY <2>1 DEF Editable
  <2> HIDE DEF s
  <2> QED BY <2>1, <2>2, <2>3, StopSync
<1> QED BY <1>1, <1>2

(* The end of a flush.                                                     *)
LEMMA EndsSync ==
    ASSUME TypeInv, Protocol, NEW t \in Proc
    PROVE  FlushDone(t) \/ FlushFailed(t) => SyncStep
<1> DEFINE h == proc[t].h
           k == proc[t].kind
           done == [Recapture(hd[h], proc[t].seq) EXCEPT !.st = After(k, h)]
           failed == [Failed(hd[h]) EXCEPT !.st = After(k, h)]
<1>1. Pending(k) = 0 \/ (Pending(k) = sync.pending /\ After(k, h) = hd[h].st)
      BY DEF Pending, After
<1>2. ASSUME FlushDone(t) PROVE SyncStep
  <2>1. /\ Pushing(t) /\ hd' = [hd EXCEPT ![h] = done] /\ proc[t].out = "ok"
        /\ sync' = [sync EXCEPT !.lastWrite = TRUE, !.pending = Pending(k)]
        BY <1>2 DEF FlushDone
  <2>2. h \in Handle /\ HandleTyped(done)
        BY <2>1, FlushedTyped
  <2>3. ~done.dirty /\ done.st = After(k, h)
        BY <2>2 DEF TypeInv, TypeOK, HandleState, Recapture
  <2> HIDE DEF done, h, k
  <2> QED BY <2>1, <2>2, <2>3, <1>1, SyncFields, StopSync DEF Active
<1>3. ASSUME FlushFailed(t) PROVE SyncStep
  <2>1. /\ Pushing(t) /\ hd' = [hd EXCEPT ![h] = failed]
        /\ sync' = [sync EXCEPT !.lastError = TRUE, !.pending = Pending(k)]
        BY <1>3 DEF FlushFailed
  <2>2. h \in Handle /\ HandleTyped(failed)
        BY <2>1, FlushedTyped
  <2>3. failed.flushedErr /\ failed.st = After(k, h)
        BY <2>2 DEF TypeInv, TypeOK, HandleState, Failed
  <2> HIDE DEF failed, h, k
  <2> QED BY <2>1, <2>2, <2>3, <1>1, SyncFields, StopSync DEF Active
<1> QED BY <1>2, <1>3

(* Opening.                                                                *)
LEMMA OpensSync ==
    ASSUME TypeInv, Protocol, NEW h \in Handle
    PROVE  /\ \A d \in Doc, fl \in Flags : OpenHit(h, d, fl) => SyncStep
           /\ \A t \in Proc, d \in Doc, fl \in Flags : OpenMiss(t, h, d, fl) => SyncStep
           /\ \A t \in Proc : OpenFinish(t) => SyncStep
<1>1. ASSUME NEW d \in Doc, NEW fl \in Flags, OpenHit(h, d, fl) PROVE SyncStep
  <2>1. /\ ~Opened(h) /\ cache[d].seq \in Nat
        /\ OpenWrite(h, d, fl, TRUE, cache[d].src, cache[d].seq)
        BY <1>1 DEF OpenHit, Opened, TypeInv, TypeOK, CacheEntry
  <2> QED BY <2>1, OpenWriteSync
<1>2. ASSUME NEW t \in Proc, NEW d \in Doc, NEW fl \in Flags, OpenMiss(t, h, d, fl) PROVE SyncStep
  <2>1. /\ hd[h].st = "fresh" /\ hd'[h].st = "opening" /\ \A g \in Handle \ {h} : hd'[g] = hd[g]
        BY <1>2, OpenMissShape
  <2>2. UNCHANGED sync
        BY <1>2 DEF OpenMiss
  <2> QED BY <2>1, <2>2 DEF SyncStep, ReportsStep, DrainsStep, Active
<1>3. ASSUME NEW t \in Proc, OpenFinish(t) PROVE SyncStep
  <2> DEFINE found == proc[t].out = "found"
  <2>1. /\ proc[t].kind = "open"
        /\ OpenWrite(proc[t].h, proc[t].doc, proc[t].flags, found, proc[t].body, proc[t].seq)
        BY <1>3 DEF OpenFinish
  <2>2. proc[t].h \in Handle /\ proc[t].doc \in Doc /\ proc[t].flags \in Flags /\ proc[t].seq \in Nat
        BY <2>1 DEF TypeInv, CallTyped, ProcState
  <2>3. ~Opened(proc[t].h) /\ found \in BOOLEAN
        BY <2>1 DEF Protocol, Opened
  <2> HIDE DEF found
  <2> QED BY <2>1, <2>2, <2>3, OpenWriteSync
<1> QED BY <1>1, <1>2, <1>3

(* Every step keeps what .sync.json owes its reader.                       *)
LEMMA EveryStepSync ==
    ASSUME TypeInv, Protocol, [Next]_vars
    PROVE  SyncStep
<1>1. ASSUME NEW t \in Proc, StartCall(t) PROVE SyncStep
  <2>1. ASSUME NEW d \in Doc, ReadStart(t, d) \/ UnlinkStart(t, d) PROVE SyncStep
        BY <2>1, QuietSync DEF ReadStart, UnlinkStart
  <2> QED BY <1>1, <2>1, OpensSync, StartsSync DEF StartCall
<1>2. ASSUME NEW t \in Proc, Advance(t) PROVE SyncStep
  <2>1. ASSUME UnlinkDone(t) \/ UnlinkFailed(t) PROVE SyncStep
    <3>1. UNCHANGED hd /\ sync'.pending = sync.pending /\ (sync.lastError => sync'.lastError)
          BY <2>1, SyncFields DEF UnlinkDone, UnlinkFailed
    <3> QED BY <3>1 DEF SyncStep, ReportsStep, DrainsStep, Active
  <2>2. ASSUME OpenFinish(t) PROVE SyncStep
    <3>1. proc[t].h \in Handle
          BY <2>2, OpenFinishShape
    <3> QED BY <2>2, <3>1, OpensSync
  <2>3. ASSUME EsGet(t) \/ ReadFinish(t) \/ Send(t) \/ EsWrite(t) \/ GiveUp(t) PROVE SyncStep
        BY <2>3, QuietSync DEF EsGet, ReadFinish, Send, EsWrite, GiveUp
  <2> QED BY <1>2, <2>1, <2>2, <2>3, EndsSync DEF Advance
<1>3. ASSUME NEW h \in Handle, UseHandle(h) PROVE SyncStep
      BY <1>3, OpensSync, StartsSync, FlushesSync DEF UseHandle, WriteAt, Truncate
<1>4. CASE UNCHANGED <<hd, sync>>
      BY <1>4, QuietSync
<1> QED BY <1>1, <1>2, <1>3, <1>4
        DEF Next, vars, Expire, EsLateWrite, ExternalWrite, ExternalDelete

(* What a handle still knows to be unpushed when it is released has failed *)
(* a flush and shows in .sync.json, on shared descriptors too.             *)
DirtyReported ==
    \A h \in Handle : hd[h].st = "closed" /\ hd[h].dirty => hd[h].flushedErr /\ sync.lastError

LEMMA DirtyAlwaysReported == Spec => []DirtyReported
<1>1. Init => DirtyReported
      BY DEF Init, FreshHandle, DirtyReported
<1>2. IInv /\ DirtyReported /\ [Next]_vars => DirtyReported'
      BY EveryStepSync DEF IInv, SyncStep, ReportsStep, DirtyReported
<1> QED BY <1>1, <1>2, Invariance, PTL DEF Spec

(* An edit that Elasticsearch does not have under the metadata of the      *)
(* handle it was made through has failed a flush when the handle is        *)
(* released, and .sync.json shows an error: for any number of handles and  *)
(* goroutines, provided no descriptor is shared.  The dirty flag tells all *)
(* of those edits only because a clean buffer is a stored one (BufferInv). *)
THEOREM LostEditsAreReported ==
    ASSUME ~SharedFd
    PROVE  Spec => []LostEditsReported
<1>1. Coherent /\ DirtyReported => LostEditsReported
  <2>1. SUFFICES ASSUME Coherent, DirtyReported, NEW h \in Handle, hd[h].st = "closed",
                        hd[h].dirty \/ Unstored(h)
                 PROVE  hd[h].flushedErr /\ sync.lastError
        BY DEF LostEditsReported
  <2>2. ASSUME ~hd[h].dirty PROVE FALSE
    <3>1. CASE hd[h].buf = Empty
          BY <2>1, <2>2, <3>1 DEF Unstored
    <3>2. CASE hd[h].buf # Empty
      <4>1. /\ hd[h].meta \in 1..Len(es[hd[h].doc])
            /\ es[hd[h].doc][hd[h].meta].val = hd[h].buf
            BY <2>1, <2>2, <3>2 DEF Coherent, BufferInv, Opened
      <4> QED BY <2>1, <2>2, <3>2, <4>1 DEF Unstored
    <3> QED BY <3>1, <3>2
  <2> QED BY <2>1, <2>2 DEF DirtyReported
<1> QED BY <1>1, CoherentAlways, DirtyAlwaysReported, PTL

(* pending_docs is 1 only while a writable handle is open.                 *)
THEOREM PendingAlwaysDrains == Spec => []PendingDrains
<1>1. Init => PendingDrains
      BY DEF Init, PendingDrains
<1>2. IInv /\ PendingDrains /\ [Next]_vars => PendingDrains'
      BY EveryStepSync DEF IInv, SyncStep, DrainsStep, Active, PendingDrains
<1> QED BY <1>1, <1>2, Invariance, PTL DEF Spec

-----------------------------------------------------------------------------
(* The write path implements OccDoc.                                       *)
BaseOf(h) == IF Opened(h) THEN [doc |-> hd[h].doc, seen |-> hd[h].loaded]
             ELSE [doc |-> None, seen |-> 0]

(* Bases, one handle at a time.                                            *)
LEMMA BasesApplied ==
    /\ \A h \in Handle : Bases[h] = BaseOf(h) /\ Bases'[h] = BaseOf(h)'
    /\ (\A h \in Handle : BaseOf(h)' = BaseOf(h)) => Bases' = Bases
<1>1. /\ Bases = [h \in Handle |-> BaseOf(h)]
      /\ Bases' = [h \in Handle |-> BaseOf(h)']
      BY DEF Bases, BaseOf, Opened
<1> QED BY <1>1

(* A handle that keeps what the invariants are about keeps its base.       *)
LEMMA KeptBases ==
    ASSUME \A h \in Handle : HandleKept(h)
    PROVE  Bases' = Bases
BY BasesApplied DEF HandleKept, BaseOf, Opened

(* OpenWrite opens h on the version found, or on none, or not at all.      *)
LEMMA OpenWriteBase ==
    ASSUME TypeInv, NEW h \in Handle, ~Opened(h), NEW d \in Doc, NEW fl \in Flags,
           NEW found \in BOOLEAN, NEW src, NEW seq \in Nat,
           found => Holds(es[d], seq, es[d][seq].val), UNCHANGED es,
           OpenWrite(h, d, fl, found, src, seq)
    PROVE  [OD!Next]_OD!vars
<1> DEFINE s == IF fl.excl /\ found THEN FreshHandle ELSE Staged(d, fl, found, src, seq)
           n == IF found THEN seq ELSE 0
<1>1. hd' = [hd EXCEPT ![h] = s]
      BY DEF OpenWrite
<1>2. HandleTyped(s)
      BY FreshTyped, StagedTyped, FlagsAssumption
<1>3. \/ s.st = "fresh"
      \/ s.st = "open" /\ s.doc = d /\ s.loaded = n
      BY DEF Staged, FreshHandle
<1> HIDE DEF s
<1>4. hd'[h] = s /\ \A g \in Handle \ {h} : hd'[g] = hd[g]
      BY <1>1, <1>2, HandleBecomesTyped
<1>5. \A g \in Handle \ {h} : BaseOf(g)' = BaseOf(g)
      BY <1>4 DEF BaseOf, Opened
<1>6. CASE s.st = "fresh"
  <2>1. BaseOf(h)' = BaseOf(h)
        BY <1>4, <1>6 DEF BaseOf, Opened
  <2> QED BY <1>5, <2>1, BasesApplied DEF OD!vars
<1>7. CASE s.st = "open" /\ s.doc = d /\ s.loaded = n
  <2>1. BaseOf(h) = [doc |-> None, seen |-> 0] /\ BaseOf(h)' = [doc |-> d, seen |-> n]
        BY <1>4, <1>7 DEF BaseOf, Opened
  <2>2. Bases' = [Bases EXCEPT ![h] = [doc |-> d, seen |-> n]]
    <3> DEFINE b == [doc |-> d, seen |-> n]
    <3>1. BaseOf(h)' = b
          BY <2>1
    <3> HIDE DEF b
    <3>2. Bases' = [g \in Handle |-> IF g = h THEN b ELSE Bases[g]]
          BY <1>5, <3>1, BasesApplied DEF Bases
    <3>3. [Bases EXCEPT ![h] = b] = [g \in Handle |-> IF g = h THEN b ELSE Bases[g]]
          BY DEF Bases
    <3> QED BY <3>2, <3>3 DEF b
  <2>3. n = 0 \/ OD!Held(d, n)
        BY SentinelAssumption DEF OD!Held, Holds
  <2>4. n \in 0..Len(es[d])
    <3>1. Len(es[d]) \in Nat
          BY DEF TypeInv, TypeOK
    <3> QED BY <3>1 DEF Holds
  <2>5. OD!Open(h, d, n)
        BY <2>1, <2>2, <2>3, BasesApplied DEF OD!Open, OD!Unopened
  <2> QED BY <2>4, <2>5 DEF OD!Next
<1> QED BY <1>3, <1>6, <1>7

(* A version stored by h on a justified precondition is one OccDoc allows. *)
LEMMA StoreAllowed ==
    ASSUME GuardedOpens, Policy = "safe-create-update", TypeInv,
           NEW h \in Handle, Opened(h), NEW d \in Doc, d = hd[h].doc, NEW b \in Body, NEW g,
           Justified(h, hd[h].loaded, es[d], g), Accepts(d, g), Append1(d, b, h), UNCHANGED hd
    PROVE  OD!Next
<1>1. Bases[h] = [doc |-> d, seen |-> hd[h].loaded]
      BY BasesApplied DEF BaseOf
<1>2. Len(es[d]) \in Nat
      BY DEF TypeInv, TypeOK
<1>3. OD!MayStore(h, d)
  <2>1. CASE g.kind = "create"
        BY <1>1, <1>2, <2>1 DEF Justified, Accepts, Live, OD!MayStore, OD!Held
  <2>2. CASE g.kind = "match"
    <3>1. g.seq = Len(es[d]) /\ g.seq # 0 /\ (g.seq = hd[h].loaded \/ es[d][g.seq].by = h)
          BY <2>2 DEF Justified, Accepts, Base
    <3> QED BY <1>1, <3>1 DEF OD!MayStore
  <2> QED BY <2>1, <2>2 DEF Justified
<1>4. Bases' = Bases
      BY KeptBases, UnchangedKept
<1>5. OD!Store(h, d, b)
      BY <1>3, <1>4 DEF OD!Store, OD!Grow, Append1
<1> QED BY <1>5 DEF OD!Next

(* A version by anybody else always is.                                    *)
LEMMA OthersAllowed ==
    ASSUME NEW d \in Doc, NEW val \in Body \cup {Absent}, Append1(d, val, None), UNCHANGED hd
    PROVE  OD!Next
<1>1. Bases' = Bases
      BY KeptBases, UnchangedKept
<1>2. OD!Grow(d, val, None)
      BY <1>1 DEF OD!Grow, Append1
<1> QED BY <1>2 DEF OD!Next

(* Every step of the write path is a step of OccDoc, or none.              *)
LEMMA StepRefines ==
    ASSUME GuardedOpens, Policy = "safe-create-update", IInv, Coherent, [Next]_vars
    PROVE  [OD!Next]_OD!vars
<1>0. TypeInv /\ Protocol /\ OCCInv
      BY DEF IInv
<1>1. CASE UNCHANGED es /\ \A h \in Handle : HandleKept(h)
      BY <1>1, KeptBases DEF OD!vars
<1>2. ASSUME NEW h \in Handle, NEW d \in Doc, NEW fl \in Flags, OpenHit(h, d, fl)
      PROVE  [OD!Next]_OD!vars
  <2>1. /\ ~Opened(h) /\ cache[d].seq # 0 /\ cache[d].seq \in Nat /\ UNCHANGED es
        /\ OpenWrite(h, d, fl, TRUE, cache[d].src, cache[d].seq)
        BY <1>0, <1>2 DEF OpenHit, Opened, TypeInv, TypeOK, CacheEntry
  <2>2. Holds(es[d], cache[d].seq, es[d][cache[d].seq].val)
        BY <2>1 DEF Coherent, EntryInv
  <2> QED BY <1>0, <2>1, <2>2, OpenWriteBase
<1>3. ASSUME NEW t \in Proc, NEW h \in Handle, NEW d \in Doc, NEW fl \in Flags, OpenMiss(t, h, d, fl)
      PROVE  [OD!Next]_OD!vars
  <2>1. /\ UNCHANGED es /\ hd[h].st = "fresh" /\ hd'[h].st = "opening"
        /\ \A g \in Handle \ {h} : hd'[g] = hd[g]
        BY <1>0, <1>3, OpenMissShape
  <2>2. \A g \in Handle : BaseOf(g)' = BaseOf(g)
        BY <2>1 DEF BaseOf, Opened
  <2> QED BY <2>1, <2>2, BasesApplied DEF OD!vars
<1>4. ASSUME NEW t \in Proc, OpenFinish(t) PROVE [OD!Next]_OD!vars
  <2>1. PICK h \in Handle, d \in Doc, fl \in Flags :
            h = proc[t].h /\ d = proc[t].doc /\ fl = proc[t].flags
        BY <1>0, <1>4 DEF OpenFinish, TypeInv, CallTyped
  <2> DEFINE found == proc[t].out = "found"
  <2>2. /\ ~Opened(h) /\ UNCHANGED es /\ proc[t].seq \in Nat /\ found \in BOOLEAN /\ Getting(t)
        /\ OpenWrite(h, d, fl, found, proc[t].body, proc[t].seq)
        BY <1>0, <1>4, <2>1 DEF OpenFinish, Protocol, Opened, TypeInv, CallTyped, ProcState, Getting
  <2>3. found => Holds(es[d], proc[t].seq, es[d][proc[t].seq].val)
        BY <2>1, <2>2 DEF Coherent, AnswerInv, Holds
  <2> HIDE DEF found
  <2> QED BY <1>0, <2>2, <2>3, OpenWriteBase
<1>5. ASSUME NEW t \in Proc, EsWrite(t) PROVE [OD!Next]_OD!vars
  <2>1. PICK d \in Doc : d = proc[t].doc
        BY <1>0, <1>5 DEF EsWrite, Writing, Pushing, TypeInv, CallTyped
  <2>2. /\ UNCHANGED hd /\ Writing(t) /\ proc[t].pc = "sent"
        /\ \/ UNCHANGED es
           \/ Append1(d, proc[t].body, proc[t].h) /\ Accepts(d, proc[t].guard)
        BY <1>5, <2>1 DEF EsWrite
  <2>3. CASE UNCHANGED es
        BY <1>1, <2>2, <2>3, UnchangedKept
  <2>4. CASE Append1(d, proc[t].body, proc[t].h) /\ Accepts(d, proc[t].guard) /\ Pushing(t)
    <3>1. PICK h \in Handle : h = proc[t].h
          BY <1>0, <2>4 DEF TypeInv, CallTyped, Pushing
    <3>2. Opened(h) /\ d = hd[h].doc /\ Justified(h, hd[h].loaded, es[d], proc[t].guard)
          BY <1>0, <2>1, <2>4, <3>1 DEF Protocol, OCCInv, CallInv, SoundCall
    <3>3. proc[t].body \in Body
          BY <2>2, <2>4 DEF Coherent, SaveInv
    <3> QED BY <1>0, <2>2, <2>4, <3>1, <3>2, <3>3, StoreAllowed
  <2>5. CASE Append1(d, proc[t].body, proc[t].h) /\ ~Pushing(t)
    <3>1. proc[t].h = None /\ proc[t].body \in Body \cup {Absent}
          BY <1>0, <2>2, <2>5 DEF TypeInv, CallTyped, ProcState, Writing
    <3> QED BY <2>2, <2>5, <3>1, OthersAllowed
  <2> QED BY <2>2, <2>3, <2>4, <2>5
<1>6. ASSUME NEW r \in late, EsLateWrite(r) PROVE [OD!Next]_OD!vars
  <2>1. /\ UNCHANGED hd
        /\ UNCHANGED es \/ (Append1(r.doc, r.body, r.h) /\ Accepts(r.doc, r.guard))
        BY <1>6 DEF EsLateWrite
  <2>2. r.doc \in Doc /\ r.body \in Body \cup {Absent} /\ r.h \in Handle \cup {None}
        BY <1>0 DEF TypeInv, TypeOK, Request
  <2>3. CASE UNCHANGED es
        BY <1>1, <2>1, <2>3, UnchangedKept
  <2>4. CASE Append1(r.doc, r.body, r.h) /\ Accepts(r.doc, r.guard) /\ r.h \in Handle
    <3>1. Opened(r.h) /\ Justified(r.h, hd[r.h].loaded, es[r.doc], r.guard)
          BY <1>0, <2>4 DEF OCCInv, HandleInv, Traceless, RequestInv
    <3>2. r.body \in Body /\ r.doc = hd[r.h].doc
          BY <2>4 DEF Coherent, LateInv
    <3> QED BY <1>0, <2>1, <2>2, <2>4, <3>1, <3>2, StoreAllowed
  <2>5. CASE Append1(r.doc, r.body, None) /\ r.h = None
        BY <2>1, <2>2, <2>5, OthersAllowed
  <2> QED BY <2>1, <2>2, <2>3, <2>4, <2>5
<1>7. ASSUME NEW d \in Doc, ExternalDelete(d) \/ \E b \in Body : ExternalWrite(d, b)
      PROVE  [OD!Next]_OD!vars
      BY <1>7, OthersAllowed DEF ExternalDelete, ExternalWrite
<1>8. ASSUME NEW t \in Proc, GiveUp(t) PROVE [OD!Next]_OD!vars
      BY <1>1, <1>8, UnchangedKept DEF GiveUp
<1>9. ASSUME NEW t \in Proc, FlushDone(t) PROVE [OD!Next]_OD!vars
  <2>1. UNCHANGED es /\ \A g \in Handle \ {proc[t].h} : hd'[g] = hd[g]
        BY <1>0, <1>9, FlushDoneShape DEF FlushDone
  <2>2. PICK h \in Handle : h = proc[t].h
        BY <1>0, <1>9, FlushDoneShape
  <2>3. /\ Opened(h) /\ hd'[h].st \notin {"fresh", "opening"}
        /\ hd'[h].doc = hd[h].doc /\ hd'[h].loaded = hd[h].loaded
        BY <1>0, <1>9, <2>2, FlushDoneShape
  <2>4. \A g \in Handle : BaseOf(g)' = BaseOf(g)
        BY <2>1, <2>2, <2>3 DEF BaseOf, Opened
  <2> QED BY <2>1, <2>4, BasesApplied DEF OD!vars
<1>10. ASSUME NEW t \in Proc, NEW kind \in {"flush", "release"}, NEW h \in Handle, FlushStart(t, kind, h)
      PROVE  [OD!Next]_OD!vars
      BY <1>0, <1>1, <1>10, FlushStartShape DEF FlushStart
<1>11. CASE QuietStep
      BY <1>1, <1>11 DEF QuietStep
<1> QED BY <1>0, <1>2, <1>3, <1>4, <1>5, <1>6, <1>7, <1>8, <1>9, <1>10, <1>11, StepKinds

(* Under "safe-create-update", when every opener passes O_CREAT or O_EXCL, *)
(* the write path implements OccDoc: caches, in-flight requests, retries   *)
(* and requests applied late are not visible in the documents' histories.  *)
THEOREM WritePathImplementsOccDoc ==
    ASSUME GuardedOpens, Policy = "safe-create-update"
    PROVE  Spec => ImplementsOccDoc
<1>1. Init => OD!Init
  <2> SUFFICES ASSUME Init PROVE OD!Init
      OBVIOUS
  <2>1. \A h \in Handle : ~Opened(h)
        BY DEF Init, FreshHandle, Opened
  <2>2. Bases = [h \in Handle |-> [doc |-> None, seen |-> 0]]
        BY <2>1 DEF Bases
  <2> QED BY <2>2 DEF Init, OD!Init, OD!Unopened
<1>2. IInv /\ Coherent /\ [Next]_vars => [OD!Next]_OD!vars
      BY StepRefines
<1> QED BY <1>1, <1>2, Invariance, CoherentAlways, PTL DEF Spec, ImplementsOccDoc, OD!Spec

-----------------------------------------------------------------------------
(* Conflicts.  Calls and requests of h, among the versions Vs of its       *)
(* document.                                                               *)
Vs(h) == es[hd[h].doc]
Saving(t, h) == Pushing(t) /\ proc[t].h = h
Ending(t, h) == Saving(t, h) /\ proc[t].pc = "answered"
Stored(t, h) == Saving(t, h) /\ proc[t].out = "ok"

(* The next save of a handle in state s cannot be refused.                 *)
Ready(s, vs) == IF s.createOnly THEN Len(vs) = 0 ELSE s.meta = Len(vs) /\ Len(vs) # 0

(* No request is ahead of the handle's metadata.                           *)
Behind(g, s) == g.kind = "match" => g.seq <= s.meta

(* What is known of a handle whose document nobody else has changed: it is *)
(* ready, or a flush has failed, or one is about to end; a version stored  *)
(* but not yet taken over is the latest; and what was given up on can only *)
(* be applied while its failure is not forgotten.                          *)
UndisturbedInv(h) ==
    /\ hd[h].flushedErr \/ Ready(hd[h], Vs(h)) \/ \E t \in Proc : Ending(t, h)
    /\ \A t \in Proc : Stored(t, h) =>
         /\ proc[t].seq = Len(Vs(h)) /\ hd[h].meta < Len(Vs(h)) /\ hd[h].loaded < Len(Vs(h))
         /\ \A u \in Proc : Stored(u, h) => u = t
    /\ \A t \in Proc : Saving(t, h) => Behind(proc[t].guard, hd[h])
    /\ \A r \in late : r.h = h =>
         /\ Behind(r.guard, hd[h])
         /\ AcceptsIn(Vs(h), r.guard) => hd[h].flushedErr \/ \E t \in Proc : Ending(t, h)

ConflictInv(h) ==
    Opened(h) =>
        /\ hd[h].loaded # 0 => hd[h].loaded \in 1..Len(Vs(h)) /\ Vs(h)[hd[h].loaded].val # Absent
        /\ \A n \in 1..Len(Vs(h)) : Vs(h)[n].by = h => Vs(h)[n].val # Absent
        /\ hd[h].createOnly => hd[h].meta = 0
        /\ Undisturbed(h) => UndisturbedInv(h)

ConflictsInv == \A h \in Handle : ConflictInv(h)

-----------------------------------------------------------------------------
(* A flush that ends without success is remembered, and only a successful  *)
(* flush forgets it.                                                       *)
FailuresKept(h) ==
    /\ hd[h].flushedErr => hd'[h].flushedErr
    /\ \A t \in Proc : Ending(t, h) => Ending(t, h)' \/ hd'[h].flushedErr

Refused(t) == Pushing(t) /\ proc[t].out = "none" /\ proc'[t].out = "refused"

(* Steps that leave calls as they are, or change one that is not ending.   *)
LEMMA CallsKeepEnding ==
    ASSUME NEW h \in Handle, hd[h].flushedErr => hd'[h].flushedErr,
           \A t \in Proc : \/ proc'[t] = proc[t]
                           \/ /\ Pushing(t) => proc[t].pc # "answered"
                              /\ Pushing(t) => proc'[t].out # "refused" \/ proc'[t].out = proc[t].out
                           \/ /\ proc'[t].kind = proc[t].kind /\ proc'[t].h = proc[t].h
                              /\ proc'[t].pc = proc[t].pc /\ proc'[t].out = proc[t].out
    PROVE  FailuresKept(h) /\ \A t \in Proc : ~Refused(t)
BY DEF FailuresKept, Ending, Saving, Pushing, Refused

(* The beginning and the progress of calls.                                *)
LEMMA StartsKeepEnding ==
    ASSUME TypeInv, NEW h \in Handle, Opened(h), NEW t \in Proc,
           StartCall(t) \/ EsGet(t) \/ ReadFinish(t) \/ Send(t)
    PROVE  FailuresKept(h) /\ \A u \in Proc : ~Refused(u)
<1>1. /\ \A u \in Proc \ {t} : proc'[u] = proc[u]
      /\ Pushing(t) => /\ proc[t].pc # "answered"
                       /\ proc'[t].out # "refused" \/ proc'[t].out = proc[t].out
  <2>1. PICK p : /\ Become(t, p)
                 /\ Pushing(t) => /\ proc[t].pc # "answered"
                                  /\ p.out # "refused" \/ p.out = proc[t].out
    <3>1. ASSUME NEW p, Begin(t, p), p.out = "none"
          PROVE  /\ Become(t, p)
                 /\ Pushing(t) => proc[t].pc # "answered" /\ p.out # "refused"
          BY <3>1 DEF Begin
    <3>2. CASE StartCall(t)
      <4>1. ASSUME NEW d \in Doc, ReadStart(t, d) \/ UnlinkStart(t, d)
            PROVE  \E p : Begin(t, p) /\ p.out = "none"
        <5>1. CASE ReadStart(t, d)
          <6> DEFINE p == [Idle EXCEPT !.kind = "read", !.pc = "sent", !.doc = d]
          <6>1. Begin(t, p) /\ p.out = "none"
                BY <5>1 DEF ReadStart, Idle
          <6> QED BY <6>1
        <5>2. CASE UnlinkStart(t, d)
          <6> DEFINE p == [Idle EXCEPT !.kind = "unlink", !.pc = "sent", !.doc = d,
                                       !.guard = [kind |-> "delete", seq |-> 0]]
          <6>1. Begin(t, p) /\ p.out = "none"
                BY <5>2 DEF UnlinkStart, Idle
          <6> QED BY <6>1
        <5> QED BY <4>1, <5>1, <5>2
      <4>2. ASSUME NEW g \in Handle, NEW d \in Doc, NEW fl \in Flags, OpenMiss(t, g, d, fl)
            PROVE  \E p : Begin(t, p) /\ p.out = "none"
        <5> DEFINE p == [Idle EXCEPT !.kind = "open", !.pc = "sent", !.doc = d, !.h = g, !.flags = fl]
        <5>1. Begin(t, p) /\ p.out = "none"
              BY <4>2 DEF OpenMiss, Idle
        <5> QED BY <5>1
      <4>3. ASSUME NEW g \in Handle, NEW kind \in {"flush", "release"}, FlushStart(t, kind, g)
            PROVE  \E p : Begin(t, p) /\ p.out = "none"
        <5> DEFINE p == [Idle EXCEPT !.kind = kind, !.pc = "ready", !.doc = hd[g].doc, !.h = g,
                                     !.src = hd[g].buf, !.live = TRUE, !.guard = PutGuard(g)]
        <5>1. Begin(t, p) /\ p.out = "none"
              BY <4>3 DEF FlushStart, Idle
        <5> QED BY <5>1
      <4> QED BY <3>1, <3>2, <4>1, <4>2, <4>3 DEF StartCall
    <3>3. CASE EsGet(t) \/ ReadFinish(t)
          BY <3>3 DEF EsGet, ReadFinish, Return, Getting, Pushing
    <3>4. CASE Send(t)
      <4> DEFINE p == [proc[t] EXCEPT !.pc = "sent", !.body = proc[t].src]
      <4>1. Become(t, p) /\ proc[t].pc = "ready" /\ proc[t] \in ProcState
            BY <3>4 DEF Send, TypeInv, TypeOK
      <4>2. p.out = proc[t].out
            BY <4>1 DEF ProcState
      <4> QED BY <4>1, <4>2
    <3> QED BY <3>2, <3>3, <3>4
  <2> QED BY <2>1 DEF Become, TypeInv, TypeOK
<1>2. hd[h].flushedErr => hd'[h].flushedErr
  <2>1. UNCHANGED hd \/ \E g \in Handle : \E st : hd' = [hd EXCEPT ![g] = [@ EXCEPT !.st = st]]
        BY DEF StartCall, ReadStart, UnlinkStart, OpenMiss, FlushStart, EsGet, ReadFinish, Send
  <2> QED BY <2>1 DEF TypeInv, TypeOK, HandleState
<1> QED BY <1>1, <1>2, CallsKeepEnding

(* The answers to calls, and what ends them.                               *)
LEMMA EndsKeepEnding ==
    ASSUME TypeInv, Protocol, NEW h \in Handle, Opened(h), NEW t \in Proc,
           \/ OpenFinish(t) \/ EsWrite(t) \/ GiveUp(t) \/ FlushFailed(t)
           \/ UnlinkDone(t) \/ UnlinkFailed(t)
           \/ FlushDone(t) /\ proc[t].h # h
    PROVE  FailuresKept(h) /\ \A u \in Proc : Refused(u) => u = t /\ EsWrite(t)
<1>1. proc \in [Proc -> ProcState] /\ hd \in [Handle -> HandleState] /\ CallTyped(proc[t])
      BY DEF TypeInv, TypeOK
<1>2. CASE OpenFinish(t)
  <2>1. /\ proc[t].kind = "open" /\ \A u \in Proc \ {t} : proc'[u] = proc[u]
        /\ proc[t].h # h /\ hd'[h] = hd[h]
        BY <1>2, OpenFinishShape DEF Opened
  <2> QED BY <2>1, CallsKeepEnding DEF Pushing
<1>3. CASE EsWrite(t)
  <2>1. /\ \A u \in Proc \ {t} : proc'[u] = proc[u]
        /\ UNCHANGED hd /\ proc[t].pc = "sent"
        BY <1>3, EsWriteShape DEF EsWrite
  <2> QED BY <1>3, <2>1 DEF FailuresKept, Ending, Saving, Pushing, Refused
<1>4. CASE GiveUp(t)
  <2> DEFINE p == [proc[t] EXCEPT !.pc = "answered", !.out = "fail"]
  <2>1. /\ proc' = [proc EXCEPT ![t] = p] /\ UNCHANGED hd
        /\ p.kind = proc[t].kind /\ p.h = proc[t].h /\ p.pc = "answered" /\ p.out = "fail"
        BY <1>1, <1>4 DEF GiveUp, Become, ProcState
  <2> HIDE DEF p
  <2>2. proc'[t] = p /\ \A u \in Proc \ {t} : proc'[u] = proc[u]
        BY <1>1, <2>1
  <2> QED BY <2>1, <2>2 DEF FailuresKept, Ending, Saving, Pushing, Refused
<1>5. CASE UnlinkDone(t) \/ UnlinkFailed(t)
  <2>1. /\ proc' = [proc EXCEPT ![t] = Idle] /\ UNCHANGED hd /\ proc[t].kind = "unlink"
        BY <1>5 DEF UnlinkDone, UnlinkFailed, Return, Become
  <2>2. \A u \in Proc \ {t} : proc'[u] = proc[u]
        BY <1>1, <2>1
  <2> QED BY <2>1, <2>2, CallsKeepEnding DEF Pushing
<1>6. CASE FlushFailed(t) \/ (FlushDone(t) /\ proc[t].h # h)
  <2>1. proc' = [proc EXCEPT ![t] = Idle]
        BY <1>6 DEF FlushFailed, FlushDone, Return, Become
  <2>2. Idle.kind = "idle" /\ Idle.out = "none" /\ proc'[t] = Idle /\ \A u \in Proc \ {t} : proc'[u] = proc[u]
        BY <1>1, <2>1 DEF Idle
  <2>3. CASE FlushFailed(t) /\ proc[t].h = h
    <3>1. hd' = [hd EXCEPT ![h] = [Failed(@) EXCEPT !.st = After(proc[t].kind, h)]]
          BY <2>3 DEF FlushFailed
    <3>2. hd'[h].flushedErr
          BY <1>1, <3>1 DEF Failed, HandleState
    <3> QED BY <2>2, <3>2 DEF FailuresKept, Ending, Saving, Pushing, Refused
  <2>4. CASE proc[t].h # h
    <3>1. hd'[h] = hd[h]
          BY <1>1, <1>6, <2>4 DEF FlushFailed, FlushDone
    <3> QED BY <2>2, <2>4, <3>1 DEF FailuresKept, Ending, Saving, Pushing, Refused
  <2> QED BY <1>6, <2>3, <2>4
<1> QED BY <1>2, <1>3, <1>4, <1>5, <1>6

(* Edits, opens from the cache and flushes without a request.              *)
LEMMA UsesKeepEnding ==
    ASSUME TypeInv, NEW h \in Handle, Opened(h), NEW g \in Handle, UseHandle(g)
    PROVE  FailuresKept(h) /\ \A u \in Proc : ~Refused(u)
<1>1. proc \in [Proc -> ProcState] /\ hd \in [Handle -> HandleState]
      BY DEF TypeInv, TypeOK
<1>2. \A t \in Proc : \/ proc'[t] = proc[t]
                     \/ /\ proc'[t].kind = proc[t].kind /\ proc'[t].h = proc[t].h
                        /\ proc'[t].pc = proc[t].pc /\ proc'[t].out = proc[t].out
  <2>1. \/ UNCHANGED proc
        \/ \E x : proc' = [t \in Proc |-> IF SharesBuffer(t, g) THEN [proc[t] EXCEPT !.src = x] ELSE proc[t]]
        \/ proc' = [t \in Proc |-> IF SharesBuffer(t, g) THEN [proc[t] EXCEPT !.live = FALSE] ELSE proc[t]]
        BY DEF UseHandle, OpenHit, WriteAt, Truncate, Stage, Reallocate, InPlace, FlushClean, FlushInvalid
  <2> QED BY <1>1, <2>1 DEF ProcState
<1>3. hd[h].flushedErr => hd'[h].flushedErr
  <2>1. ASSUME NEW d \in Doc, NEW fl \in Flags, OpenHit(g, d, fl) PROVE hd'[h] = hd[h]
        BY <2>1, OpenHitShape DEF Opened
  <2>2. ASSUME NEW c, Stage(g, c) PROVE hd'[h].flushedErr = hd[h].flushedErr
        BY <1>1, <2>2 DEF Stage, HandleState
  <2>3. ASSUME NEW kind, FlushClean(kind, g) PROVE hd'[h].flushedErr = hd[h].flushedErr
        BY <1>1, <2>3 DEF FlushClean, HandleState
  <2>4. ASSUME NEW kind, FlushInvalid(kind, g)
        PROVE  hd'[h].flushedErr \/ hd'[h].flushedErr = hd[h].flushedErr
        BY <1>1, <2>4 DEF FlushInvalid, Failed, HandleState
  <2> QED BY <2>1, <2>2, <2>3, <2>4 DEF UseHandle, WriteAt, Truncate
<1> QED BY <1>2, <1>3, CallsKeepEnding

(* Every step either takes over what a flush of h has stored, or forgets   *)
(* no failure.  Only Elasticsearch refuses a save.                         *)
LEMMA EveryStepKeepsFailures ==
    ASSUME TypeInv, Protocol, [Next]_vars, NEW h \in Handle, Opened(h)
    PROVE  /\ FailuresKept(h) \/ \E t \in Proc : FlushDone(t) /\ proc[t].h = h
           /\ \A t \in Proc : Refused(t) => EsWrite(t)
<1>1. ASSUME NEW t \in Proc, FlushDone(t), proc[t].h = h PROVE \A u \in Proc : ~Refused(u)
  <2>1. proc' = [proc EXCEPT ![t] = Idle]
        BY <1>1 DEF FlushDone, Return, Become
  <2>2. Idle.out = "none" /\ proc'[t] = Idle /\ \A u \in Proc \ {t} : proc'[u] = proc[u]
        BY <2>1 DEF Idle, TypeInv, TypeOK
  <2> QED BY <2>2 DEF Refused
<1>2. ASSUME NEW t \in Proc, Advance(t) \/ StartCall(t)
      PROVE  /\ FailuresKept(h) \/ \E u \in Proc : FlushDone(u) /\ proc[u].h = h
             /\ \A u \in Proc : Refused(u) => EsWrite(u)
      BY <1>1, <1>2, StartsKeepEnding, EndsKeepEnding DEF Advance
<1>3. CASE UNCHANGED <<hd, proc>>
      BY <1>3, CallsKeepEnding
<1> QED BY <1>2, <1>3, UsesKeepEnding
        DEF Next, vars, EsLateWrite, ExternalWrite, ExternalDelete, Expire

(* A step that leaves h's metadata alone and stores nothing through it.    *)
OthersStep(h) ==
    /\ hd'[h].doc = hd[h].doc /\ hd'[h].loaded = hd[h].loaded
    /\ hd'[h].meta = hd[h].meta /\ hd'[h].createOnly = hd[h].createOnly
    /\ FailuresKept(h)
    /\ \A t \in Proc : Saving(t, h)' =>
         \/ /\ Saving(t, h) /\ proc'[t].guard = proc[t].guard
            /\ proc'[t].out = "ok" => proc[t].out = "ok" /\ proc'[t].seq = proc[t].seq
         \/ proc'[t].out # "ok" /\ Behind(proc'[t].guard, hd[h])
    /\ \A r \in late' : r.h = h =>
         r \in late \/ (Behind(r.guard, hd[h]) /\ \E t \in Proc : Ending(t, h)')
    /\ es'[hd[h].doc] = es[hd[h].doc] \/ es'[hd[h].doc][Len(es'[hd[h].doc])].by # h

(* An undisturbed document was undisturbed before, and its new version, if *)
(* there is one, is h's.                                                   *)
LEMMA WasUndisturbed ==
    ASSUME GoodStep, NEW h \in Handle, Opened(h), hd[h].doc \in Doc, ConflictInv(h),
           hd[h].loaded \in Nat, Undisturbed(h)'
    PROVE  /\ hd'[h].doc = hd[h].doc /\ hd'[h].loaded = hd[h].loaded
           /\ Undisturbed(h) /\ UndisturbedInv(h)
           /\ \/ es'[hd[h].doc] = es[hd[h].doc]
              \/ /\ Len(es'[hd[h].doc]) = Len(es[hd[h].doc]) + 1
                 /\ es'[hd[h].doc][Len(es'[hd[h].doc])].by = h
<1>1. hd'[h].doc = hd[h].doc /\ hd'[h].loaded = hd[h].loaded
      BY OpenHandlesKeepTheirBase
<1>2. Extends(Vs(h), es'[hd[h].doc]) /\ NewVersion(hd[h].doc)
      BY DEF GoodStep, Grows, Vs
<1>3. Undisturbed(h)
      BY <1>1, <1>2 DEF Undisturbed, Extends, Vs
<1>4. hd[h].loaded <= Len(Vs(h))
      BY <1>2 DEF ConflictInv, Extends
<1>5. Len(es'[hd[h].doc]) = Len(Vs(h)) + 1 => es'[hd[h].doc][Len(es'[hd[h].doc])].by = h
  <2>1. ASSUME Len(es'[hd[h].doc]) = Len(Vs(h)) + 1
        PROVE  Len(es'[hd[h].doc]) \in hd'[h].loaded + 1..Len(es'[hd'[h].doc])
        BY <1>1, <1>2, <1>4, <2>1 DEF Extends
  <2> QED BY <1>1, <2>1 DEF Undisturbed
<1> QED BY <1>1, <1>2, <1>3, <1>5 DEF ConflictInv, NewVersion, Vs

(* So an undisturbed handle stays as it was.                               *)
LEMMA OthersKeepUndisturbed ==
    ASSUME NEW h \in Handle, UndisturbedInv(h), OthersStep(h), es'[hd[h].doc] = es[hd[h].doc]
    PROVE  UndisturbedInv(h)'
<1>1. Vs(h)' = Vs(h) /\ Ready(hd'[h], Vs(h)') = Ready(hd[h], Vs(h))
      BY DEF OthersStep, Vs, Ready
<1>2. \A g : Behind(g, hd'[h]) = Behind(g, hd[h])
      BY DEF OthersStep, Behind
<1>3. \A t \in Proc : Stored(t, h)' => Stored(t, h) /\ proc'[t].seq = proc[t].seq
      BY DEF OthersStep, Stored
<1>4. (\E t \in Proc : Ending(t, h)) => hd'[h].flushedErr \/ \E t \in Proc : Ending(t, h)'
      BY DEF OthersStep, FailuresKept
<1>5. hd[h].flushedErr => hd'[h].flushedErr
      BY DEF OthersStep, FailuresKept
<1>6. hd'[h].flushedErr \/ Ready(hd'[h], Vs(h)') \/ \E t \in Proc : Ending(t, h)'
      BY <1>1, <1>4, <1>5 DEF UndisturbedInv
<1>7. ASSUME NEW t \in Proc, Stored(t, h)'
      PROVE  /\ proc'[t].seq = Len(Vs(h)') /\ hd'[h].meta < Len(Vs(h)') /\ hd'[h].loaded < Len(Vs(h)')
             /\ \A u \in Proc : Stored(u, h)' => u = t
      BY <1>1, <1>3, <1>7 DEF UndisturbedInv, OthersStep
<1>8. \A t \in Proc : Saving(t, h)' => Behind(proc'[t].guard, hd'[h])
      BY <1>2 DEF UndisturbedInv, OthersStep
<1>9. ASSUME NEW r \in late', r.h = h
      PROVE  /\ Behind(r.guard, hd'[h])
             /\ AcceptsIn(Vs(h)', r.guard) => hd'[h].flushedErr \/ \E t \in Proc : Ending(t, h)'
  <2>1. CASE r \in late
        BY <1>1, <1>2, <1>4, <1>5, <1>9, <2>1 DEF UndisturbedInv
  <2>2. CASE Behind(r.guard, hd[h]) /\ \E t \in Proc : Ending(t, h)'
        BY <1>2, <2>2
  <2> QED BY <1>9, <2>1, <2>2 DEF OthersStep
<1> QED BY <1>6, <1>7, <1>8, <1>9 DEF UndisturbedInv

(* The versions a handle has loaded and stored stay what they are.         *)
LEMMA ValuesStay ==
    ASSUME TypeInv, GoodStep, NEW h \in Handle, Opened(h), ConflictInv(h),
           \/ es'[hd[h].doc] = es[hd[h].doc]
           \/ (es'[hd[h].doc][Len(es'[hd[h].doc])].by = h =>
                 es'[hd[h].doc][Len(es'[hd[h].doc])].val # Absent)
    PROVE  /\ hd'[h].loaded # 0 =>
                hd'[h].loaded \in 1..Len(Vs(h)') /\ Vs(h)'[hd'[h].loaded].val # Absent
           /\ \A n \in 1..Len(Vs(h)') : Vs(h)'[n].by = h => Vs(h)'[n].val # Absent
<1>1. hd[h].doc \in Doc /\ hd'[h].doc = hd[h].doc /\ hd'[h].loaded = hd[h].loaded
      BY OpenHandlesKeepTheirBase DEF TypeInv, HandleTyped, Opened
<1> DEFINE ws == es'[hd[h].doc]
<1>2. Vs(h)' = ws /\ Extends(Vs(h), ws) /\ (ws = Vs(h) \/ Len(ws) = Len(Vs(h)) + 1)
      BY <1>1 DEF GoodStep, Grows, NewVersion, Vs
<1>3. \A n \in 1..Len(Vs(h)) : ws[n] = Vs(h)[n] /\ n \in 1..Len(ws)
      BY <1>2 DEF Extends
<1>4. \A n \in 1..Len(Vs(h)) : Vs(h)[n].by = h => Vs(h)[n].val # Absent
      BY DEF ConflictInv
<1>5. ws = Vs(h) \/ (ws[Len(ws)].by = h => ws[Len(ws)].val # Absent)
      BY DEF Vs
<1> HIDE DEF ws
<1>6. \A n \in 1..Len(ws) : n \in 1..Len(Vs(h)) \/ (n = Len(ws) /\ ws # Vs(h))
      BY <1>2 DEF Extends
<1>7. \A n \in 1..Len(ws) : ws[n].by = h => ws[n].val # Absent
      BY <1>3, <1>4, <1>5, <1>6
<1>8. hd[h].loaded # 0 => hd[h].loaded \in 1..Len(Vs(h)) /\ Vs(h)[hd[h].loaded].val # Absent
      BY DEF ConflictInv
<1> QED BY <1>1, <1>2, <1>3, <1>7, <1>8

(* What others do keeps ConflictInv.                                       *)
LEMMA OthersKeepConflictInv ==
    ASSUME TypeInv, GoodStep, NEW h \in Handle, Opened(h), ConflictInv(h), OthersStep(h)
    PROVE  ConflictInv(h)'
<1>1. hd[h].doc \in Doc /\ hd[h].loaded \in Nat
      BY DEF TypeInv, TypeOK, HandleTyped, HandleState, Opened
<1>2. /\ hd'[h].loaded # 0 =>
           hd'[h].loaded \in 1..Len(Vs(h)') /\ Vs(h)'[hd'[h].loaded].val # Absent
      /\ \A n \in 1..Len(Vs(h)') : Vs(h)'[n].by = h => Vs(h)'[n].val # Absent
      BY ValuesStay DEF OthersStep
<1>3. hd'[h].createOnly => hd'[h].meta = 0
      BY DEF ConflictInv, OthersStep
<1>4. ASSUME Undisturbed(h)' PROVE UndisturbedInv(h)'
  <2>1. UndisturbedInv(h) /\ es'[hd[h].doc] = es[hd[h].doc]
    <3>1. \/ es'[hd[h].doc] = es[hd[h].doc]
          \/ es'[hd[h].doc][Len(es'[hd[h].doc])].by = h
          BY <1>1, <1>4, WasUndisturbed
    <3> QED BY <1>1, <1>4, <3>1, WasUndisturbed DEF OthersStep
  <2> QED BY <2>1, OthersKeepUndisturbed
<1> QED BY <1>2, <1>3, <1>4 DEF ConflictInv

(* No request that is behind the metadata is accepted on top of a version  *)
(* that has been stored through the handle but not yet taken over.         *)
LEMMA StoredBlocks ==
    ASSUME GuardedOpens, Policy = "safe-create-update", TypeInv, NEW h \in Handle, Opened(h),
           ConflictInv(h), Undisturbed(h), NEW t \in Proc, Stored(t, h),
           NEW g, Justified(h, hd[h].loaded, Vs(h), g), Behind(g, hd[h])
    PROVE  ~AcceptsIn(Vs(h), g)
<1>1. /\ hd[h].loaded \in Nat /\ hd[h].meta \in Nat /\ Len(Vs(h)) \in Nat
      BY DEF TypeInv, TypeOK, HandleTyped, HandleState, Opened, Vs
<1>2. hd[h].meta < Len(Vs(h)) /\ hd[h].loaded < Len(Vs(h))
      BY DEF ConflictInv, UndisturbedInv
<1>3. Vs(h)[Len(Vs(h))].by = h
      BY <1>1, <1>2 DEF Undisturbed, Vs
<1>4. Len(Vs(h)) # 0 /\ Vs(h)[Len(Vs(h))].val # Absent
      BY <1>1, <1>2, <1>3 DEF ConflictInv
<1> QED BY <1>1, <1>2, <1>4 DEF AcceptsIn, Justified, Behind

(* What a handle is known to be in a state that IInv describes.            *)
LEMMA OpenFacts ==
    ASSUME IInv, NEW h \in Handle, Opened(h)
    PROVE  /\ hd[h].doc \in Doc /\ hd[h].loaded \in Nat /\ hd[h].meta \in Nat
           /\ Len(Vs(h)) \in Nat /\ SoundHandle(h, hd[h], Vs(h))
           /\ \A t \in Proc : Saving(t, h) =>
                /\ proc[t].doc = hd[h].doc
                /\ Justified(h, hd[h].loaded, Vs(h), proc[t].guard)
<1>1. hd[h].doc \in Doc /\ hd[h].loaded \in Nat /\ hd[h].meta \in Nat
      BY DEF IInv, TypeInv, TypeOK, HandleTyped, HandleState, Opened
<1>2. Len(Vs(h)) \in Nat
      BY <1>1 DEF IInv, TypeInv, TypeOK, Vs
<1>3. SoundHandle(h, hd[h], Vs(h))
      BY DEF IInv, OCCInv, HandleInv, Vs
<1>4. ASSUME NEW t \in Proc, Saving(t, h)
      PROVE  /\ proc[t].doc = hd[h].doc
             /\ Justified(h, hd[h].loaded, Vs(h), proc[t].guard)
      BY <1>4 DEF IInv, OCCInv, CallInv, SoundCall, Saving, Vs
<1> QED BY <1>1, <1>2, <1>3, <1>4

(* A save of h that Elasticsearch accepts.                                 *)
LEMMA SaveKeepsConflictInv ==
    ASSUME GuardedOpens, Policy = "safe-create-update", IInv, Coherent, GoodStep,
           NEW h \in Handle, Opened(h), ConflictInv(h),
           NEW t \in Proc, Saving(t, h), EsWrite(t), proc'[t].out = "ok"
    PROVE  ConflictInv(h)'
<1> DEFINE d == hd[h].doc
<1>1. /\ d \in Doc /\ hd[h].loaded \in Nat /\ hd[h].meta \in Nat /\ Len(Vs(h)) \in Nat
      /\ SoundHandle(h, hd[h], Vs(h)) /\ proc[t].doc = d /\ proc[t].h = h
      /\ Justified(h, hd[h].loaded, Vs(h), proc[t].guard)
      BY OpenFacts DEF Saving
<1>2. /\ \A u \in Proc \ {t} : proc'[u] = proc[u]
      /\ proc'[t].kind = proc[t].kind /\ proc'[t].h = h /\ proc'[t].guard = proc[t].guard
      /\ Append1(d, proc[t].body, h) /\ Accepts(d, proc[t].guard)
      /\ proc'[t].seq = Len(Vs(h)) + 1 /\ UNCHANGED <<late, hd>>
      BY <1>1, EsWriteShape DEF IInv, Vs
<1>3. proc'[t].pc = "answered"
  <2>1. proc[t] \in ProcState /\ proc \in [Proc -> ProcState]
        BY DEF IInv, TypeInv, TypeOK
  <2> QED BY <2>1 DEF EsWrite, Become, ProcState
<1>4. proc[t].body \in Body
      BY DEF EsWrite, Saving, Coherent, SaveInv
<1>5. /\ Len(es'[d]) = Len(Vs(h)) + 1 /\ es'[d][Len(Vs(h)) + 1] = [val |-> proc[t].body, by |-> h]
      /\ Vs(h)' = es'[d]
      BY <1>1, <1>2, <1>4, Append1Typed DEF IInv, Vs
<1>6. /\ hd'[h].loaded # 0 =>
           hd'[h].loaded \in 1..Len(Vs(h)') /\ Vs(h)'[hd'[h].loaded].val # Absent
      /\ \A n \in 1..Len(Vs(h)') : Vs(h)'[n].by = h => Vs(h)'[n].val # Absent
      /\ hd'[h].createOnly => hd'[h].meta = 0
  <2>1. es'[d][Len(es'[d])].val # Absent
        BY <1>4, <1>5, SentinelAssumption
  <2>2. hd'[h].createOnly => hd'[h].meta = 0
        BY <1>2 DEF ConflictInv
  <2> QED BY <2>1, <2>2, ValuesStay DEF IInv
<1>7. ASSUME Undisturbed(h)' PROVE UndisturbedInv(h)'
  <2>1. Undisturbed(h) /\ UndisturbedInv(h)
        BY <1>1, <1>7, WasUndisturbed
  <2>2. Ending(t, h)' /\ Stored(t, h)'
        BY <1>2, <1>3 DEF Ending, Stored, Saving, Pushing
  <2>3. \A u \in Proc : ~Stored(u, h)
    <3>1. AcceptsIn(Vs(h), proc[t].guard) /\ Behind(proc[t].guard, hd[h])
          BY <1>1, <1>2, <2>1, AcceptsJustified DEF IInv, UndisturbedInv, Vs
    <3> QED BY <1>1, <2>1, <3>1, StoredBlocks DEF IInv
  <2>4. \A u \in Proc : Stored(u, h)' => u = t
        BY <1>2, <2>3 DEF Stored, Saving, Pushing
  <2>5. hd[h].loaded < Len(Vs(h)') /\ hd[h].meta < Len(Vs(h)')
    <3>1. hd[h].loaded <= Len(Vs(h))
          BY <1>1 DEF ConflictInv
    <3>2. hd[h].meta <= Len(Vs(h))
          BY <1>1, <3>1 DEF SoundHandle, Base
    <3> QED BY <1>1, <1>5, <3>1, <3>2
  <2>6. \A u \in Proc : Saving(u, h)' => Behind(proc'[u].guard, hd'[h])
        BY <1>2, <2>1 DEF UndisturbedInv, Saving, Pushing
  <2>7. \A r \in late' : r.h = h => Behind(r.guard, hd'[h])
        BY <1>2, <2>1 DEF UndisturbedInv
  <2>8. \A u \in Proc : Stored(u, h)' => proc'[u].seq = Len(Vs(h)')
        BY <1>2, <1>5, <2>4
  <2> QED BY <1>2, <2>2, <2>4, <2>5, <2>6, <2>7, <2>8 DEF UndisturbedInv
<1> QED BY <1>6, <1>7 DEF ConflictInv

(* A request of h that was given up on and is applied after all.           *)
LEMMA LateSaveKeepsConflictInv ==
    ASSUME GuardedOpens, Policy = "safe-create-update", IInv, Coherent, GoodStep,
           NEW h \in Handle, Opened(h), ConflictInv(h),
           NEW r \in late, r.h = h, EsLateWrite(r), Accepts(r.doc, r.guard)
    PROVE  ConflictInv(h)'
<1> DEFINE d == hd[h].doc
<1>1. /\ d \in Doc /\ hd[h].loaded \in Nat /\ hd[h].meta \in Nat /\ Len(Vs(h)) \in Nat
      BY OpenFacts
<1>2. r.doc = d /\ r.body \in Body /\ Justified(h, hd[h].loaded, Vs(h), r.guard)
      BY DEF Coherent, LateInv, IInv, OCCInv, RequestInv, Vs
<1>3. Append1(d, r.body, h) /\ UNCHANGED <<hd, proc>> /\ late' \subseteq late
      BY <1>2 DEF EsLateWrite
<1>4. /\ Len(es'[d]) = Len(Vs(h)) + 1 /\ es'[d][Len(Vs(h)) + 1] = [val |-> r.body, by |-> h]
      /\ Vs(h)' = es'[d]
      BY <1>1, <1>2, <1>3, Append1Typed DEF IInv, Vs
<1>5. /\ hd'[h].loaded # 0 =>
           hd'[h].loaded \in 1..Len(Vs(h)') /\ Vs(h)'[hd'[h].loaded].val # Absent
      /\ \A n \in 1..Len(Vs(h)') : Vs(h)'[n].by = h => Vs(h)'[n].val # Absent
      /\ hd'[h].createOnly => hd'[h].meta = 0
  <2>1. es'[d][Len(es'[d])].val # Absent
        BY <1>2, <1>4, SentinelAssumption
  <2>2. hd'[h].createOnly => hd'[h].meta = 0
        BY <1>3 DEF ConflictInv
  <2> QED BY <2>1, <2>2, ValuesStay DEF IInv
<1>6. ASSUME Undisturbed(h)' PROVE UndisturbedInv(h)'
  <2>1. Undisturbed(h) /\ UndisturbedInv(h)
        BY <1>1, <1>6, WasUndisturbed
  <2>2. AcceptsIn(Vs(h), r.guard) /\ Behind(r.guard, hd[h])
        BY <1>1, <1>2, <2>1, AcceptsJustified DEF IInv, UndisturbedInv, Vs
  <2>3. \A u \in Proc : ~Stored(u, h)
        BY <1>2, <2>1, <2>2, StoredBlocks DEF IInv
  <2>4. hd[h].flushedErr \/ \E t \in Proc : Ending(t, h)
        BY <2>1, <2>2 DEF UndisturbedInv
  <2>5. /\ \A t \in Proc : (Saving(t, h)' <=> Saving(t, h)) /\ (Ending(t, h)' <=> Ending(t, h))
                             /\ (Stored(t, h)' <=> Stored(t, h))
        BY <1>3 DEF Saving, Ending, Stored, Pushing
  <2>6. hd'[h].flushedErr \/ \E t \in Proc : Ending(t, h)'
        BY <1>3, <2>4, <2>5
  <2>7. /\ \A t \in Proc : Saving(t, h)' => Behind(proc'[t].guard, hd'[h])
        /\ \A q \in late' : q.h = h => Behind(q.guard, hd'[h])
        BY <1>3, <2>1, <2>5 DEF UndisturbedInv
  <2> QED BY <2>3, <2>5, <2>6, <2>7 DEF UndisturbedInv
<1> QED BY <1>5, <1>6 DEF ConflictInv

(* A flush of h takes over the version it has stored.                      *)
LEMMA DoneKeepsConflictInv ==
    ASSUME GuardedOpens, Policy = "safe-create-update", IInv, Coherent, GoodStep,
           NEW h \in Handle, Opened(h), ConflictInv(h),
           NEW t \in Proc, proc[t].h = h, FlushDone(t)
    PROVE  ConflictInv(h)'
<1>1. /\ hd[h].doc \in Doc /\ hd[h].loaded \in Nat /\ hd[h].meta \in Nat /\ Len(Vs(h)) \in Nat
      BY OpenFacts
<1>2. /\ UNCHANGED <<es, late>> /\ Pushing(t) /\ proc[t].out = "ok"
      /\ hd'[h].doc = hd[h].doc /\ hd'[h].createOnly = FALSE
      /\ hd'[h].meta = proc[t].seq /\ hd'[h].loaded = hd[h].loaded
      BY FlushDoneShape DEF IInv, FlushDone
<1>3. \A u \in Proc : Saving(u, h)' => u # t /\ proc'[u] = proc[u]
  <2>1. proc' = [proc EXCEPT ![t] = Idle] /\ proc \in [Proc -> ProcState]
        BY DEF FlushDone, Return, Become, IInv, TypeInv, TypeOK
  <2>2. Idle.kind = "idle"
        BY DEF Idle
  <2> QED BY <2>1, <2>2 DEF Saving, Pushing
<1>4. Stored(t, h) /\ Vs(h)' = Vs(h)
      BY <1>2 DEF Stored, Saving, Vs
<1>5. ASSUME Undisturbed(h)' PROVE UndisturbedInv(h)'
  <2>1. Undisturbed(h) /\ UndisturbedInv(h)
        BY <1>1, <1>5, WasUndisturbed
  <2>2. /\ proc[t].seq = Len(Vs(h)) /\ hd[h].meta < Len(Vs(h)) /\ hd[h].loaded < Len(Vs(h))
        /\ \A u \in Proc : Stored(u, h) => u = t
        BY <1>4, <2>1 DEF UndisturbedInv
  <2>3. Ready(hd'[h], Vs(h)')
        BY <1>1, <1>2, <1>4, <2>2 DEF Ready
  <2>4. \A u \in Proc : ~Stored(u, h)'
        BY <1>3, <2>2 DEF Stored, Saving, Pushing
  <2>5. ASSUME NEW g \in Guard, Behind(g, hd[h]) PROVE Behind(g, hd'[h])
        BY <1>1, <1>2, <2>2, <2>5 DEF Behind, Guard
  <2>6. \A u \in Proc : Saving(u, h)' => Behind(proc'[u].guard, hd'[h])
    <3>1. \A u \in Proc : proc[u].guard \in Guard
          BY DEF IInv, TypeInv, TypeOK, ProcState
    <3> QED BY <1>3, <2>1, <2>5, <3>1 DEF UndisturbedInv, Saving, Pushing
  <2>7. ASSUME NEW r \in late', r.h = h
        PROVE  Behind(r.guard, hd'[h]) /\ ~AcceptsIn(Vs(h)', r.guard)
    <3>1. r.guard \in Guard /\ Behind(r.guard, hd[h])
          BY <1>2, <2>1, <2>7 DEF UndisturbedInv, IInv, TypeInv, TypeOK, Request
    <3>2. Justified(h, hd[h].loaded, Vs(h), r.guard)
      <4>1. r.doc = hd[h].doc
            BY <1>2, <2>7 DEF Coherent, LateInv
      <4> QED BY <1>2, <2>7, <4>1 DEF IInv, OCCInv, RequestInv, Vs
    <3>3. ~AcceptsIn(Vs(h), r.guard)
          BY <1>4, <2>1, <3>1, <3>2, StoredBlocks DEF IInv
    <3> QED BY <1>4, <2>5, <3>1, <3>3
  <2> QED BY <2>3, <2>4, <2>6, <2>7 DEF UndisturbedInv
<1>6. /\ hd'[h].loaded # 0 =>
           hd'[h].loaded \in 1..Len(Vs(h)') /\ Vs(h)'[hd'[h].loaded].val # Absent
      /\ \A n \in 1..Len(Vs(h)') : Vs(h)'[n].by = h => Vs(h)'[n].val # Absent
      BY <1>2, <1>4 DEF ConflictInv
<1> QED BY <1>2, <1>5, <1>6 DEF ConflictInv

(* OpenWrite opens h on the version found, or insists on absence.          *)
LEMMA OpenedReady ==
    ASSUME GuardedOpens, Policy = "safe-create-update", TypeInv, UNCHANGED <<es, late>>,
           NEW h \in Handle, Traceless(h), NEW d \in Doc, NEW fl \in Flags,
           NEW found \in BOOLEAN, NEW src, NEW seq \in Nat,
           found => Holds(es[d], seq, es[d][seq].val),
           OpenWrite(h, d, fl, found, src, seq), Opened(h)',
           \A t \in Proc : ~Saving(t, h)'
    PROVE  ConflictInv(h)'
<1> DEFINE s == Staged(d, fl, found, src, seq)
           vs == es[d]
<1>1. hd' = [hd EXCEPT ![h] = IF fl.excl /\ found THEN FreshHandle ELSE s]
      BY DEF OpenWrite
<1>2. HandleTyped(s) /\ HandleTyped(FreshHandle) /\ FreshHandle.st = "fresh"
      BY FreshTyped, StagedTyped, FlagsAssumption DEF FreshHandle
<1>3. /\ s.doc = d /\ s.meta = (IF found THEN seq ELSE 0) /\ s.loaded = (IF found THEN seq ELSE 0)
      /\ s.createOnly = (fl.excl \/ (~found /\ fl.create /\ Policy = "safe-create-update"))
      BY DEF Staged, FreshHandle
<1> HIDE DEF s
<1>4. hd'[h] = s /\ ~(fl.excl /\ found)
  <2>1. CASE fl.excl /\ found
    <3>1. hd' = [hd EXCEPT ![h] = FreshHandle]
          BY <1>1, <2>1
    <3>2. hd'[h].st = "fresh"
          BY <1>2, <3>1, HandleBecomesTyped
    <3> QED BY <3>2 DEF Opened
  <2>2. CASE ~(fl.excl /\ found)
    <3>1. hd' = [hd EXCEPT ![h] = s]
          BY <1>1, <2>2
    <3> QED BY <1>2, <2>2, <3>1, HandleBecomesTyped
  <2> QED BY <2>1, <2>2
<1>5. Vs(h)' = vs /\ Len(vs) \in Nat /\ \A n \in 1..Len(vs) : vs[n].by # h
  <2>1. Vs(h)' = vs
        BY <1>3, <1>4 DEF Vs
  <2>2. es[d] \in Seq(Version)
        BY DEF TypeInv, TypeOK
  <2>3. Len(vs) \in Nat
        BY <2>2
  <2> QED BY <2>1, <2>3 DEF Traceless
<1>6. found => seq \in 1..Len(vs) /\ vs[seq].val # Absent
      BY SentinelAssumption DEF Holds
<1>7. found => ~s.createOnly
  <2>1. ASSUME found PROVE ~s.createOnly
    <3>1. fl.excl \in BOOLEAN
          BY FlagsAssumption DEF OpenFlags
    <3>2. ~fl.excl
          BY <1>4, <2>1
    <3> QED BY <1>3, <2>1, <3>2, Zenon
  <2> QED BY <2>1
<1>8. ~found => s.createOnly
      BY <1>3 DEF GuardedOpens
<1> HIDE DEF vs
<1>9. Undisturbed(h)' => Ready(s, vs)
  <2>1. ASSUME Undisturbed(h)' PROVE Len(vs) <= s.loaded
    <3>1. s.loaded \in Nat
          BY <1>3
    <3>2. \A n \in s.loaded + 1..Len(vs) : vs[n].by = h
          BY <1>4, <1>5, <2>1 DEF Undisturbed, Vs
    <3> QED BY <1>5, <3>1, <3>2
  <2> QED BY <1>3, <1>5, <1>6, <1>7, <1>8, <2>1 DEF Ready
<1>10. Undisturbed(h)' => UndisturbedInv(h)'
      BY <1>4, <1>5, <1>9 DEF UndisturbedInv, Stored, Traceless
<1> QED BY <1>3, <1>4, <1>5, <1>6, <1>7, <1>10 DEF ConflictInv

(* A handle that has just been opened.                                     *)
LEMMA OpensMakeConflictInv ==
    ASSUME GuardedOpens, Policy = "safe-create-update", IInv, Coherent, [Next]_vars,
           NEW h \in Handle, ~Opened(h)
    PROVE  ConflictInv(h)'
<1>0. TypeInv /\ Protocol /\ Traceless(h)
      BY DEF IInv, OCCInv, HandleInv
<1>1. \A t \in Proc : ~Saving(t, h)
      BY <1>0 DEF Saving, Protocol
<1>2. CASE ~Opened(h)'
      BY <1>2 DEF ConflictInv, Opened
<1>3. ASSUME NEW d \in Doc, NEW fl \in Flags, OpenHit(h, d, fl), Opened(h)' PROVE ConflictInv(h)'
  <2>1. /\ cache[d].seq # 0 /\ cache[d].seq \in Nat /\ UNCHANGED <<es, late, proc>>
        /\ OpenWrite(h, d, fl, TRUE, cache[d].src, cache[d].seq)
        BY <1>0, <1>3 DEF OpenHit, TypeInv, TypeOK, CacheEntry
  <2>2. Holds(es[d], cache[d].seq, es[d][cache[d].seq].val)
        BY <2>1 DEF Coherent, EntryInv
  <2>3. \A t \in Proc : ~Saving(t, h)'
        BY <1>1, <2>1 DEF Saving, Pushing
  <2> QED BY <1>0, <1>3, <2>1, <2>2, <2>3, OpenedReady
<1>4. ASSUME NEW t \in Proc, OpenFinish(t), proc[t].h = h, Opened(h)' PROVE ConflictInv(h)'
  <2> DEFINE found == proc[t].out = "found"
             d == proc[t].doc
  <2>1. /\ d \in Doc /\ proc[t].flags \in Flags /\ proc[t].seq \in Nat /\ found \in BOOLEAN
        /\ UNCHANGED <<es, late>> /\ Getting(t)
        /\ OpenWrite(h, d, proc[t].flags, found, proc[t].body, proc[t].seq)
        BY <1>0, <1>4 DEF OpenFinish, TypeInv, CallTyped, ProcState, Getting
  <2>2. found => Holds(es[d], proc[t].seq, es[d][proc[t].seq].val)
        BY <2>1 DEF Coherent, AnswerInv, Holds
  <2>3. \A u \in Proc : ~Saving(u, h)'
    <3>1. proc'[t] = Idle /\ \A u \in Proc \ {t} : proc'[u] = proc[u]
          BY <1>0, <1>4, OpenFinishShape
    <3>2. Idle.kind = "idle"
          BY DEF Idle
    <3> QED BY <1>1, <3>1, <3>2 DEF Saving, Pushing
  <2> HIDE DEF found, d
  <2> QED BY <1>0, <1>4, <2>1, <2>2, <2>3, OpenedReady
<1>5. \/ ~Opened(h)'
      \/ \E d \in Doc, fl \in Flags : OpenHit(h, d, fl)
      \/ \E t \in Proc : OpenFinish(t) /\ proc[t].h = h
  <2>1. ASSUME NEW g \in Handle, NEW d \in Doc, NEW fl \in Flags, OpenHit(g, d, fl), g # h
        PROVE  hd'[h] = hd[h]
        BY <1>0, <2>1, OpenHitShape
  <2>2. ASSUME NEW t \in Proc, NEW g \in Handle, NEW d \in Doc, NEW fl \in Flags, OpenMiss(t, g, d, fl)
        PROVE  hd'[h] = hd[h] \/ hd'[h].st = "opening"
        BY <1>0, <2>2, OpenMissShape
  <2>3. ASSUME NEW t \in Proc, OpenFinish(t), proc[t].h # h PROVE hd'[h] = hd[h]
        BY <1>0, <2>3, OpenFinishShape
  <2>4. ASSUME NEW t \in Proc, FlushDone(t) PROVE hd'[h] = hd[h]
        BY <1>0, <2>4, FlushDoneShape
  <2>5. ASSUME NEW t \in Proc, NEW kind \in {"flush", "release"}, NEW g \in Handle, FlushStart(t, kind, g)
        PROVE  HandleKept(h)
        BY <1>0, <2>5, FlushStartShape
  <2>6. \/ \E d \in Doc, fl \in Flags : OpenHit(h, d, fl)
        \/ \E t \in Proc : OpenFinish(t) /\ proc[t].h = h
        \/ hd'[h] = hd[h] \/ hd'[h].st = "opening" \/ HandleKept(h)
        BY <1>0, <2>1, <2>2, <2>3, <2>4, <2>5, StepKinds
           DEF QuietStep, EsWrite, GiveUp, EsLateWrite, ExternalWrite, ExternalDelete
  <2> QED BY <2>6 DEF HandleKept, Opened
<1> QED BY <1>2, <1>3, <1>4, <1>5

(* Somebody else's version is not h's.                                     *)
LEMMA AppendedByAnother ==
    ASSUME TypeInv, NEW h, NEW c \in Doc, NEW d \in Doc, NEW val \in Body \cup {Absent},
           NEW by \in Handle \cup {None}, by # h, Append1(d, val, by)
    PROVE  es'[c] = es[c] \/ es'[c][Len(es'[c])].by # h
<1>1. /\ \A x \in Doc \ {d} : es'[x] = es[x]
      /\ Len(es'[d]) = Len(es[d]) + 1 /\ es'[d][Len(es[d]) + 1] = [val |-> val, by |-> by]
      BY Append1Typed
<1>2. es'[d][Len(es'[d])].by = by
      BY <1>1
<1> QED BY <1>1, <1>2

(* Every other step leaves h as it was.                                    *)
LEMMA EveryStepKeepsConflictInv ==
    ASSUME GuardedOpens, Policy = "safe-create-update", IInv, Coherent, [Next]_vars,
           NEW h \in Handle, Opened(h), ConflictInv(h)
    PROVE  ConflictInv(h)'
<1>0. TypeInv /\ Protocol /\ GoodStep /\ hd[h].doc \in Doc
      BY EveryStepGood, OpenFacts DEF IInv
<1>1. FailuresKept(h) \/ \E t \in Proc : FlushDone(t) /\ proc[t].h = h
      BY <1>0, EveryStepKeepsFailures
<1>2. ASSUME NEW t \in Proc, FlushDone(t), proc[t].h = h PROVE ConflictInv(h)'
      BY <1>0, <1>2, DoneKeepsConflictInv
<1> SUFFICES ASSUME FailuresKept(h), \A t \in Proc : ~(FlushDone(t) /\ proc[t].h = h)
             PROVE  ConflictInv(h)'
    BY <1>1, <1>2
<1>3. ASSUME OthersStep(h) PROVE ConflictInv(h)'
      BY <1>0, <1>3, OthersKeepConflictInv
<1>4. ASSUME HandleKept(h), \A t \in Proc : CallKept(t), UNCHANGED es, late' \subseteq late
      PROVE  OthersStep(h)
      BY <1>4 DEF HandleKept, CallKept, OthersStep, Saving, Pushing
<1>5. ASSUME NEW g \in Handle, NEW d \in Doc, NEW fl \in Flags, OpenHit(g, d, fl) PROVE OthersStep(h)
      BY <1>0, <1>5, OpenHitShape DEF OthersStep, Saving, Pushing, Opened
<1>6. ASSUME NEW t \in Proc, NEW g \in Handle, NEW d \in Doc, NEW fl \in Flags, OpenMiss(t, g, d, fl)
      PROVE  OthersStep(h)
      BY <1>0, <1>6, OpenMissShape DEF OthersStep, Saving, Pushing, Opened
<1>7. ASSUME NEW t \in Proc, OpenFinish(t) PROVE OthersStep(h)
  <2>1. /\ hd'[h] = hd[h] /\ UNCHANGED <<es, late>> /\ \A u \in Proc : CallKept(u)
        BY <1>0, <1>7, OpenFinishShape DEF Opened
  <2> QED BY <1>4, <2>1 DEF HandleKept, Opened
<1>8. ASSUME NEW t \in Proc, EsWrite(t) PROVE OthersStep(h) \/ ConflictInv(h)'
  <2>1. /\ \A u \in Proc \ {t} : proc'[u] = proc[u]
        /\ proc'[t].kind = proc[t].kind /\ proc'[t].h = proc[t].h /\ proc'[t].guard = proc[t].guard
        /\ UNCHANGED <<late, hd>>
        /\ proc'[t].out # "ok" => UNCHANGED es
        /\ proc'[t].out = "ok" => Append1(proc[t].doc, proc[t].body, proc[t].h)
        BY <1>0, <1>8, EsWriteShape
  <2>2. CASE Saving(t, h) /\ proc'[t].out = "ok"
        BY <1>0, <1>8, <2>2, SaveKeepsConflictInv
  <2>3. CASE proc'[t].out # "ok"
        BY <2>1, <2>3 DEF OthersStep, Saving, Pushing
  <2>4. CASE ~Saving(t, h) /\ proc'[t].out = "ok"
    <3>1. proc[t].h # h
      <4>1. Writing(t) /\ CallTyped(proc[t])
            BY <1>0, <1>8 DEF EsWrite, TypeInv
      <4> QED BY <2>4, <4>1, SentinelAssumption DEF Writing, CallTyped, Saving, Pushing
    <3>2. proc[t].doc \in Doc /\ proc[t].body \in Body \cup {Absent} /\ proc[t].h \in Handle \cup {None}
          BY <1>0, <1>8 DEF EsWrite, Writing, Pushing, TypeInv, CallTyped, ProcState
    <3>3. es'[hd[h].doc] = es[hd[h].doc] \/ es'[hd[h].doc][Len(es'[hd[h].doc])].by # h
          BY <1>0, <2>1, <2>4, <3>1, <3>2, AppendedByAnother
    <3> QED BY <2>1, <2>4, <3>3 DEF OthersStep, Saving, Pushing
  <2> QED BY <2>2, <2>3, <2>4
<1>9. ASSUME NEW t \in Proc, GiveUp(t), Undisturbed(h) PROVE OthersStep(h)
  <2>1. /\ UNCHANGED <<es, hd>> /\ \A u \in Proc : CallKept(u)
        BY <1>0, <1>9, GiveUpShape DEF GiveUp
  <2>2. ASSUME NEW r \in late', r.h = h, r \notin late
        PROVE  Behind(r.guard, hd[h]) /\ Ending(t, h)'
    <3>1. r = RequestOf(t) /\ Writing(t)
          BY <1>9, <2>2 DEF GiveUp
    <3>2. Saving(t, h) /\ r.guard = proc[t].guard
          BY <1>0, <2>2, <3>1, SentinelAssumption
             DEF RequestOf, Writing, Pushing, Saving, TypeInv, CallTyped
    <3>3. Behind(r.guard, hd[h])
          BY <1>9, <3>2 DEF ConflictInv, UndisturbedInv
    <3>4. Ending(t, h)'
      <4>1. proc[t] \in ProcState /\ proc \in [Proc -> ProcState]
            BY <1>0 DEF TypeInv, TypeOK
      <4>2. proc'[t].pc = "answered" /\ proc'[t].kind = proc[t].kind /\ proc'[t].h = proc[t].h
            BY <1>9, <4>1 DEF GiveUp, Become, ProcState
      <4> QED BY <3>2, <4>2 DEF Ending, Saving, Pushing
    <3> QED BY <3>3, <3>4
  <2>3. \A u \in Proc : Saving(u, h)' => /\ Saving(u, h) /\ proc'[u].guard = proc[u].guard
                                         /\ proc'[u].out = "ok" => proc[u].out = "ok" /\ proc'[u].seq = proc[u].seq
        BY <2>1 DEF CallKept, Saving, Pushing
  <2> QED BY <2>1, <2>2, <2>3 DEF OthersStep
<1>10. ASSUME NEW t \in Proc, NEW kind \in {"flush", "release"}, NEW g \in Handle, FlushStart(t, kind, g)
      PROVE  OthersStep(h)
  <2>1. /\ \A u \in Proc \ {t} : proc'[u] = proc[u]
        /\ proc'[t].h = g /\ proc'[t].guard = PutGuard(g) /\ proc'[t].out = "none"
        /\ HandleKept(h)
        BY <1>0, <1>10, FlushStartShape
  <2>2. Behind(PutGuard(h), hd[h])
        BY <1>0 DEF PutGuard, Behind, Unguarded, TypeInv, TypeOK, HandleState
  <2>3. UNCHANGED <<es, late>>
        BY <1>10 DEF FlushStart
  <2> QED BY <2>1, <2>2, <2>3 DEF OthersStep, HandleKept, Saving, Pushing
<1>11. CASE UNCHANGED <<es, hd>> /\ ~Undisturbed(h)
      BY <1>11 DEF ConflictInv, Undisturbed, Opened, Vs
<1>12. ASSUME NEW r \in late, EsLateWrite(r) PROVE OthersStep(h) \/ ConflictInv(h)'
  <2>1. UNCHANGED <<hd, proc>> /\ late' \subseteq late
        BY <1>12 DEF EsLateWrite
  <2>2. CASE r.h = h /\ Accepts(r.doc, r.guard)
        BY <1>0, <1>12, <2>2, LateSaveKeepsConflictInv
  <2>3. CASE ~Accepts(r.doc, r.guard)
        BY <1>4, <1>12, <2>1, <2>3, UnchangedKept DEF EsLateWrite
  <2>4. CASE r.h # h /\ Accepts(r.doc, r.guard)
    <3>1. r.doc \in Doc /\ r.body \in Body \cup {Absent} /\ r.h \in Handle \cup {None}
          BY <1>0 DEF TypeInv, TypeOK, Request
    <3>2. Append1(r.doc, r.body, r.h)
          BY <1>12, <2>4 DEF EsLateWrite
    <3>3. es'[hd[h].doc] = es[hd[h].doc] \/ es'[hd[h].doc][Len(es'[hd[h].doc])].by # h
          BY <1>0, <2>4, <3>1, <3>2, AppendedByAnother
    <3> QED BY <2>1, <3>3 DEF OthersStep, Saving, Pushing
  <2> QED BY <2>2, <2>3, <2>4
<1>13. ASSUME NEW d \in Doc, ExternalDelete(d) \/ \E b \in Body : ExternalWrite(d, b)
      PROVE  OthersStep(h)
  <2>1. PICK v \in Body \cup {Absent} : Append1(d, v, None) /\ UNCHANGED <<late, hd, proc>>
        BY <1>13 DEF ExternalDelete, ExternalWrite
  <2>2. es'[hd[h].doc] = es[hd[h].doc] \/ es'[hd[h].doc][Len(es'[hd[h].doc])].by # h
        BY <1>0, <2>1, AppendedByAnother, SentinelAssumption
  <2> QED BY <2>1, <2>2 DEF OthersStep, Saving, Pushing
<1>14. ASSUME NEW t \in Proc, GiveUp(t) PROVE ConflictInv(h)'
  <2>1. UNCHANGED <<es, hd>>
        BY <1>14 DEF GiveUp
  <2> QED BY <1>3, <1>9, <1>11, <1>14, <2>1
<1>15. ASSUME NEW t \in Proc, FlushDone(t) PROVE OthersStep(h)
  <2>1. /\ \A u \in Proc : CallKept(u)
        /\ proc[t].h # h /\ hd'[h] = hd[h] /\ UNCHANGED <<es, late>>
        BY <1>0, <1>15, FlushDoneShape DEF FlushDone
  <2> QED BY <1>4, <2>1 DEF HandleKept, Opened
<1>16. CASE QuietStep
      BY <1>3, <1>4, <1>16 DEF QuietStep
<1> QED BY <1>0, <1>3, <1>5, <1>6, <1>7, <1>8, <1>10, <1>12, <1>13, <1>14, <1>15, <1>16, StepKinds

(* Under "safe-create-update", with openers that pass O_CREAT or O_EXCL,   *)
(* a handle whose document nobody else has changed is ready to save, has   *)
(* failed, or is failing.                                                  *)
THEOREM ConflictsInvAlways ==
    ASSUME GuardedOpens, Policy = "safe-create-update"
    PROVE  Spec => []ConflictsInv
<1>1. Init => ConflictsInv
  <2>1. Init => \A h \in Handle : ~Opened(h)
        BY DEF Init, FreshHandle, Opened
  <2> QED BY <2>1 DEF ConflictsInv, ConflictInv
<1>2. IInv /\ Coherent /\ ConflictsInv /\ [Next]_vars => ConflictsInv'
      BY OpensMakeConflictInv, EveryStepKeepsConflictInv DEF ConflictsInv
<1> QED BY <1>1, <1>2, Invariance, CoherentAlways, PTL DEF Spec

(* A ready handle is not refused.                                          *)
LEMMA ReadyIsAccepted ==
    ASSUME GuardedOpens, Policy = "safe-create-update", IInv, ConflictsInv,
           NEW t \in Proc, EsWrite(t), Pushing(t), ~hd[proc[t].h].flushedErr,
           ~Overlapped(t), Undisturbed(proc[t].h)
    PROVE  Accepts(proc[t].doc, proc[t].guard)
<1>1. PICK h \in Handle : h = proc[t].h /\ Opened(h)
      BY DEF IInv, TypeInv, CallTyped, Protocol, Pushing
<1>2. /\ proc[t].guard = PutGuard(h) /\ proc[t].pc = "sent"
      /\ \A u \in Proc : Saving(u, h) => u = t
      BY <1>1 DEF Overlapped, EsWrite, Saving
<1>3. /\ proc[t].doc = hd[h].doc /\ hd[h].loaded \in Nat /\ Len(Vs(h)) \in Nat
      BY <1>1, OpenFacts DEF Saving
<1>4. ConflictInv(h) /\ UndisturbedInv(h)
      BY <1>1 DEF ConflictsInv, ConflictInv
<1>5. Ready(hd[h], Vs(h))
      BY <1>1, <1>2, <1>4 DEF UndisturbedInv, Ending
<1>6. CASE hd[h].createOnly
  <2>1. Len(Vs(h)) = 0 /\ PutGuard(h).kind = "create"
        BY <1>5, <1>6 DEF Ready, PutGuard
  <2>2. Vs(h) = <<>>
    <3>1. Vs(h) \in Seq(Version)
          BY <1>1, OpenFacts DEF IInv, TypeInv, TypeOK, Vs
    <3> QED BY <2>1, <3>1
  <2> QED BY <1>2, <1>3, <2>1, <2>2 DEF Accepts, Live, Vs
<1>7. CASE ~hd[h].createOnly
  <2>1. hd[h].meta = Len(Vs(h)) /\ Len(Vs(h)) # 0
        BY <1>5, <1>7 DEF Ready
  <2>2. PutGuard(h) = [kind |-> "match", seq |-> hd[h].meta]
        BY <1>7, <2>1 DEF PutGuard
  <2>3. Vs(h)[Len(Vs(h))].val # Absent
    <3>1. CASE hd[h].loaded = Len(Vs(h))
          BY <1>1, <1>4, <2>1, <3>1 DEF ConflictInv
    <3>2. CASE hd[h].loaded # Len(Vs(h))
      <4>1. Len(Vs(h)) \in hd[h].loaded + 1..Len(Vs(h))
            BY <1>1, <1>3, <1>4, <2>1, <3>2 DEF ConflictInv
      <4>2. Vs(h)[Len(Vs(h))].by = h
            BY <1>1, <4>1 DEF Undisturbed, Vs
      <4> QED BY <1>1, <1>3, <1>4, <2>1, <4>2 DEF ConflictInv
    <3> QED BY <3>1, <3>2
  <2>4. Vs(h) # <<>>
        BY <2>1
  <2> QED BY <1>2, <1>3, <2>1, <2>2, <2>3, <2>4 DEF Accepts, Live, Vs
<1> QED BY <1>6, <1>7

(* Under the same conditions a conflict is never of a handle's own making. *)
THEOREM ConflictsHaveCauses ==
    ASSUME GuardedOpens, Policy = "safe-create-update"
    PROVE  Spec => ConflictsAreReal
<1> DEFINE A == \A t \in Proc :
                  Pushing(t) /\ proc[t].out = "none" /\ proc'[t].out = "refused"
                      /\ ~hd[proc[t].h].flushedErr =>
                          Overlapped(t) \/ ~Undisturbed(proc[t].h)
<1>1. IInv /\ ConflictsInv /\ [Next]_vars => [A]_vars
  <2> SUFFICES ASSUME IInv, ConflictsInv, [Next]_vars, NEW t \in Proc, Refused(t),
                      ~hd[proc[t].h].flushedErr, ~Overlapped(t), Undisturbed(proc[t].h)
               PROVE  FALSE
      BY DEF Refused
  <2>1. EsWrite(t) /\ Pushing(t)
    <3>1. proc[t].h \in Handle /\ Opened(proc[t].h)
          BY DEF Refused, IInv, TypeInv, CallTyped, Protocol, Pushing
    <3> QED BY <3>1, EveryStepKeepsFailures DEF Refused, IInv
  <2>2. Accepts(proc[t].doc, proc[t].guard)
        BY <2>1, ReadyIsAccepted
  <2>3. proc'[t].out = "ok"
    <3>1. proc[t] \in ProcState /\ proc \in [Proc -> ProcState]
          BY DEF IInv, TypeInv, TypeOK
    <3> QED BY <2>1, <2>2, <3>1 DEF EsWrite, Become, ProcState
  <2> QED BY <2>3 DEF Refused
<1> QED BY <1>1, ConflictsInvAlways, Invariance, PTL DEF Spec, ConflictsAreReal

-----------------------------------------------------------------------------
(* How stale versions leave docCache.                                      *)

(* A call p is about to put version n of document d into docCache.         *)
Brings(p, d, n) ==
    /\ p.doc = d /\ p.seq = n
    /\ \/ p.kind \in {"read", "open"} /\ p.out = "found"
       \/ p.kind \in {"flush", "release"} /\ p.out = "ok"

(* Once a document has a later version, no further call comes to bring the *)
(* old one (Get and Put answer with the latest), and whoever puts it back  *)
(* into the cache has it no more: it returns at most as often as there     *)
(* were calls under way when it fell behind.  With entries that expire,    *)
(* this is all of StaleEntriesLeave that is not about fairness.            *)
StaleVersionsDwindle ==
    [][\A d \in Doc : \A n \in 1..(Len(es[d]) - 1) :
         /\ \A t \in Proc : Brings(proc'[t], d, n) => Brings(proc[t], d, n)
         /\ cache'[d].seq = n =>
              \/ cache[d].seq = n
              \/ \E t \in Proc : Brings(proc[t], d, n) /\ ~Brings(proc'[t], d, n)]_vars

(* The two halves, for a version that is behind.                           *)
NoNewBringer(d, n) == \A t \in Proc : Brings(proc'[t], d, n) => Brings(proc[t], d, n)
BroughtBy(d, n) ==
    cache'[d].seq = n =>
        \/ cache[d].seq = n
        \/ \E t \in Proc : Brings(proc[t], d, n) /\ ~Brings(proc'[t], d, n)

LEMMA OneCallBrings ==
    ASSUME TypeInv, NEW t \in Proc, NEW p, Become(t, p), NEW d, NEW n,
           Brings(p, d, n) => Brings(proc[t], d, n)
    PROVE  NoNewBringer(d, n)
BY DEF TypeInv, TypeOK, Become, NoNewBringer

LEMMA IdleBrings == \A d, n : ~Brings(Idle, d, n)
BY DEF Brings, Idle

(* Calls begin without an answer.                                          *)
LEMMA StartsBringNothing ==
    ASSUME TypeInv, NEW t \in Proc, StartCall(t), NEW d \in Doc, NEW n \in Nat
    PROVE  NoNewBringer(d, n) /\ UNCHANGED cache
<1>1. ASSUME NEW p, Become(t, p), p.out = "none"
      PROVE  NoNewBringer(d, n)
      BY <1>1, OneCallBrings DEF Brings
<1>2. ASSUME NEW c \in Doc, ReadStart(t, c) \/ UnlinkStart(t, c)
      PROVE  NoNewBringer(d, n) /\ UNCHANGED cache
  <2> DEFINE p == [Idle EXCEPT !.kind = "read", !.pc = "sent", !.doc = c]
             q == [Idle EXCEPT !.kind = "unlink", !.pc = "sent", !.doc = c,
                               !.guard = [kind |-> "delete", seq |-> 0]]
  <2>1. (Become(t, p) \/ Become(t, q)) /\ UNCHANGED cache
        BY <1>2 DEF ReadStart, UnlinkStart, Begin
  <2>2. p.out = "none" /\ q.out = "none"
        BY DEF Idle
  <2> HIDE DEF p, q
  <2> QED BY <1>1, <2>1, <2>2
<1>3. ASSUME NEW h \in Handle, NEW c \in Doc, NEW fl \in Flags, OpenMiss(t, h, c, fl)
      PROVE  NoNewBringer(d, n) /\ UNCHANGED cache
  <2> DEFINE p == [Idle EXCEPT !.kind = "open", !.pc = "sent", !.doc = c, !.h = h, !.flags = fl]
  <2>1. Become(t, p) /\ UNCHANGED cache
        BY <1>3 DEF OpenMiss, Begin
  <2>2. p.out = "none"
        BY DEF Idle
  <2> HIDE DEF p
  <2> QED BY <1>1, <2>1, <2>2
<1>4. ASSUME NEW h \in Handle, NEW kind \in {"flush", "release"}, FlushStart(t, kind, h)
      PROVE  NoNewBringer(d, n) /\ UNCHANGED cache
  <2> DEFINE p == [Idle EXCEPT !.kind = kind, !.pc = "ready", !.doc = hd[h].doc, !.h = h,
                               !.src = hd[h].buf, !.live = TRUE, !.guard = PutGuard(h)]
  <2>1. Become(t, p) /\ UNCHANGED cache
        BY <1>4 DEF FlushStart, Begin
  <2>2. p.out = "none"
        BY DEF Idle
  <2> HIDE DEF p
  <2> QED BY <1>1, <2>1, <2>2
<1> QED BY <1>2, <1>3, <1>4 DEF StartCall

(* Elasticsearch answers with its latest version only, or a new one.       *)
LEMMA AnswersBringTheLatest ==
    ASSUME TypeInv, NEW t \in Proc, EsGet(t) \/ Send(t) \/ EsWrite(t) \/ GiveUp(t),
           NEW d \in Doc, NEW n \in 1..(Len(es[d]) - 1)
    PROVE  NoNewBringer(d, n) /\ UNCHANGED cache
<1>1. proc[t] \in ProcState /\ Len(es[d]) \in Nat
      BY DEF TypeInv, TypeOK
<1>2. CASE EsGet(t)
  <2>1. CASE Live(proc[t].doc)
    <3> DEFINE c == proc[t].doc
               p == [proc[t] EXCEPT !.pc = "answered", !.out = "found",
                                    !.body = es[c][Len(es[c])].val, !.seq = Len(es[c])]
    <3>1. Become(t, p) /\ UNCHANGED cache
          BY <1>2, <2>1 DEF EsGet
    <3>2. p.doc = c /\ p.seq = Len(es[c])
          BY <1>1 DEF ProcState
    <3>3. ~Brings(p, d, n)
          BY <1>1, <3>2 DEF Brings
    <3> HIDE DEF p
    <3> QED BY <3>1, <3>3, OneCallBrings
  <2>2. CASE ~Live(proc[t].doc)
    <3> DEFINE p == [proc[t] EXCEPT !.pc = "answered", !.out = "missing"]
    <3>1. Become(t, p) /\ UNCHANGED cache
          BY <1>2, <2>2 DEF EsGet
    <3>2. p.out = "missing"
          BY <1>1 DEF ProcState
    <3> HIDE DEF p
    <3> QED BY <3>1, <3>2, OneCallBrings DEF Brings
  <2> QED BY <2>1, <2>2
<1>3. CASE Send(t)
  <2> DEFINE p == [proc[t] EXCEPT !.pc = "sent", !.body = proc[t].src]
  <2>1. Become(t, p) /\ UNCHANGED cache
        BY <1>3 DEF Send
  <2>2. p.doc = proc[t].doc /\ p.seq = proc[t].seq /\ p.kind = proc[t].kind /\ p.out = proc[t].out
        BY <1>1 DEF ProcState
  <2> HIDE DEF p
  <2> QED BY <2>1, <2>2, OneCallBrings DEF Brings
<1>4. CASE EsWrite(t)
  <2>1. CASE Accepts(proc[t].doc, proc[t].guard)
    <3> DEFINE c == proc[t].doc
               p == [proc[t] EXCEPT !.pc = "answered", !.out = "ok", !.seq = Len(es[c]) + 1]
    <3>1. Become(t, p) /\ UNCHANGED cache
          BY <1>4, <2>1 DEF EsWrite
    <3>2. p.doc = c /\ p.seq = Len(es[c]) + 1
          BY <1>1 DEF ProcState
    <3>3. ~Brings(p, d, n)
          BY <1>1, <3>2 DEF Brings
    <3> HIDE DEF p
    <3> QED BY <3>1, <3>3, OneCallBrings
  <2>2. CASE ~Accepts(proc[t].doc, proc[t].guard)
    <3> DEFINE p == [proc[t] EXCEPT !.pc = "answered", !.out = "refused"]
    <3>1. Become(t, p) /\ UNCHANGED cache
          BY <1>4, <2>2 DEF EsWrite
    <3>2. p.out = "refused"
          BY <1>1 DEF ProcState
    <3> HIDE DEF p
    <3> QED BY <3>1, <3>2, OneCallBrings DEF Brings
  <2> QED BY <2>1, <2>2
<1>5. CASE GiveUp(t)
  <2> DEFINE p == [proc[t] EXCEPT !.pc = "answered", !.out = "fail"]
  <2>1. Become(t, p) /\ UNCHANGED cache
        BY <1>5 DEF GiveUp
  <2>2. p.out = "fail"
        BY <1>1 DEF ProcState
  <2> HIDE DEF p
  <2> QED BY <2>1, <2>2, OneCallBrings DEF Brings
<1> QED BY <1>2, <1>3, <1>4, <1>5

(* A call puts into the cache what it brings, once.                        *)
LEMMA EndsBringOnce ==
    ASSUME TypeInv, NEW t \in Proc, Return(t), NEW d \in Doc, NEW n \in Nat \ {0},
           \/ UNCHANGED cache
           \/ (ReadFinish(t) \/ OpenFinish(t)) /\ CacheFound(t)
           \/ FlushDone(t)
           \/ UnlinkDone(t)
    PROVE  NoNewBringer(d, n) /\ BroughtBy(d, n)
<1>1. proc'[t] = Idle /\ ~Brings(proc'[t], d, n) /\ NoNewBringer(d, n)
      BY IdleBrings, OneCallBrings DEF Return, Become, TypeInv, TypeOK
<1>2. proc[t] \in ProcState /\ cache \in [Doc -> CacheEntry]
      BY DEF TypeInv, TypeOK
<1>3. CASE UNCHANGED cache
      BY <1>1, <1>3 DEF BroughtBy
<1>4. CASE (ReadFinish(t) \/ OpenFinish(t)) /\ CacheFound(t)
  <2>1. proc[t].kind \in {"read", "open"}
        BY <1>4 DEF ReadFinish, OpenFinish
  <2>2. CASE proc[t].out = "found"
    <3>1. cache' = [cache EXCEPT ![proc[t].doc] =
                      [src |-> proc[t].body, seq |-> proc[t].seq, of |-> None]]
          BY <1>4, <2>2 DEF CacheFound
    <3>2. d = proc[t].doc => cache'[d].seq = proc[t].seq
          BY <1>2, <3>1
    <3>3. d # proc[t].doc => cache'[d] = cache[d]
          BY <1>2, <3>1
    <3> QED BY <1>1, <2>1, <2>2, <3>2, <3>3 DEF BroughtBy, Brings
  <2>3. CASE proc[t].out # "found"
        BY <1>1, <1>4, <2>3 DEF CacheFound, BroughtBy
  <2> QED BY <2>2, <2>3
<1>5. CASE FlushDone(t)
  <2>1. /\ proc[t].kind \in {"flush", "release"} /\ proc[t].out = "ok"
        /\ cache' = [cache EXCEPT ![proc[t].doc] = PutEntry(t)]
        BY <1>5 DEF FlushDone, Pushing
  <2>2. d = proc[t].doc => cache'[d].seq = proc[t].seq
        BY <1>2, <2>1 DEF PutEntry
  <2>3. d # proc[t].doc => cache'[d] = cache[d]
        BY <1>2, <2>1
  <2> QED BY <1>1, <2>1, <2>2, <2>3 DEF BroughtBy, Brings
<1>6. CASE UnlinkDone(t)
  <2>1. cache'[d].seq = 0 \/ cache'[d] = cache[d]
        BY <1>2, <1>6 DEF UnlinkDone, NoEntry
  <2> QED BY <1>1, <2>1 DEF BroughtBy
<1> QED BY <1>3, <1>4, <1>5, <1>6

(* Edits in place reach the bytes of entries and calls, not their version. *)
LEMMA UsesBringNothing ==
    ASSUME TypeInv, NEW h \in Handle, UseHandle(h), NEW d \in Doc, NEW n \in Nat
    PROVE  NoNewBringer(d, n) /\ BroughtBy(d, n)
<1>1. /\ proc \in [Proc -> ProcState] /\ cache \in [Doc -> CacheEntry]
      BY DEF TypeInv, TypeOK
<1>2. ASSUME UNCHANGED <<cache, proc>>
      PROVE  NoNewBringer(d, n) /\ BroughtBy(d, n)
      BY <1>2 DEF NoNewBringer, BroughtBy
<1>3. ASSUME NEW x, InPlace(h, x)
      PROVE  NoNewBringer(d, n) /\ BroughtBy(d, n)
  <2>1. cache'[d].seq = cache[d].seq
        BY <1>1, <1>3 DEF InPlace, CacheEntry
  <2>2. ASSUME NEW t \in Proc
        PROVE  /\ proc'[t].doc = proc[t].doc /\ proc'[t].seq = proc[t].seq
               /\ proc'[t].kind = proc[t].kind /\ proc'[t].out = proc[t].out
        BY <1>1, <1>3 DEF InPlace, ProcState
  <2> QED BY <2>1, <2>2 DEF NoNewBringer, BroughtBy, Brings
<1>4. ASSUME Reallocate(h)
      PROVE  NoNewBringer(d, n) /\ BroughtBy(d, n)
  <2>1. cache'[d].seq = cache[d].seq
        BY <1>1, <1>4 DEF Reallocate, CacheEntry
  <2>2. ASSUME NEW t \in Proc
        PROVE  /\ proc'[t].doc = proc[t].doc /\ proc'[t].seq = proc[t].seq
               /\ proc'[t].kind = proc[t].kind /\ proc'[t].out = proc[t].out
        BY <1>1, <1>4 DEF Reallocate, ProcState
  <2> QED BY <2>1, <2>2 DEF NoNewBringer, BroughtBy, Brings
<1>5. ASSUME NEW c, WriteAt(h, c) \/ Truncate(h, c)
      PROVE  NoNewBringer(d, n) /\ BroughtBy(d, n)
      BY <1>2, <1>3, <1>4, <1>5 DEF WriteAt, Truncate
<1>6. ASSUME NEW c \in Doc, NEW fl \in Flags, OpenHit(h, c, fl)
      PROVE  NoNewBringer(d, n) /\ BroughtBy(d, n)
      BY <1>2, <1>6 DEF OpenHit
<1>7. ASSUME NEW kind, FlushClean(kind, h) \/ FlushInvalid(kind, h)
      PROVE  NoNewBringer(d, n) /\ BroughtBy(d, n)
      BY <1>2, <1>7 DEF FlushClean, FlushInvalid
<1> QED BY <1>5, <1>6, <1>7 DEF UseHandle

(* A version that has fallen behind comes back into the cache at most once *)
(* for each call that was already bringing it: for any number of handles   *)
(* and goroutines, under every policy, with requests lost and repeated.    *)
THEOREM StaleVersionsAlwaysDwindle == Spec => StaleVersionsDwindle
<1>1. ASSUME TypeInv, [Next]_vars, NEW d \in Doc, NEW n \in 1..(Len(es[d]) - 1)
      PROVE  NoNewBringer(d, n) /\ BroughtBy(d, n)
  <2>1. n \in Nat \ {0}
        BY <1>1 DEF TypeInv, TypeOK
  <2>2. ASSUME NEW t \in Proc, StartCall(t) PROVE NoNewBringer(d, n) /\ BroughtBy(d, n)
        BY <1>1, <2>1, <2>2, StartsBringNothing DEF BroughtBy
  <2>3. ASSUME NEW t \in Proc, Advance(t) PROVE NoNewBringer(d, n) /\ BroughtBy(d, n)
    <3>1. CASE EsGet(t) \/ Send(t) \/ EsWrite(t) \/ GiveUp(t)
          BY <1>1, <3>1, AnswersBringTheLatest DEF BroughtBy
    <3>2. CASE ReadFinish(t) \/ OpenFinish(t)
          BY <1>1, <2>1, <3>2, EndsBringOnce DEF ReadFinish, OpenFinish
    <3>3. CASE FlushDone(t) \/ UnlinkDone(t)
          BY <1>1, <2>1, <3>3, EndsBringOnce DEF FlushDone, UnlinkDone
    <3>4. CASE FlushFailed(t) \/ UnlinkFailed(t)
          BY <1>1, <2>1, <3>4, EndsBringOnce DEF FlushFailed, UnlinkFailed
    <3> QED BY <2>3, <3>1, <3>2, <3>3, <3>4 DEF Advance
  <2>4. ASSUME NEW h \in Handle, UseHandle(h) PROVE NoNewBringer(d, n) /\ BroughtBy(d, n)
        BY <1>1, <2>1, <2>4, UsesBringNothing
  <2>5. ASSUME NEW c \in Doc, Expire(c) PROVE NoNewBringer(d, n) /\ BroughtBy(d, n)
    <3>1. UNCHANGED proc /\ (cache'[d].seq = 0 \/ cache'[d] = cache[d])
          BY <1>1, <2>5 DEF Expire, NoEntry, TypeInv, TypeOK
    <3> QED BY <2>1, <3>1 DEF NoNewBringer, BroughtBy
  <2>6. CASE UNCHANGED <<cache, proc>>
        BY <2>6 DEF NoNewBringer, BroughtBy
  <2> QED BY <1>1, <2>2, <2>3, <2>4, <2>5, <2>6
          DEF Next, vars, EsLateWrite, ExternalWrite, ExternalDelete
<1>2. TypeInv /\ [Next]_vars =>
        [\A d \in Doc : \A n \in 1..(Len(es[d]) - 1) :
           /\ \A t \in Proc : Brings(proc'[t], d, n) => Brings(proc[t], d, n)
           /\ cache'[d].seq = n =>
                \/ cache[d].seq = n
                \/ \E t \in Proc : Brings(proc[t], d, n) /\ ~Brings(proc'[t], d, n)]_vars
      BY <1>1 DEF NoNewBringer, BroughtBy
<1>3. IInv => TypeInv
      BY DEF IInv
<1> QED BY <1>2, <1>3, Invariance, PTL DEF Spec, StaleVersionsDwindle
=============================================================================
