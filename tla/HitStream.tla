------------------------------ MODULE HitStream ------------------------------
(***************************************************************************)
(* Streaming documents out of Elasticsearch: the producer goroutine of     *)
(* ESClient.List and Search over streamPIT (internal/escore/search.go),    *)
(* the forwarding goroutine of VFS.ReadDirStream (internal/vfs/vfs.go),    *)
(* and their consumers: dirStream under FUSE (internal/fusefs/fusefs.go),  *)
(* VFS.ReadDir, routed ls/find, ranked grep and the exact fallback of grep *)
(* (internal/cmdshim).  Every request takes one of the Conc slots of       *)
(* httpClient.do, and the channels are unbuffered.                         *)
(*                                                                         *)
(* A point in time of index i holds the documents 1..NDocs[i] in sort      *)
(* order, so search_after is the number of documents already emitted.      *)
(***************************************************************************)
EXTENDS Naturals, Sequences, FiniteSets

CONSTANTS
    Pipe,       \* streams being read concurrently in one process
    Uses,       \* who may be consuming them: assignments of kinds to streams
    NDocs,      \* the documents of each index in scope, in the order searched
    PageSize,   \* hits per search request
    Limit,      \* limit of a ranked search, per index; 0: none
    MaxExact,   \* maxExactDocs
    Conc        \* capacity of the request semaphore

Kinds == {"dir", "readdir", "ls", "search", "exact"}

ASSUME UsesAssumption == Uses \subseteq [Pipe -> Kinds]
ASSUME NDocsAssumption == NDocs \in Seq(Nat) /\ NDocs # <<>>
ASSUME BoundsAssumption ==
    /\ PageSize \in Nat \ {0} /\ Conc \in Nat \ {0}
    /\ Limit \in Nat /\ MaxExact \in Nat \ {0}

VARIABLES
    kind,       \* who consumes each stream
    prod,       \* the goroutine that runs streamPIT
    fwd,        \* the forwarding goroutine of ReadDirStream
    cons,       \* the consumer
    out,        \* what the consumer received, per index
    cancelled,  \* the stream's context has been cancelled
    slots       \* requests that hold a slot of the semaphore

vars == <<kind, prod, fwd, cons, out, cancelled, slots>>

Index == 1..Len(NDocs)

(* A directory is one index; find, grep and ls walk all indices in scope.  *)
LastIndex(p) == IF kind[p] \in {"dir", "readdir"} THEN 1 ELSE Len(NDocs)

LimitOf(p) == IF kind[p] = "search" THEN Limit ELSE 0

Forwarded(p) == kind[p] \in {"dir", "readdir"}

(* hi: the last hit of the page at hand.  Histories, by index: pits, the   *)
(* points in time openPIT returned whose closing was not asked for since;  *)
(* left, those whose closing ran out of time before it could be asked for. *)
ProdState == [pc : {"open", "query", "emit", "close", "done"}, idx : Index,
              after : Nat, hi : Nat, count : Nat, err : BOOLEAN,
              pits : SUBSET Index, left : SUBSET Index]

StreamOf(i, pits, left) ==
    [pc |-> "open", idx |-> i, after |-> 0, hi |-> 0, count |-> 0, err |-> FALSE,
     pits |-> pits, left |-> left]

(* virtual: virtual files still to be emitted; item: the entry in hand.    *)
FwdState == [pc : {"virtual", "recv", "send", "done"}, virtual : 0..4, item : Nat]

ConsState == [pc : {"recv", "fetch", "errf", "eof", "closed", "returned"},
              fetched : Nat, rc : {0, 2}]

Init ==
    /\ kind \in Uses
    /\ prod = [p \in Pipe |-> StreamOf(1, {}, {})]
    /\ fwd = [p \in Pipe |-> [pc |-> IF Forwarded(p) THEN "virtual" ELSE "done",
                              virtual |-> 4, item |-> 0]]
    /\ cons = [p \in Pipe |-> [pc |-> "recv", fetched |-> 0, rc |-> 0]]
    /\ out = [p \in Pipe |-> [i \in Index |-> <<>>]]
    /\ cancelled = [p \in Pipe |-> FALSE]
    /\ slots = {}

-----------------------------------------------------------------------------
(* httpClient.do: wait for a slot, make the request, give the slot back.   *)

Requesting(p, who) ==
    \/ who = "prod" /\ prod[p].pc \in {"open", "query", "close"}
    \/ who = "cons" /\ cons[p].pc = "fetch"

Acquire(p, who) ==
    /\ Requesting(p, who) /\ <<p, who>> \notin slots
    /\ Cardinality(slots) < Conc
    /\ slots' = slots \cup {<<p, who>>}
    /\ UNCHANGED <<kind, prod, fwd, cons, out, cancelled>>

Release(p, who) == <<p, who>> \in slots /\ slots' = slots \ {<<p, who>>}

-----------------------------------------------------------------------------
(* streamPIT, and the loop over the planned indices in Search.             *)

MinOf(a, b) == IF a < b THEN a ELSE b

(* A request of the producer fails, or its context ends it, possibly       *)
(* while it still waits for a slot.                                        *)
ProdFail(p) ==
    /\ prod[p].pc \in {"open", "query"}
    /\ \/ Release(p, "prod")
       \/ cancelled[p] /\ <<p, "prod">> \notin slots /\ UNCHANGED slots
    /\ prod' = [prod EXCEPT ![p].err = TRUE,
                            ![p].pc = IF prod[p].pc = "open" THEN "done" ELSE "close"]
    /\ UNCHANGED <<kind, fwd, cons, out, cancelled>>

OpenPIT(p) ==
    /\ prod[p].pc = "open" /\ Release(p, "prod")
    /\ prod' = [prod EXCEPT ![p].pc = "query", ![p].pits = @ \cup {prod[p].idx}]
    /\ UNCHANGED <<kind, fwd, cons, out, cancelled>>

(* The next page; an empty one ends the stream.                            *)
Query(p) ==
    LET hi == MinOf(prod[p].after + PageSize, NDocs[prod[p].idx]) IN
    /\ prod[p].pc = "query" /\ Release(p, "prod")
    /\ prod' = [prod EXCEPT ![p].hi = hi,
                            ![p].pc = IF hi = prod[p].after THEN "close" ELSE "emit"]
    /\ UNCHANGED <<kind, fwd, cons, out, cancelled>>

(* Mutant: a limit returns before the deferred close is set up.            *)
EmittedNoClose(p) ==
    LET n == prod[p].count + 1 IN
    [prod[p] EXCEPT !.after = @ + 1, !.count = n,
                    !.pc = IF LimitOf(p) > 0 /\ n >= LimitOf(p) THEN "done"
                           ELSE IF prod[p].after + 1 = prod[p].hi THEN "query" ELSE "emit"]

(* Mutant: search_after is the sort key of the page's first hit.           *)
EmittedFirstKey(p) ==
    LET n == prod[p].count + 1 IN
    [prod[p] EXCEPT !.after = IF prod[p].after + 1 = prod[p].hi /\ PageSize > 1
                              THEN prod[p].hi - 1 ELSE @ + 1,
                    !.count = n,
                    !.pc = IF LimitOf(p) > 0 /\ n >= LimitOf(p) THEN "close"
                           ELSE IF prod[p].after + 1 = prod[p].hi THEN "query" ELSE "emit"]

(* The producer once its emit has handed over a hit.                       *)
Emitted(p) ==
    LET n == prod[p].count + 1 IN
    [prod[p] EXCEPT !.after = @ + 1, !.count = n,
                    !.pc = IF LimitOf(p) > 0 /\ n >= LimitOf(p) THEN "close"
                           ELSE IF prod[p].after + 1 = prod[p].hi THEN "query" ELSE "emit"]

(* Mutant: emit does not watch its context.                                *)
EmitNeverCancelled(p) == FALSE

EmitCancelled(p) ==
    /\ prod[p].pc = "emit" /\ cancelled[p]
    /\ prod' = [prod EXCEPT ![p].pc = "close"]
    /\ UNCHANGED <<kind, fwd, cons, out, cancelled, slots>>

(* After closePIT Search goes on to its next index and List closes its     *)
(* channel.                                                                *)
NextOrDone(p, pits, left) ==
    IF kind[p] = "search" /\ ~prod[p].err /\ prod[p].idx < Len(NDocs)
    THEN StreamOf(prod[p].idx + 1, pits, left)
    ELSE [prod[p] EXCEPT !.pc = "done", !.pits = pits, !.left = left]

(* The deferred closePIT: the request is made, for the id that openPIT     *)
(* returned, and its outcome ignored.                                      *)
ClosePIT(p) ==
    /\ prod[p].pc = "close" /\ Release(p, "prod")
    /\ prod' = [prod EXCEPT ![p] =
                  NextOrDone(p, prod[p].pits \ {prod[p].idx}, prod[p].left)]
    /\ UNCHANGED <<kind, fwd, cons, out, cancelled>>

(* closePIT's context is its own and has a timeout, which may end while    *)
(* the request still waits for a slot: it is then never made, and the      *)
(* point in time stays until its keep_alive ends.                          *)
CloseTimeout(p) ==
    /\ prod[p].pc = "close" /\ <<p, "prod">> \notin slots
    /\ prod' = [prod EXCEPT ![p] =
                  NextOrDone(p, prod[p].pits, prod[p].left \cup {prod[p].idx})]
    /\ UNCHANGED <<kind, fwd, cons, out, cancelled, slots>>

-----------------------------------------------------------------------------
(* The forwarding goroutine of ReadDirStream.                              *)

FwdReceive(p) ==
    /\ fwd[p].pc = "recv" /\ prod[p].pc = "emit"
    /\ fwd' = [fwd EXCEPT ![p].pc = "send", ![p].item = prod[p].after + 1]
    /\ prod' = [prod EXCEPT ![p] = Emitted(p)]
    /\ UNCHANGED <<kind, cons, out, cancelled, slots>>

FwdEnd(p) ==
    /\ \/ fwd[p].pc = "recv" /\ prod[p].pc = "done"
       \/ fwd[p].pc = "send" /\ cancelled[p]
    /\ fwd' = [fwd EXCEPT ![p].pc = "done"]
    /\ UNCHANGED <<kind, prod, cons, out, cancelled, slots>>

NextVirtual(p) ==
    fwd' = [fwd EXCEPT ![p].virtual = @ - 1,
                       ![p].pc = IF fwd[p].virtual = 1 THEN "recv" ELSE "virtual"]

(* The results of emitting the virtual files are ignored.                  *)
FwdSkipVirtual(p) ==
    /\ fwd[p].pc = "virtual" /\ cancelled[p]
    /\ NextVirtual(p)
    /\ UNCHANGED <<kind, prod, cons, out, cancelled, slots>>

-----------------------------------------------------------------------------
(* The consumers.                                                          *)

Received(p, i, id) == out' = [out EXCEPT ![p][i] = Append(@, id)]

ReceiveVirtual(p) ==
    /\ cons[p].pc = "recv" /\ fwd[p].pc = "virtual"
    /\ NextVirtual(p)
    /\ UNCHANGED <<kind, prod, cons, out, cancelled, slots>>

ReceiveForwarded(p) ==
    /\ cons[p].pc = "recv" /\ fwd[p].pc = "send"
    /\ Received(p, 1, fwd[p].item)
    /\ fwd' = [fwd EXCEPT ![p].pc = "recv"]
    /\ UNCHANGED <<kind, prod, cons, cancelled, slots>>

(* ls, find and ranked grep print what they receive; the exact fallback    *)
(* reads the document.                                                     *)
Receive(p) ==
    /\ ~Forwarded(p) /\ cons[p].pc = "recv" /\ prod[p].pc = "emit"
    /\ Received(p, prod[p].idx, prod[p].after + 1)
    /\ prod' = [prod EXCEPT ![p] = Emitted(p)]
    /\ cons' = [cons EXCEPT ![p].pc = IF kind[p] = "exact" THEN "fetch" ELSE "recv"]
    /\ UNCHANGED <<kind, fwd, cancelled, slots>>

(* fetchSource answered: the document is materialized, and maxExactDocs    *)
(* breaks out of the loop over the channel.                                *)
Fetched(p) ==
    /\ cons[p].pc = "fetch" /\ Release(p, "cons")
    /\ cons' = [cons EXCEPT ![p].fetched = @ + 1,
                            ![p].pc = IF cons[p].fetched + 1 >= MaxExact THEN "errf" ELSE "recv"]
    /\ UNCHANGED <<kind, prod, fwd, out, cancelled>>

(* fetchSource failed: the document is skipped.                            *)
FetchFailed(p) ==
    /\ cons[p].pc = "fetch" /\ Release(p, "cons")
    /\ cons' = [cons EXCEPT ![p].pc = "recv"]
    /\ UNCHANGED <<kind, prod, fwd, out, cancelled>>

Drained(p) == IF Forwarded(p) THEN fwd[p].pc = "done" ELSE prod[p].pc = "done"

(* The channel is closed.  dirStream never asks for the stream's error.    *)
ReceiveEnd(p) ==
    /\ cons[p].pc = "recv" /\ Drained(p)
    /\ cons' = [cons EXCEPT ![p].pc = IF kind[p] = "dir" THEN "eof" ELSE "errf"]
    /\ UNCHANGED <<kind, prod, fwd, out, cancelled, slots>>

(* Mutant: the stream's error is not looked at.                            *)
ReportsNothing(p) == FALSE

(* The exact fallback prints the stream's error but exits as grep did.     *)
Reports(p) == prod[p].err /\ kind[p] # "exact"

(* errf waits for the producer and returns its error; then find and the    *)
(* exact fallback list the next index.                                     *)
ErrF(p) ==
    LET more == kind[p] \in {"ls", "exact"} /\ prod[p].idx < LastIndex(p) IN
    /\ cons[p].pc = "errf" /\ prod[p].pc = "done"
    /\ cons' = [cons EXCEPT ![p].pc = IF more THEN "recv" ELSE "returned",
                            ![p].rc = IF Reports(p) THEN 2 ELSE @]
    /\ prod' = IF more THEN [prod EXCEPT ![p] = StreamOf(prod[p].idx + 1, prod[p].pits, prod[p].left)]
             ELSE prod
    /\ UNCHANGED <<kind, fwd, out, cancelled, slots>>

(* Mutant: the stream is left without cancelling its context.              *)
DirLeave(p) ==
    /\ kind[p] = "dir" /\ cons[p].pc \in {"recv", "eof"}
    /\ cons' = [cons EXCEPT ![p].pc = "closed"]
    /\ UNCHANGED <<kind, prod, fwd, out, cancelled, slots>>

(* dirStream.Close: the kernel may release a directory at any point.       *)
DirClose(p) ==
    /\ kind[p] = "dir" /\ cons[p].pc \in {"recv", "eof"}
    /\ cons' = [cons EXCEPT ![p].pc = "closed"]
    /\ cancelled' = [cancelled EXCEPT ![p] = TRUE]
    /\ UNCHANGED <<kind, prod, fwd, out, slots>>

-----------------------------------------------------------------------------
ProdRun(p) ==
    ProdFail(p) \/ OpenPIT(p) \/ Query(p) \/ EmitCancelled(p) \/ ClosePIT(p)

ProdStep(p) == ProdRun(p) \/ CloseTimeout(p)

FwdStep(p) == FwdReceive(p) \/ FwdEnd(p) \/ FwdSkipVirtual(p)

ConsStep(p) ==
    \/ ReceiveVirtual(p) \/ ReceiveForwarded(p) \/ Receive(p)
    \/ Fetched(p) \/ FetchFailed(p) \/ ReceiveEnd(p) \/ ErrF(p)

Next ==
    \E p \in Pipe :
        \/ \E who \in {"prod", "cons"} : Acquire(p, who)
        \/ ProdStep(p) \/ FwdStep(p) \/ ConsStep(p) \/ DirClose(p)

Spec == Init /\ [][Next]_vars

(* Goroutines that can run do; a waiting request gets a slot that stays    *)
(* free; a directory is closed in the end, but need not be read.  Nothing  *)
(* relies on closePIT's time running out.                                  *)
FairSpec ==
    /\ Spec
    /\ \A p \in Pipe : /\ \A who \in {"prod", "cons"} : WF_vars(Acquire(p, who))
                       /\ WF_vars(ProdRun(p)) /\ WF_vars(FwdStep(p))
                       /\ kind[p] # "dir" => WF_vars(ConsStep(p))
                       /\ WF_vars(DirClose(p))
-----------------------------------------------------------------------------
(* Properties.                                                             *)

(* The types of the variables.                                             *)
TypeOK ==
    /\ kind \in Uses
    /\ prod \in [Pipe -> ProdState]
    /\ fwd \in [Pipe -> FwdState]
    /\ cons \in [Pipe -> ConsState]
    /\ out \in [Pipe -> [Index -> Seq(Nat)]]
    /\ cancelled \in [Pipe -> BOOLEAN]
    /\ slots \subseteq Pipe \X {"prod", "cons"}

Expected(p, i) == IF LimitOf(p) > 0 THEN MinOf(LimitOf(p), NDocs[i]) ELSE NDocs[i]

(* Whatever fails or is cancelled, a consumer receives of every index a    *)
(* prefix of its documents in sort order: paging with search_after and the *)
(* hand-over through two goroutines lose, repeat and reorder nothing.      *)
InOrder ==
    \A p \in Pipe, i \in Index :
        LET n == Len(out[p][i]) IN
        n <= Expected(p, i) /\ out[p][i] = [k \in 1..n |-> k]

(* A listing or a ranked search that reports no error was complete, up to  *)
(* the limit.                                                              *)
CompleteOnSuccess ==
    \A p \in Pipe :
        kind[p] \in {"readdir", "ls", "search"} /\ cons[p].pc = "returned" /\ cons[p].rc = 0 =>
            \A i \in 1..LastIndex(p) : Len(out[p][i]) = Expected(p, i)

(* The point in time that a producer is paging through.                    *)
Held(P) == IF P.pc \in {"query", "emit", "close"} THEN {P.idx} ELSE {}

(* However paging ends (exhausted, failed, cancelled, at its limit), a     *)
(* producer that has ended or gone on to another index has asked for the   *)
(* closing of every point in time it was given, unless closePIT's own time *)
(* ran out before it had a slot to ask with (best effort, search.go:55).   *)
PitsReleased == \A p \in Pipe : prod[p].pits \subseteq prod[p].left \cup Held(prod[p])

(* Who is not waiting for anyone, or has somebody at the other end of the  *)
(* channel: the guards of the producer, the forwarder and the consumer.    *)
ProdReady(p) ==
    /\ prod[p].pc = "emit"
    /\ cancelled[p] \/ fwd[p].pc = "recv" \/ (~Forwarded(p) /\ cons[p].pc = "recv")

FwdReady(p) ==
    \/ fwd[p].pc = "recv" /\ prod[p].pc = "done"
    \/ fwd[p].pc \in {"virtual", "send"} /\ (cancelled[p] \/ cons[p].pc = "recv")

ConsReady(p) ==
    \/ cons[p].pc = "recv" /\ Drained(p)
    \/ cons[p].pc = "errf" /\ prod[p].pc = "done"
    \/ cons[p].pc = "eof" /\ kind[p] = "dir"

Ended(p) ==
    /\ prod[p].pc = "done" /\ fwd[p].pc = "done" /\ cons[p].pc \in {"returned", "closed"}

(* The exact fallback has left the loop over a stream that has more hits.  *)
OverCap(p) ==
    /\ kind[p] = "exact" /\ cons[p].pc = "errf" /\ cons[p].fetched >= MaxExact
    /\ prod[p].pc = "emit"

(* Nobody waits for good: a slot is only held while its request is being   *)
(* answered, so waiting for slots is not waiting in a circle, and every    *)
(* stream has ended, has a request to make, or somebody ready to go on.    *)
(* Only the exact fallback over its cap hangs (run HitStreamExactCap).     *)
NoneStuck ==
    /\ \A p \in Pipe, who \in {"prod", "cons"} : <<p, who>> \in slots => Requesting(p, who)
    /\ \A p \in Pipe :
          \/ Ended(p) \/ OverCap(p)
          \/ Requesting(p, "prod") \/ Requesting(p, "cons")
          \/ ProdReady(p) \/ FwdReady(p) \/ ConsReady(p)

(* Every command returns, and no goroutine outlives its stream, although   *)
(* requests fail, directories are closed half-read and all streams share   *)
(* the slots of one semaphore.                                             *)
StreamsEnd ==
    \A p \in Pipe : <>[]Ended(p)
=============================================================================
