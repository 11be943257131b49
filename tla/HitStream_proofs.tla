--------------------------- MODULE HitStream_proofs ---------------------------
(***************************************************************************)
(* Proofs about HitStream, for any number of streams, of indices and of    *)
(* documents, any page size, limit and semaphore: what a consumer has      *)
(* received is always a prefix in order, a listing that reports no error   *)
(* was complete, points in time are closed, and nobody waits or goes on    *)
(* for good.                                                               *)
(***************************************************************************)
EXTENDS HitStream, TLAPS, SequenceTheorems

Upto(n) == [k \in 1..n |-> k]

(* The use that is made of a stream, as functions of its kind.             *)
Capped(K) == IF K = "search" THEN Limit ELSE 0
Fw(K) == K \in {"dir", "readdir"}
Last(K) == IF Fw(K) THEN 1 ELSE Len(NDocs)
Due(K, i) == IF Capped(K) > 0 THEN MinOf(Capped(K), NDocs[i]) ELSE NDocs[i]

-----------------------------------------------------------------------------
(* What holds of a stream of kind K: its producer P, forwarder F and       *)
(* consumer C, its output O, and whether its context is cancelled (x).     *)

Typed(K, P, F, C, O, x) ==
    /\ K \in Kinds /\ P \in ProdState /\ F \in FwdState /\ C \in ConsState
    /\ O \in [Index -> Seq(Nat)] /\ x \in BOOLEAN

(* The pages: after counts what was emitted of the index at hand, and a    *)
(* producer that stops on its own has emitted all that is due.             *)
Paging(K, P, x) ==
    /\ P.count = P.after /\ P.after <= NDocs[P.idx]
    /\ P.pc = "emit" => P.after < P.hi /\ P.hi <= NDocs[P.idx]
    /\ Capped(K) > 0 => /\ P.after <= Capped(K)
                        /\ P.pc \in {"open", "query", "emit"} => P.after < Capped(K)
    /\ P.pits \subseteq P.left \cup Held(P)
    /\ P.pc \in {"close", "done"} /\ ~P.err /\ ~x => P.after = Due(K, P.idx)
    /\ K = "search" /\ P.pc = "done" /\ ~P.err => P.idx = Len(NDocs)
    /\ Fw(K) => P.idx = 1
    /\ x => K = "dir"

(* The hand-over: nothing is between producer and consumer but the entry   *)
(* that the forwarder holds, which is lost only if the directory is closed. *)
Handover(K, P, F, C, O, x) ==
    /\ ~Fw(K) => F.pc = "done" /\ Len(O[P.idx]) = P.after
    /\ Fw(K) =>
          /\ F.pc \in {"virtual", "recv"} => Len(O[1]) = P.after
          /\ F.pc = "send" => F.item = P.after /\ Len(O[1]) + 1 = P.after
          /\ F.pc = "done" => Len(O[1]) <= P.after /\ (~x => Len(O[1]) = P.after)
          /\ C.pc \in {"errf", "returned"} => F.pc = "done"
    /\ F.pc = "virtual" => F.virtual > 0
    /\ C.pc = "fetch" => K = "exact"

(* What was received, of indices before, at and after the one at hand.     *)
Output(K, P, C, O) ==
    \A i \in Index :
        /\ O[i] = Upto(Len(O[i])) /\ Len(O[i]) <= Due(K, i)
        /\ i > P.idx => O[i] = <<>>
        /\ i < P.idx /\ K \in {"ls", "search"} /\ C.rc = 0 => Len(O[i]) = Due(K, i)

(* Success is returned by a consumer whose last stream has ended well.     *)
Success(K, P, C) ==
    C.pc = "returned" /\ C.rc = 0 /\ K # "exact" => P.pc = "done" /\ ~P.err /\ P.idx = Last(K)

Good(K, P, F, C, O, x) ==
    /\ Typed(K, P, F, C, O, x) /\ Paging(K, P, x) /\ Handover(K, P, F, C, O, x)
    /\ Output(K, P, C, O) /\ Success(K, P, C)

Inv ==
    /\ TypeOK
    /\ \A p \in Pipe : Good(kind[p], prod[p], fwd[p], cons[p], out[p], cancelled[p])

-----------------------------------------------------------------------------
(* Data.                                                                   *)

LEMMA NDocsFacts ==
    /\ Len(NDocs) \in Nat \ {0} /\ 1 \in Index
    /\ \A i \in Index : i \in Nat /\ NDocs[i] \in Nat
BY NDocsAssumption, EmptySeq, LenProperties, ElementOfSeq DEF Index

LEMMA DueFacts ==
    ASSUME NEW K \in Kinds, NEW i \in Index
    PROVE  /\ Capped(K) \in Nat /\ Due(K, i) \in Nat
           /\ Due(K, i) <= NDocs[i] /\ (Capped(K) > 0 => Due(K, i) <= Capped(K))
           /\ (Due(K, i) = NDocs[i] \/ (Capped(K) > 0 /\ Due(K, i) = Capped(K)))
<1>1. Capped(K) \in Nat
      BY BoundsAssumption DEF Capped
<1>2. NDocs[i] \in Nat
      BY NDocsFacts
<1> QED BY <1>1, <1>2 DEF Due, MinOf

LEMMA UptoAppend ==
    ASSUME NEW n \in Nat
    PROVE  /\ Upto(n) \in Seq(Nat) /\ Len(Upto(n)) = n
           /\ Append(Upto(n), n + 1) = Upto(n + 1)
<1>1. ASSUME NEW m \in Nat
      PROVE  Upto(m) \in Seq(Nat) /\ Len(Upto(m)) = m
  <2>1. Upto(m) \in [1..m -> Nat]
        BY DEF Upto
  <2>2. Upto(m) \in Seq(Nat)
        BY <2>1, SeqDef
  <2>3. DOMAIN Upto(m) = 1..m
        BY DEF Upto
  <2> QED BY <2>2, <2>3, LenProperties
<1>2. PICK s : s = Upto(n)
      OBVIOUS
<1>3. s \in Seq(Nat) /\ Len(s) = n /\ n + 1 \in Nat
      BY <1>1, <1>2
<1>4. /\ Append(s, n + 1) \in Seq(Nat) /\ Len(Append(s, n + 1)) = n + 1
      /\ \A k \in 1..n : Append(s, n + 1)[k] = s[k]
      /\ Append(s, n + 1)[n + 1] = n + 1
      BY <1>3, AppendProperties
<1>5. Upto(n + 1) \in Seq(Nat) /\ Len(Upto(n + 1)) = n + 1
      BY <1>1
<1>6. ASSUME NEW k \in 1..(n + 1)
      PROVE  Append(s, n + 1)[k] = Upto(n + 1)[k]
      BY <1>2, <1>4 DEF Upto
<1>7. Append(s, n + 1) = Upto(n + 1)
      BY <1>4, <1>5, <1>6, SeqEqual
<1> QED BY <1>1, <1>2, <1>7

-----------------------------------------------------------------------------
(* A step of one stream.                                                   *)

Turns(p, P, F, C, O, x) ==
    /\ prod' = [prod EXCEPT ![p] = P] /\ fwd' = [fwd EXCEPT ![p] = F]
    /\ cons' = [cons EXCEPT ![p] = C] /\ out' = [out EXCEPT ![p] = O]
    /\ cancelled' = [cancelled EXCEPT ![p] = x]

LEMMA StreamStep ==
    ASSUME Inv, NEW p \in Pipe, NEW P, NEW F, NEW C, NEW O, NEW x,
           Good(kind[p], P, F, C, O, x), Turns(p, P, F, C, O, x), UNCHANGED kind,
           slots' \subseteq Pipe \X {"prod", "cons"}
    PROVE  Inv'
<1>1. P \in ProdState /\ F \in FwdState /\ C \in ConsState /\ O \in [Index -> Seq(Nat)] /\ x \in BOOLEAN
      BY DEF Good, Typed
<1>2. TypeOK'
      BY <1>1 DEF Inv, TypeOK, Turns
<1>3. ASSUME NEW q \in Pipe
      PROVE  Good(kind'[q], prod'[q], fwd'[q], cons'[q], out'[q], cancelled'[q])
  <2>1. CASE q = p
        BY <2>1 DEF Inv, TypeOK, Turns
  <2>2. CASE q # p
    <3>1. /\ prod'[q] = prod[q] /\ fwd'[q] = fwd[q] /\ cons'[q] = cons[q]
          /\ out'[q] = out[q] /\ cancelled'[q] = cancelled[q]
          BY <2>2 DEF Inv, TypeOK, Turns
    <3> QED BY <3>1 DEF Inv
  <2> QED BY <2>1, <2>2
<1>4. \A q \in Pipe : Good(kind[q], prod[q], fwd[q], cons[q], out[q], cancelled[q])'
  <2> SUFFICES ASSUME NEW q \in Pipe
               PROVE  Good(kind'[q], prod'[q], fwd'[q], cons'[q], out'[q], cancelled'[q])
      BY DEF Good, Typed, Paging, Handover, Output, Success, Capped, Fw, Last, Due
  <2> QED BY <1>3
<1> QED BY <1>2, <1>4 DEF Inv
(* A variable that a step leaves alone keeps its value at p.               *)
LEMMA Now ==
    ASSUME Inv, NEW p \in Pipe
    PROVE  /\ Good(kind[p], prod[p], fwd[p], cons[p], out[p], cancelled[p])
           /\ prod = [prod EXCEPT ![p] = prod[p]] /\ fwd = [fwd EXCEPT ![p] = fwd[p]]
           /\ cons = [cons EXCEPT ![p] = cons[p]] /\ out = [out EXCEPT ![p] = out[p]]
           /\ cancelled = [cancelled EXCEPT ![p] = cancelled[p]]
           /\ slots \subseteq Pipe \X {"prod", "cons"}
BY DEF Inv, TypeOK

LEMMA FieldsTyped ==
    /\ \A P \in ProdState : /\ P.pc \in {"open", "query", "emit", "close", "done"}
                            /\ P.idx \in Index /\ P.after \in Nat /\ P.hi \in Nat
                            /\ P.count \in Nat /\ P.err \in BOOLEAN
                            /\ P.pits \in SUBSET Index /\ P.left \in SUBSET Index
    /\ \A F \in FwdState : /\ F.pc \in {"virtual", "recv", "send", "done"}
                           /\ F.virtual \in 0..4 /\ F.item \in Nat
    /\ \A C \in ConsState : /\ C.pc \in {"recv", "fetch", "errf", "eof", "closed", "returned"}
                            /\ C.fetched \in Nat /\ C.rc \in {0, 2}
BY DEF ProdState, FwdState, ConsState

-----------------------------------------------------------------------------
(* The producer.                                                           *)

(* A step that changes the producer of p alone.                            *)
LEMMA ProducerTurns ==
    ASSUME Inv, NEW p \in Pipe, NEW Q, Q \in ProdState,
           prod' = [prod EXCEPT ![p] = Q], UNCHANGED <<kind, fwd, cons, out, cancelled>>,
           slots' \subseteq slots,
           Paging(kind[p], Q, cancelled[p]),
           Handover(kind[p], Q, fwd[p], cons[p], out[p], cancelled[p]),
           Output(kind[p], Q, cons[p], out[p]), Success(kind[p], Q, cons[p])
    PROVE  Inv'
<1>1. Good(kind[p], Q, fwd[p], cons[p], out[p], cancelled[p])
      BY Now DEF Good, Typed
<1>2. Turns(p, Q, fwd[p], cons[p], out[p], cancelled[p])
      BY Now DEF Turns
<1> QED BY <1>1, <1>2, Now, StreamStep

(* ... and that keeps what it has emitted, and of which index.             *)
LEMMA ProducerMoves ==
    ASSUME Inv, NEW p \in Pipe, NEW Q, Q \in ProdState,
           prod' = [prod EXCEPT ![p] = Q], UNCHANGED <<kind, fwd, cons, out, cancelled>>,
           slots' \subseteq slots,
           prod[p].pc # "done", Q.idx = prod[p].idx, Q.after = prod[p].after,
           Paging(kind[p], Q, cancelled[p])
    PROVE  Inv'
<1>1. Handover(kind[p], Q, fwd[p], cons[p], out[p], cancelled[p])
      BY Now DEF Good, Handover
<1>2. Output(kind[p], Q, cons[p], out[p])
      BY Now DEF Good, Output
<1>3. Success(kind[p], Q, cons[p])
      BY Now DEF Good, Success
<1> QED BY <1>1, <1>2, <1>3, ProducerTurns

LEMMA ProdFailKeeps ==
    ASSUME Inv, NEW p \in Pipe, ProdFail(p)
    PROVE  Inv'
<1>1. PICK P : P = prod[p]
      OBVIOUS
<1>2. PICK Q : Q = [P EXCEPT !.err = TRUE, !.pc = IF P.pc = "open" THEN "done" ELSE "close"]
      OBVIOUS
<1>3. P \in ProdState /\ P.pc \in {"open", "query"} /\ Paging(kind[p], P, cancelled[p])
      BY <1>1, Now DEF Good, Typed, ProdFail
<1>4. /\ Q \in ProdState /\ Q.idx = P.idx /\ Q.after = P.after /\ Q.count = P.count
      /\ Q.pits = P.pits /\ Q.left = P.left /\ Q.err /\ Q.pc = IF P.pc = "open" THEN "done" ELSE "close"
      BY <1>2, <1>3 DEF ProdState
<1>5. prod' = [prod EXCEPT ![p] = Q]
      BY <1>1, <1>2 DEF ProdFail
<1>6. Paging(kind[p], Q, cancelled[p])
      BY <1>3, <1>4 DEF Paging, Held
<1> QED BY <1>1, <1>3, <1>4, <1>5, <1>6, ProducerMoves DEF ProdFail, Release

LEMMA OpenPITKeeps ==
    ASSUME Inv, NEW p \in Pipe, OpenPIT(p)
    PROVE  Inv'
<1>1. PICK P : P = prod[p]
      OBVIOUS
<1>2. PICK Q : Q = [P EXCEPT !.pc = "query", !.pits = P.pits \cup {P.idx}]
      OBVIOUS
<1>3. P \in ProdState /\ P.pc = "open" /\ Paging(kind[p], P, cancelled[p])
      BY <1>1, Now DEF Good, Typed, OpenPIT
<1>4. /\ Q \in ProdState /\ Q.idx = P.idx /\ Q.after = P.after /\ Q.count = P.count
      /\ Q.pits = P.pits \cup {P.idx} /\ Q.left = P.left /\ Q.err = P.err /\ Q.pc = "query"
      BY <1>2, <1>3 DEF ProdState
<1>5. prod' = [prod EXCEPT ![p] = Q]
      BY <1>1, <1>2 DEF OpenPIT
<1>6. Paging(kind[p], Q, cancelled[p])
      BY <1>3, <1>4 DEF Paging, Held
<1> QED BY <1>1, <1>3, <1>4, <1>5, <1>6, ProducerMoves DEF OpenPIT, Release

LEMMA EmitCancelledKeeps ==
    ASSUME Inv, NEW p \in Pipe, EmitCancelled(p)
    PROVE  Inv'
<1>1. PICK P : P = prod[p]
      OBVIOUS
<1>2. PICK Q : Q = [P EXCEPT !.pc = "close"]
      OBVIOUS
<1>3. P \in ProdState /\ P.pc = "emit" /\ cancelled[p] /\ Paging(kind[p], P, cancelled[p])
      BY <1>1, Now DEF Good, Typed, EmitCancelled
<1>4. /\ Q \in ProdState /\ Q.idx = P.idx /\ Q.after = P.after /\ Q.count = P.count
      /\ Q.pits = P.pits /\ Q.left = P.left /\ Q.err = P.err /\ Q.pc = "close"
      BY <1>2, <1>3 DEF ProdState
<1>5. prod' = [prod EXCEPT ![p] = Q]
      BY <1>1, <1>2 DEF EmitCancelled
<1>6. Paging(kind[p], Q, cancelled[p])
      BY <1>3, <1>4 DEF Paging, Held
<1> QED BY <1>1, <1>3, <1>4, <1>5, <1>6, ProducerMoves DEF EmitCancelled

(* A page that is empty ends the stream: all that is due was emitted.      *)
LEMMA QueryKeeps ==
    ASSUME Inv, NEW p \in Pipe, Query(p)
    PROVE  Inv'
<1>1. PICK P : P = prod[p]
      OBVIOUS
<1>2. PICK K : K = kind[p]
      OBVIOUS
<1>3. PICK hi : hi = MinOf(P.after + PageSize, NDocs[P.idx])
      OBVIOUS
<1>4. PICK Q : Q = [P EXCEPT !.hi = hi, !.pc = IF hi = P.after THEN "close" ELSE "emit"]
      OBVIOUS
<1>5. /\ P \in ProdState /\ K \in Kinds /\ P.pc = "query" /\ Paging(K, P, cancelled[p])
      BY <1>1, <1>2, Now DEF Good, Typed, Query
<1>6. /\ P.idx \in Index /\ P.after \in Nat /\ NDocs[P.idx] \in Nat
      /\ PageSize \in Nat \ {0} /\ P.after <= NDocs[P.idx]
      BY <1>5, FieldsTyped, NDocsFacts, BoundsAssumption DEF Paging
<1>7. /\ hi \in Nat /\ P.after <= hi /\ hi <= NDocs[P.idx]
      /\ hi = P.after => P.after = NDocs[P.idx]
      BY <1>3, <1>6 DEF MinOf
<1>8. /\ Q \in ProdState /\ Q.idx = P.idx /\ Q.after = P.after /\ Q.count = P.count /\ Q.hi = hi
      /\ Q.pits = P.pits /\ Q.left = P.left /\ Q.err = P.err /\ Q.pc = IF hi = P.after THEN "close" ELSE "emit"
      BY <1>4, <1>5, <1>7 DEF ProdState
<1>9. prod' = [prod EXCEPT ![p] = Q]
      BY <1>1, <1>3, <1>4 DEF Query
<1>10. /\ Capped(K) \in Nat /\ Due(K, P.idx) \in Nat
       /\ Capped(K) > 0 => P.after < Capped(K)
       BY <1>5, <1>6, DueFacts DEF Paging
<1>11. P.after = NDocs[P.idx] => P.after = Due(K, P.idx)
       BY <1>6, <1>10 DEF Due, MinOf
<1>12. Paging(K, Q, cancelled[p])
       BY <1>5, <1>6, <1>7, <1>8, <1>10, <1>11 DEF Paging, Held
<1> QED BY <1>1, <1>2, <1>5, <1>8, <1>9, <1>12, ProducerMoves DEF Query, Release
LEMMA FirstPage ==
    ASSUME NEW K \in Kinds, NEW i \in Index, NEW x \in BOOLEAN, x => K = "dir", Fw(K) => i = 1,
           NEW s, NEW l, s \subseteq l, l \subseteq Index
    PROVE  /\ StreamOf(i, s, l) \in ProdState /\ Paging(K, StreamOf(i, s, l), x)
           /\ StreamOf(i, s, l).idx = i /\ StreamOf(i, s, l).after = 0
           /\ StreamOf(i, s, l).pc = "open"
<1>1. PICK P : P = StreamOf(i, s, l)
      OBVIOUS
<1>2. /\ P \in ProdState /\ P.pc = "open" /\ P.idx = i /\ P.after = 0 /\ P.count = 0
      /\ P.pits = s /\ P.left = l /\ P.err = FALSE
      BY <1>1 DEF StreamOf, ProdState
<1>3. Capped(K) \in Nat /\ NDocs[i] \in Nat
      BY DueFacts, NDocsFacts
<1>4. Paging(K, P, x)
      BY <1>2, <1>3 DEF Paging
<1> QED BY <1>1, <1>2, <1>4

(* A ranked search goes on to its next index only when the one at hand is  *)
(* exhausted or has reached the limit.                                     *)
LEMMA NextOrDoneKeeps ==
    ASSUME Inv, NEW p \in Pipe, prod[p].pc = "close",
           NEW s \in SUBSET Index, NEW l \in SUBSET Index, s \subseteq l,
           prod' = [prod EXCEPT ![p] = NextOrDone(p, s, l)],
           UNCHANGED <<kind, fwd, cons, out, cancelled>>, slots' \subseteq slots
    PROVE  Inv'
<1>1. PICK P : P = prod[p]
      OBVIOUS
<1>2. PICK K, F, C, O, x : K = kind[p] /\ F = fwd[p] /\ C = cons[p] /\ O = out[p] /\ x = cancelled[p]
      OBVIOUS
<1>3. P.pc = "close" /\ Good(K, P, F, C, O, x)
      BY <1>1, <1>2, Now
<1>4. /\ P \in ProdState /\ K \in Kinds /\ x \in BOOLEAN /\ O \in [Index -> Seq(Nat)]
      /\ P.idx \in Index /\ P.after \in Nat
      BY <1>3, FieldsTyped DEF Good, Typed
<1>5. CASE K = "search" /\ ~P.err /\ P.idx < Len(NDocs)
  <2>1. PICK Q : Q = StreamOf(P.idx + 1, s, l)
        OBVIOUS
  <2>2. P.idx + 1 \in Index /\ ~Fw(K) /\ ~x
        BY <1>3, <1>4, <1>5, NDocsFacts DEF Index, Fw, Good, Paging
  <2>3. /\ Q \in ProdState /\ Paging(K, Q, x)
        /\ Q.idx = P.idx + 1 /\ Q.after = 0 /\ Q.pc = "open"
    <3>1. PICK i : i = P.idx + 1
          OBVIOUS
    <3>2. /\ i \in Index /\ K \in Kinds /\ x \in BOOLEAN /\ (x => K = "dir") /\ (Fw(K) => i = 1)
          /\ s \subseteq l /\ l \subseteq Index
          BY <1>4, <2>2, <3>1
    <3>3. /\ StreamOf(i, s, l) \in ProdState /\ Paging(K, StreamOf(i, s, l), x)
          /\ StreamOf(i, s, l).idx = i /\ StreamOf(i, s, l).after = 0
          /\ StreamOf(i, s, l).pc = "open"
          BY <3>2, FirstPage
    <3>4. Q = StreamOf(i, s, l)
          BY <2>1, <3>1
    <3> QED BY <3>1, <3>3, <3>4
  <2>4. prod' = [prod EXCEPT ![p] = Q]
        BY <1>1, <1>2, <1>5, <2>1 DEF NextOrDone
  <2>5. P.idx + 1 > P.idx /\ O[P.idx + 1] = <<>> /\ Len(O[P.idx]) = Due(K, P.idx)
    <3>1. P.idx + 1 > P.idx
          BY <1>4 DEF Index
    <3>2. O[P.idx + 1] = <<>>
          BY <1>3, <2>2, <3>1 DEF Good, Output
    <3>3. Len(O[P.idx]) = P.after /\ P.after = Due(K, P.idx)
          BY <1>3, <1>5, <2>2 DEF Good, Handover, Paging
    <3> QED BY <3>1, <3>2, <3>3
  <2>6. Handover(K, Q, F, C, O, x)
        BY <1>3, <2>2, <2>3, <2>5 DEF Good, Handover
  <2>7. Output(K, Q, C, O)
    <3>1. ASSUME NEW i \in Index, i > P.idx + 1
          PROVE  i > P.idx
          BY <3>1, <1>4 DEF Index
    <3>2. ASSUME NEW i \in Index, i < P.idx + 1
          PROVE  i = P.idx \/ i < P.idx
          BY <3>2, <1>4 DEF Index
    <3> QED BY <1>3, <2>3, <2>5, <3>1, <3>2 DEF Good, Output
  <2>8. Success(K, Q, C)
        BY <1>3 DEF Good, Success
  <2> QED BY <1>1, <1>2, <2>3, <2>4, <2>6, <2>7, <2>8, ProducerTurns
<1>6. CASE ~(K = "search" /\ ~P.err /\ P.idx < Len(NDocs))
  <2>1. PICK Q : Q = [P EXCEPT !.pc = "done", !.pits = s, !.left = l]
        OBVIOUS
  <2>2. /\ Q \in ProdState /\ Q.idx = P.idx /\ Q.after = P.after /\ Q.count = P.count
        /\ Q.pits = s /\ Q.left = l /\ Q.err = P.err /\ Q.pc = "done"
        BY <2>1, <1>4 DEF ProdState
  <2>3. prod' = [prod EXCEPT ![p] = Q]
        BY <1>1, <1>2, <1>6, <2>1 DEF NextOrDone
  <2>4. K = "search" /\ ~P.err => P.idx = Len(NDocs)
        BY <1>4, <1>6, NDocsFacts DEF Index
  <2>5. Paging(K, Q, x)
        BY <1>3, <2>2, <2>4 DEF Good, Paging
  <2> QED BY <1>1, <1>2, <1>3, <2>2, <2>3, <2>5, ProducerMoves
<1> QED BY <1>5, <1>6

(* Asked to close the point in time at hand, or out of time to ask.        *)
LEMMA ClosePITKeeps ==
    ASSUME Inv, NEW p \in Pipe, ClosePIT(p) \/ CloseTimeout(p)
    PROVE  Inv'
<1>1. /\ prod[p].idx \in Index /\ prod[p].pits \in SUBSET Index /\ prod[p].left \in SUBSET Index
      /\ prod[p].pc = "close" /\ prod[p].pits \subseteq prod[p].left \cup {prod[p].idx}
      BY Now, FieldsTyped DEF Good, Typed, Paging, Held, ClosePIT, CloseTimeout
<1>2. CASE ClosePIT(p)
  <2>1. /\ prod[p].pits \ {prod[p].idx} \in SUBSET Index
        /\ prod[p].pits \ {prod[p].idx} \subseteq prod[p].left
        BY <1>1
  <2> QED BY <1>1, <1>2, <2>1, NextOrDoneKeeps DEF ClosePIT, Release
<1>3. CASE CloseTimeout(p)
  <2>1. prod[p].left \cup {prod[p].idx} \in SUBSET Index
        BY <1>1
  <2> QED BY <1>1, <1>3, <2>1, NextOrDoneKeeps DEF CloseTimeout
<1> QED BY <1>2, <1>3

(* The producer after a hit was taken from it: it is one document further, *)
(* within what is due, and stops where nothing more is due.                *)
LEMMA EmittedFacts ==
    ASSUME Inv, NEW p \in Pipe, prod[p].pc = "emit"
    PROVE  /\ Emitted(p) \in ProdState /\ Emitted(p).idx = prod[p].idx
           /\ Emitted(p).after = prod[p].after + 1
           /\ prod[p].after + 1 <= Due(kind[p], prod[p].idx)
           /\ Paging(kind[p], Emitted(p), cancelled[p])
<1>1. PICK P, K, x : P = prod[p] /\ K = kind[p] /\ x = cancelled[p]
      OBVIOUS
<1>2. PICK pc : pc = IF Capped(K) > 0 /\ P.count + 1 >= Capped(K) THEN "close"
                     ELSE IF P.after + 1 = P.hi THEN "query" ELSE "emit"
      OBVIOUS
<1>3. PICK Q : Q = [P EXCEPT !.after = P.after + 1, !.count = P.count + 1, !.pc = pc]
      OBVIOUS
<1>4. P \in ProdState /\ K \in Kinds /\ P.pc = "emit" /\ Paging(K, P, x)
      BY <1>1, Now DEF Good, Typed
<1>5. Q = Emitted(p)
      BY <1>1, <1>2, <1>3 DEF Emitted, LimitOf, Capped
<1>6. /\ P.idx \in Index /\ P.after \in Nat /\ P.count \in Nat /\ P.hi \in Nat /\ NDocs[P.idx] \in Nat
      /\ Capped(K) \in Nat
      BY <1>4, FieldsTyped, NDocsFacts, DueFacts
<1>7. /\ pc \in {"close", "query", "emit"} /\ pc \in {"open", "query", "emit", "close", "done"}
      /\ P.after + 1 \in Nat /\ P.count + 1 \in Nat
      BY <1>2, <1>6
<1>8. /\ Q \in ProdState /\ Q.idx = P.idx /\ Q.after = P.after + 1 /\ Q.count = P.count + 1
      /\ Q.hi = P.hi /\ Q.pits = P.pits /\ Q.left = P.left /\ Q.err = P.err /\ Q.pc = pc
      BY <1>3, <1>4, <1>7 DEF ProdState
<1>9. P.count = P.after /\ P.after < P.hi /\ P.hi <= NDocs[P.idx] /\ (Capped(K) > 0 => P.after < Capped(K))
      BY <1>4 DEF Paging
<1>10. P.after + 1 <= NDocs[P.idx] /\ (Capped(K) > 0 => P.after + 1 <= Capped(K))
       BY <1>6, <1>9
<1>11. P.after + 1 <= Due(K, P.idx)
       BY <1>6, <1>10 DEF Due, MinOf
<1>12. pc = "close" => P.after + 1 = Due(K, P.idx)
       BY <1>2, <1>6, <1>9, <1>10 DEF Due, MinOf
<1>13. pc = "emit" => P.after + 1 < P.hi
       BY <1>2, <1>6, <1>9
<1>14. Capped(K) > 0 /\ pc \in {"query", "emit"} => P.after + 1 < Capped(K)
       BY <1>2, <1>6, <1>9
<1>15. Paging(K, Q, x)
       BY <1>4, <1>6, <1>7, <1>8, <1>9, <1>10, <1>12, <1>13, <1>14 DEF Paging, Held
<1> QED BY <1>1, <1>5, <1>8, <1>11, <1>15

-----------------------------------------------------------------------------
(* The forwarding goroutine.                                               *)

(* The entry in hand is the one document that the producer has emitted and *)
(* the consumer has not received.                                          *)
LEMMA FwdReceiveKeeps ==
    ASSUME Inv, NEW p \in Pipe, FwdReceive(p)
    PROVE  Inv'
<1>1. PICK K, P, F, C, O, x : /\ K = kind[p] /\ P = prod[p] /\ F = fwd[p] /\ C = cons[p]
                              /\ O = out[p] /\ x = cancelled[p]
      OBVIOUS
<1>2. PICK G : G = [F EXCEPT !.pc = "send", !.item = P.after + 1]
      OBVIOUS
<1>3. PICK Q : Q = Emitted(p)
      OBVIOUS
<1>4. P.pc = "emit" /\ F.pc = "recv" /\ Good(K, P, F, C, O, x)
      BY <1>1, Now DEF FwdReceive
<1>5. F \in FwdState /\ P.after \in Nat /\ P.after + 1 \in Nat /\ K \in Kinds
      BY <1>4, FieldsTyped DEF Good, Typed
<1>6. /\ Q \in ProdState /\ Q.idx = P.idx /\ Q.after = P.after + 1 /\ Paging(K, Q, x)
      BY <1>1, <1>3, <1>4, EmittedFacts
<1>7. G \in FwdState /\ G.pc = "send" /\ G.item = P.after + 1
      BY <1>2, <1>5 DEF FwdState
<1>8. Fw(K) /\ Len(O[1]) = P.after /\ C.pc \notin {"errf", "returned"}
      BY <1>4 DEF Good, Handover
<1>9. Handover(K, Q, G, C, O, x)
      BY <1>4, <1>6, <1>7, <1>8 DEF Good, Handover
<1>10. Output(K, Q, C, O) /\ Success(K, Q, C)
       BY <1>4, <1>6, <1>8 DEF Good, Output, Success
<1>11. Good(K, Q, G, C, O, x)
       BY <1>4, <1>6, <1>7, <1>9, <1>10 DEF Good, Typed
<1>12. Turns(p, Q, G, C, O, x)
       BY <1>1, <1>2, <1>3, Now DEF Turns, FwdReceive
<1> QED BY <1>1, <1>11, <1>12, Now, StreamStep DEF FwdReceive

(* A step that changes the forwarder of p alone.                           *)
LEMMA ForwarderTurns ==
    ASSUME Inv, NEW p \in Pipe, NEW G, G \in FwdState,
           fwd' = [fwd EXCEPT ![p] = G], UNCHANGED <<kind, prod, cons, out, cancelled, slots>>,
           Handover(kind[p], prod[p], G, cons[p], out[p], cancelled[p])
    PROVE  Inv'
<1>1. Good(kind[p], prod[p], G, cons[p], out[p], cancelled[p])
      BY Now DEF Good, Typed
<1>2. Turns(p, prod[p], G, cons[p], out[p], cancelled[p])
      BY Now DEF Turns
<1> QED BY <1>1, <1>2, Now, StreamStep

LEMMA FwdEndKeeps ==
    ASSUME Inv, NEW p \in Pipe, FwdEnd(p)
    PROVE  Inv'
<1>1. PICK F : F = fwd[p]
      OBVIOUS
<1>2. PICK G : G = [F EXCEPT !.pc = "done"]
      OBVIOUS
<1>3. /\ F \in FwdState /\ F.pc \in {"recv", "send"} /\ (F.pc = "send" => cancelled[p])
      /\ Handover(kind[p], prod[p], F, cons[p], out[p], cancelled[p])
      /\ prod[p] \in ProdState /\ out[p] \in [Index -> Seq(Nat)]
      BY <1>1, Now DEF Good, Typed, FwdEnd
<1>4. G \in FwdState /\ G.pc = "done"
      BY <1>2, <1>3 DEF FwdState
<1>5. prod[p].after \in Nat /\ Len(out[p][1]) \in Nat
      BY <1>3, FieldsTyped, NDocsFacts, LenProperties
<1>6. Handover(kind[p], prod[p], G, cons[p], out[p], cancelled[p])
      BY <1>3, <1>4, <1>5 DEF Handover
<1>7. fwd' = [fwd EXCEPT ![p] = G]
      BY <1>1, <1>2 DEF FwdEnd
<1> QED BY <1>4, <1>6, <1>7, ForwarderTurns DEF FwdEnd

(* A virtual file is sent, or skipped because the directory is closed.     *)
LEMMA VirtualKeeps ==
    ASSUME Inv, NEW p \in Pipe, FwdSkipVirtual(p) \/ ReceiveVirtual(p)
    PROVE  Inv'
<1>1. PICK F : F = fwd[p]
      OBVIOUS
<1>2. PICK G : G = [F EXCEPT !.virtual = F.virtual - 1, !.pc = IF F.virtual = 1 THEN "recv" ELSE "virtual"]
      OBVIOUS
<1>3. /\ F \in FwdState /\ F.pc = "virtual"
      /\ Handover(kind[p], prod[p], F, cons[p], out[p], cancelled[p])
      BY <1>1, Now DEF Good, Typed, FwdSkipVirtual, ReceiveVirtual
<1>4. F.virtual \in 1..4 /\ F.virtual - 1 \in 0..4
      BY <1>3, FieldsTyped DEF Handover
<1>5. /\ G \in FwdState /\ G.virtual = F.virtual - 1
      /\ G.pc = IF F.virtual = 1 THEN "recv" ELSE "virtual"
      BY <1>2, <1>3, <1>4 DEF FwdState
<1>6. Handover(kind[p], prod[p], G, cons[p], out[p], cancelled[p])
      BY <1>3, <1>4, <1>5 DEF Handover
<1>7. fwd' = [fwd EXCEPT ![p] = G]
      BY <1>1, <1>2 DEF FwdSkipVirtual, ReceiveVirtual, NextVirtual
<1> QED BY <1>5, <1>6, <1>7, ForwarderTurns DEF FwdSkipVirtual, ReceiveVirtual

-----------------------------------------------------------------------------
(* The consumers.                                                          *)

Longer(O, i, n) == [O EXCEPT ![i] = Append(O[i], n + 1)]

(* Receiving the next document of an index keeps its prefix in order.      *)
LEMMA Grows ==
    ASSUME NEW O, O \in [Index -> Seq(Nat)], NEW i \in Index, NEW n \in Nat,
           O[i] = Upto(Len(O[i])), Len(O[i]) = n
    PROVE  /\ Longer(O, i, n) \in [Index -> Seq(Nat)]
           /\ Longer(O, i, n)[i] = Upto(n + 1) /\ Len(Longer(O, i, n)[i]) = n + 1
           /\ \A j \in Index : j # i => Longer(O, i, n)[j] = O[j]
<1>1. PICK s : s = Append(O[i], n + 1)
      OBVIOUS
<1>2. s = Upto(n + 1) /\ s \in Seq(Nat) /\ Len(s) = n + 1
  <2>1. n + 1 \in Nat
        OBVIOUS
  <2> QED BY <1>1, <2>1, UptoAppend
<1>3. /\ Longer(O, i, n) \in [Index -> Seq(Nat)] /\ Longer(O, i, n)[i] = s
      /\ \A j \in Index : j # i => Longer(O, i, n)[j] = O[j]
      BY <1>1, <1>2 DEF Longer
<1> QED BY <1>2, <1>3

LEMMA ReceiveForwardedKeeps ==
    ASSUME Inv, NEW p \in Pipe, ReceiveForwarded(p)
    PROVE  Inv'
<1>1. PICK K, P, F, C, O, x : /\ K = kind[p] /\ P = prod[p] /\ F = fwd[p] /\ C = cons[p]
                              /\ O = out[p] /\ x = cancelled[p]
      OBVIOUS
<1>2. PICK G : G = [F EXCEPT !.pc = "recv"]
      OBVIOUS
<1>3. PICK n : n = Len(O[1])
      OBVIOUS
<1>4. PICK N : N = Longer(O, 1, n)
      OBVIOUS
<1>5. F.pc = "send" /\ C.pc = "recv" /\ Good(K, P, F, C, O, x)
      BY <1>1, Now DEF ReceiveForwarded
<1>6. /\ F \in FwdState /\ P \in ProdState /\ K \in Kinds /\ O \in [Index -> Seq(Nat)] /\ 1 \in Index
      BY <1>5, NDocsFacts DEF Good, Typed
<1>7. n \in Nat /\ P.after \in Nat
      BY <1>3, <1>6, FieldsTyped, LenProperties
<1>8. /\ Fw(K) /\ F.item = P.after /\ n + 1 = P.after /\ P.idx = 1
      BY <1>3, <1>5 DEF Good, Handover, Paging
<1>9. P.after <= Due(K, 1)
  <2>1. /\ P.after <= NDocs[1] /\ (Capped(K) > 0 => P.after <= Capped(K))
        BY <1>5, <1>8 DEF Good, Paging
  <2>2. Capped(K) \in Nat /\ NDocs[1] \in Nat
        BY <1>6, DueFacts, NDocsFacts
  <2> QED BY <1>7, <2>1, <2>2 DEF Due, MinOf
<1>10. O[1] = Upto(Len(O[1]))
       BY <1>5, <1>6 DEF Good, Output
<1>11. /\ N \in [Index -> Seq(Nat)] /\ N[1] = Upto(n + 1) /\ Len(N[1]) = n + 1
       /\ \A j \in Index : j # 1 => N[j] = O[j]
       BY <1>3, <1>4, <1>6, <1>7, <1>10, Grows
<1>12. G \in FwdState /\ G.pc = "recv"
       BY <1>2, <1>6 DEF FwdState
<1>13. Handover(K, P, G, C, N, x)
       BY <1>5, <1>8, <1>11, <1>12 DEF Good, Handover
<1>14. Output(K, P, C, N)
  <2> SUFFICES ASSUME NEW i \in Index
               PROVE  /\ N[i] = Upto(Len(N[i])) /\ Len(N[i]) <= Due(K, i)
                      /\ i > P.idx => N[i] = <<>>
                      /\ i < P.idx /\ K \in {"ls", "search"} /\ C.rc = 0 => Len(N[i]) = Due(K, i)
      BY DEF Output
  <2>1. CASE i = 1
        BY <2>1, <1>8, <1>9, <1>11
  <2>2. CASE i # 1
        BY <2>2, <1>5, <1>11 DEF Good, Output
  <2> QED BY <2>1, <2>2
<1>15. Good(K, P, G, C, N, x)
       BY <1>5, <1>11, <1>12, <1>13, <1>14 DEF Good, Typed
<1>16. Turns(p, P, G, C, N, x)
  <2>1. fwd' = [fwd EXCEPT ![p] = G]
        BY <1>1, <1>2 DEF ReceiveForwarded
  <2>2. out' = [out EXCEPT ![p] = N]
        BY <1>1, <1>4, <1>8 DEF ReceiveForwarded, Received, Longer
  <2> QED BY <1>1, <2>1, <2>2, Now DEF Turns, ReceiveForwarded
<1> QED BY <1>1, <1>15, <1>16, Now, StreamStep DEF ReceiveForwarded

LEMMA ReceiveKeeps ==
    ASSUME Inv, NEW p \in Pipe, Receive(p)
    PROVE  Inv'
<1>1. PICK K, P, F, C, O, x : /\ K = kind[p] /\ P = prod[p] /\ F = fwd[p] /\ C = cons[p]
                              /\ O = out[p] /\ x = cancelled[p]
      OBVIOUS
<1>2. PICK D : D = [C EXCEPT !.pc = IF K = "exact" THEN "fetch" ELSE "recv"]
      OBVIOUS
<1>3. PICK Q, n : Q = Emitted(p) /\ n = P.after
      OBVIOUS
<1>4. PICK N : N = Longer(O, P.idx, n)
      OBVIOUS
<1>5. P.pc = "emit" /\ C.pc = "recv" /\ Good(K, P, F, C, O, x) /\ ~Fw(K)
      BY <1>1, Now DEF Receive, Forwarded, Fw
<1>6. /\ C \in ConsState /\ P \in ProdState /\ K \in Kinds /\ O \in [Index -> Seq(Nat)]
      /\ P.idx \in Index /\ n \in Nat
      BY <1>3, <1>5, FieldsTyped DEF Good, Typed
<1>7. /\ Q \in ProdState /\ Q.idx = P.idx /\ Q.after = n + 1 /\ Paging(K, Q, x)
      /\ n + 1 <= Due(K, P.idx)
      BY <1>1, <1>3, <1>5, EmittedFacts
<1>8. F.pc = "done" /\ Len(O[P.idx]) = n /\ O[P.idx] = Upto(Len(O[P.idx]))
      BY <1>3, <1>5, <1>6 DEF Good, Handover, Output
<1>9. /\ N \in [Index -> Seq(Nat)] /\ N[P.idx] = Upto(n + 1) /\ Len(N[P.idx]) = n + 1
      /\ \A j \in Index : j # P.idx => N[j] = O[j]
  <2>1. PICK i : i = P.idx
        OBVIOUS
  <2>2. /\ O \in [Index -> Seq(Nat)] /\ i \in Index /\ n \in Nat
        /\ O[i] = Upto(Len(O[i])) /\ Len(O[i]) = n /\ N = Longer(O, i, n)
        BY <1>4, <1>6, <1>8, <2>1
  <2>3. /\ N \in [Index -> Seq(Nat)] /\ N[i] = Upto(n + 1) /\ Len(N[i]) = n + 1
        /\ \A j \in Index : j # i => N[j] = O[j]
        BY <2>2, Grows
  <2> QED BY <2>1, <2>3
<1>10. /\ D \in ConsState /\ D.rc = C.rc /\ D.pc \notin {"errf", "returned"}
       /\ D.pc = "fetch" => K = "exact"
       BY <1>2, <1>6 DEF ConsState
<1>11. Handover(K, Q, F, D, N, x)
       BY <1>5, <1>7, <1>8, <1>9, <1>10 DEF Handover
<1>12. Output(K, Q, D, N)
  <2> SUFFICES ASSUME NEW i \in Index
               PROVE  /\ N[i] = Upto(Len(N[i])) /\ Len(N[i]) <= Due(K, i)
                      /\ i > Q.idx => N[i] = <<>>
                      /\ i < Q.idx /\ K \in {"ls", "search"} /\ D.rc = 0 => Len(N[i]) = Due(K, i)
      BY DEF Output
  <2>1. CASE i = P.idx
    <3>1. ~(i > P.idx) /\ ~(i < P.idx)
          BY <2>1, <1>6 DEF Index
    <3> QED BY <2>1, <3>1, <1>7, <1>9
  <2>2. CASE i # P.idx
        BY <2>2, <1>5, <1>7, <1>9, <1>10 DEF Good, Output
  <2> QED BY <2>1, <2>2
<1>13. Success(K, Q, D)
       BY <1>10 DEF Success
<1>14. Good(K, Q, F, D, N, x)
       BY <1>5, <1>7, <1>9, <1>10, <1>11, <1>12, <1>13 DEF Good, Typed
<1>15. Turns(p, Q, F, D, N, x)
  <2>1. prod' = [prod EXCEPT ![p] = Q] /\ cons' = [cons EXCEPT ![p] = D]
        BY <1>1, <1>2, <1>3 DEF Receive
  <2>2. out' = [out EXCEPT ![p] = N]
        BY <1>1, <1>3, <1>4 DEF Receive, Received, Longer
  <2> QED BY <1>1, <2>1, <2>2, Now DEF Turns, Receive
<1> QED BY <1>1, <1>14, <1>15, Now, StreamStep DEF Receive

(* A step that changes the consumer of p alone, but not its exit code.     *)
LEMMA ConsumerTurns ==
    ASSUME Inv, NEW p \in Pipe, NEW D, D \in ConsState,
           cons' = [cons EXCEPT ![p] = D], UNCHANGED <<kind, prod, fwd, out, cancelled>>,
           slots' \subseteq slots,
           D.rc = cons[p].rc, D.pc \notin {"fetch", "returned"},
           D.pc = "errf" => ~Fw(kind[p]) \/ fwd[p].pc = "done"
    PROVE  Inv'
<1>1. Handover(kind[p], prod[p], fwd[p], D, out[p], cancelled[p])
      BY Now DEF Good, Handover
<1>2. Output(kind[p], prod[p], D, out[p]) /\ Success(kind[p], prod[p], D)
      BY Now DEF Good, Output, Success
<1>3. Good(kind[p], prod[p], fwd[p], D, out[p], cancelled[p])
      BY <1>1, <1>2, Now DEF Good, Typed
<1>4. Turns(p, prod[p], fwd[p], D, out[p], cancelled[p])
      BY Now DEF Turns
<1> QED BY <1>3, <1>4, Now, StreamStep

(* Only the exact fallback fetches, and nothing forwards its stream.       *)
LEMMA FetchKeeps ==
    ASSUME Inv, NEW p \in Pipe, Fetched(p) \/ FetchFailed(p)
    PROVE  Inv'
<1>0. ~Fw(kind[p])
      BY Now DEF Good, Handover, Fw, Fetched, FetchFailed
<1>1. PICK C : C = cons[p]
      OBVIOUS
<1>2. C \in ConsState /\ C.fetched \in Nat /\ C.fetched + 1 \in Nat
      BY <1>1, Now, FieldsTyped DEF Good, Typed
<1>3. CASE Fetched(p)
  <2>1. PICK pc : pc = IF C.fetched + 1 >= MaxExact THEN "errf" ELSE "recv"
        OBVIOUS
  <2>2. PICK D : D = [C EXCEPT !.fetched = C.fetched + 1, !.pc = pc]
        OBVIOUS
  <2>3. D \in ConsState /\ D.rc = C.rc /\ D.pc \in {"errf", "recv"}
        BY <1>2, <2>1, <2>2 DEF ConsState
  <2>4. cons' = [cons EXCEPT ![p] = D]
        BY <1>1, <1>3, <2>1, <2>2 DEF Fetched
  <2> QED BY <1>0, <1>1, <1>3, <2>3, <2>4, ConsumerTurns DEF Fetched, Release
<1>4. CASE FetchFailed(p)
  <2>1. PICK D : D = [C EXCEPT !.pc = "recv"]
        OBVIOUS
  <2>2. D \in ConsState /\ D.rc = C.rc /\ D.pc = "recv"
        BY <1>2, <2>1 DEF ConsState
  <2>3. cons' = [cons EXCEPT ![p] = D]
        BY <1>1, <1>4, <2>1 DEF FetchFailed
  <2> QED BY <1>0, <1>1, <1>4, <2>2, <2>3, ConsumerTurns DEF FetchFailed, Release
<1> QED BY <1>3, <1>4

LEMMA ReceiveEndKeeps ==
    ASSUME Inv, NEW p \in Pipe, ReceiveEnd(p)
    PROVE  Inv'
<1>1. PICK C : C = cons[p]
      OBVIOUS
<1>2. PICK D : D = [C EXCEPT !.pc = IF kind[p] = "dir" THEN "eof" ELSE "errf"]
      OBVIOUS
<1>3. C \in ConsState
      BY <1>1, Now DEF Good, Typed
<1>4. D \in ConsState /\ D.rc = C.rc /\ D.pc \in {"eof", "errf"}
      BY <1>2, <1>3 DEF ConsState
<1>5. ~Fw(kind[p]) \/ fwd[p].pc = "done"
      BY DEF ReceiveEnd, Drained, Forwarded, Fw
<1>6. cons' = [cons EXCEPT ![p] = D]
      BY <1>1, <1>2 DEF ReceiveEnd
<1> QED BY <1>1, <1>4, <1>5, <1>6, ConsumerTurns DEF ReceiveEnd

(* A command returns success only if its last stream ended without error;  *)
(* before that, every index it leaves behind was received completely.      *)
LEMMA ErrFKeeps ==
    ASSUME Inv, NEW p \in Pipe, ErrF(p)
    PROVE  Inv'
<1>1. PICK K, P, F, C, O, x : /\ K = kind[p] /\ P = prod[p] /\ F = fwd[p] /\ C = cons[p]
                              /\ O = out[p] /\ x = cancelled[p]
      OBVIOUS
<1>2. PICK rc : rc = IF P.err /\ K # "exact" THEN 2 ELSE C.rc
      OBVIOUS
<1>3. C.pc = "errf" /\ P.pc = "done" /\ Good(K, P, F, C, O, x)
      BY <1>1, Now DEF ErrF
<1>4. /\ C \in ConsState /\ P \in ProdState /\ K \in Kinds /\ x \in BOOLEAN
      /\ O \in [Index -> Seq(Nat)] /\ P.idx \in Index /\ C.rc \in {0, 2}
      BY <1>3, FieldsTyped DEF Good, Typed
<1>5. rc \in {0, 2} /\ (rc = 0 => C.rc = 0 /\ (~P.err \/ K = "exact"))
      BY <1>2, <1>4
<1>6. CASE K \in {"ls", "exact"} /\ P.idx < Last(K)
  <2>1. PICK D : D = [C EXCEPT !.pc = "recv", !.rc = rc]
        OBVIOUS
  <2>2. PICK Q : Q = StreamOf(P.idx + 1, P.pits, P.left)
        OBVIOUS
  <2>3. D \in ConsState /\ D.pc = "recv" /\ D.rc = rc
        BY <1>4, <1>5, <2>1 DEF ConsState
  <2>4. P.idx + 1 \in Index /\ ~Fw(K) /\ ~x
        BY <1>3, <1>4, <1>6, NDocsFacts DEF Index, Fw, Last, Good, Paging
  <2>5. /\ Q \in ProdState /\ Paging(K, Q, x)
        /\ Q.idx = P.idx + 1 /\ Q.after = 0 /\ Q.pc = "open"
    <3>1. P.pits \in SUBSET Index /\ P.left \in SUBSET Index /\ P.pits \subseteq P.left
          BY <1>3, <1>4, FieldsTyped DEF Good, Paging, Held
    <3> QED BY <1>4, <2>2, <2>4, <3>1, FirstPage
  <2>6. /\ O[P.idx + 1] = <<>> /\ Len(O[P.idx]) = P.after
        /\ K = "ls" /\ rc = 0 => Len(O[P.idx]) = Due(K, P.idx)
    <3>1. P.idx + 1 > P.idx
          BY <1>4 DEF Index
    <3>2. O[P.idx + 1] = <<>>
          BY <1>3, <2>4, <3>1 DEF Good, Output
    <3>3. Len(O[P.idx]) = P.after
          BY <1>3, <2>4 DEF Good, Handover
    <3>4. ASSUME K = "ls", rc = 0
          PROVE  P.after = Due(K, P.idx)
          BY <1>3, <1>5, <2>4, <3>4 DEF Good, Paging
    <3> QED BY <3>2, <3>3, <3>4
  <2>7. Handover(K, Q, F, D, O, x)
        BY <1>3, <2>3, <2>4, <2>5, <2>6 DEF Good, Handover
  <2>8. Output(K, Q, D, O)
    <3>1. ASSUME NEW i \in Index, i > P.idx + 1
          PROVE  i > P.idx
          BY <3>1, <1>4 DEF Index
    <3>2. ASSUME NEW i \in Index, i < P.idx + 1
          PROVE  i = P.idx \/ i < P.idx
          BY <3>2, <1>4 DEF Index
    <3> QED BY <1>3, <1>5, <1>6, <2>3, <2>5, <2>6, <3>1, <3>2 DEF Good, Output
  <2>9. Success(K, Q, D)
        BY <2>3 DEF Success
  <2>10. Good(K, Q, F, D, O, x)
         BY <1>3, <2>3, <2>5, <2>7, <2>8, <2>9 DEF Good, Typed
  <2>11. Turns(p, Q, F, D, O, x)
    <3>1. prod' = [prod EXCEPT ![p] = Q] /\ cons' = [cons EXCEPT ![p] = D]
          BY <1>1, <1>2, <1>6, <2>1, <2>2 DEF ErrF, Reports, LastIndex, Last, Fw
    <3> QED BY <1>1, <3>1, Now DEF Turns, ErrF
  <2> QED BY <1>1, <2>10, <2>11, Now, StreamStep DEF ErrF
<1>7. CASE ~(K \in {"ls", "exact"} /\ P.idx < Last(K))
  <2>1. PICK D : D = [C EXCEPT !.pc = "returned", !.rc = rc]
        OBVIOUS
  <2>2. D \in ConsState /\ D.pc = "returned" /\ D.rc = rc
        BY <1>4, <1>5, <2>1 DEF ConsState
  <2>3. Handover(K, P, F, D, O, x)
        BY <1>3, <2>2 DEF Good, Handover
  <2>4. Output(K, P, D, O)
        BY <1>3, <1>5, <2>2 DEF Good, Output
  <2>5. Success(K, P, D)
    <3> SUFFICES ASSUME rc = 0, K # "exact"
                 PROVE  ~P.err /\ P.idx = Last(K)
        BY <1>3, <2>2 DEF Success
    <3>1. ~P.err
          BY <1>5
    <3>2. CASE K = "ls"
          BY <3>1, <3>2, <1>4, <1>7, NDocsFacts DEF Last, Fw, Index
    <3>3. CASE K = "search"
          BY <3>1, <3>3, <1>3 DEF Good, Paging, Last, Fw
    <3>4. CASE Fw(K)
          BY <3>1, <3>4, <1>3 DEF Good, Paging, Last
    <3> QED BY <3>1, <3>2, <3>3, <3>4, <1>4 DEF Kinds, Fw
  <2>6. Good(K, P, F, D, O, x)
        BY <1>3, <2>2, <2>3, <2>4, <2>5 DEF Good, Typed
  <2>7. Turns(p, P, F, D, O, x)
    <3>1. prod' = prod /\ cons' = [cons EXCEPT ![p] = D]
          BY <1>1, <1>2, <1>7, <2>1 DEF ErrF, Reports, LastIndex, Last, Fw
    <3> QED BY <1>1, <3>1, Now DEF Turns, ErrF
  <2> QED BY <1>1, <2>6, <2>7, Now, StreamStep DEF ErrF
<1> QED BY <1>6, <1>7

(* Only a directory is closed early, and nothing is promised of it then.   *)
LEMMA DirCloseKeeps ==
    ASSUME Inv, NEW p \in Pipe, DirClose(p)
    PROVE  Inv'
<1>1. PICK K, P, F, C, O, x : /\ K = kind[p] /\ P = prod[p] /\ F = fwd[p] /\ C = cons[p]
                              /\ O = out[p] /\ x = cancelled[p]
      OBVIOUS
<1>2. PICK D : D = [C EXCEPT !.pc = "closed"]
      OBVIOUS
<1>3. K = "dir" /\ Good(K, P, F, C, O, x)
      BY <1>1, Now DEF DirClose
<1>4. /\ C \in ConsState /\ P \in ProdState /\ P.after \in Nat
      /\ O \in [Index -> Seq(Nat)] /\ Len(O[1]) \in Nat
      BY <1>3, FieldsTyped, NDocsFacts, LenProperties DEF Good, Typed
<1>5. D \in ConsState /\ D.rc = C.rc /\ D.pc = "closed"
      BY <1>2, <1>4 DEF ConsState
<1>6. Paging(K, P, TRUE)
      BY <1>3 DEF Good, Paging
<1>7. Handover(K, P, F, D, O, TRUE)
      BY <1>3, <1>4, <1>5 DEF Good, Handover, Fw
<1>8. Output(K, P, D, O) /\ Success(K, P, D)
      BY <1>3, <1>5 DEF Good, Output, Success
<1>9. Good(K, P, F, D, O, TRUE)
      BY <1>3, <1>5, <1>6, <1>7, <1>8 DEF Good, Typed
<1>10. Turns(p, P, F, D, O, TRUE)
  <2>1. cons' = [cons EXCEPT ![p] = D] /\ cancelled' = [cancelled EXCEPT ![p] = TRUE]
        BY <1>1, <1>2 DEF DirClose
  <2> QED BY <1>1, <2>1, Now DEF Turns, DirClose
<1> QED BY <1>1, <1>9, <1>10, Now, StreamStep DEF DirClose

LEMMA AcquireKeeps ==
    ASSUME Inv, NEW p \in Pipe, NEW who \in {"prod", "cons"}, Acquire(p, who)
    PROVE  Inv'
<1>1. slots' \subseteq Pipe \X {"prod", "cons"}
      BY Now DEF Acquire
<1>2. Turns(p, prod[p], fwd[p], cons[p], out[p], cancelled[p])
      BY Now DEF Turns, Acquire
<1> QED BY <1>1, <1>2, Now, StreamStep DEF Acquire

-----------------------------------------------------------------------------
LEMMA InvInit == Init => Inv
<1> SUFFICES ASSUME Init PROVE Inv
    OBVIOUS
<1>1. \A p \in Pipe : kind[p] \in Kinds
      BY UsesAssumption DEF Init
<1>2. ASSUME NEW p \in Pipe
      PROVE  Good(kind[p], prod[p], fwd[p], cons[p], out[p], cancelled[p])
  <2>1. PICK K, P, F, C, O, x : /\ K = kind[p] /\ P = prod[p] /\ F = fwd[p] /\ C = cons[p]
                                /\ O = out[p] /\ x = cancelled[p]
        OBVIOUS
  <2>2. PICK pc : pc = IF Fw(K) THEN "virtual" ELSE "done"
        OBVIOUS
  <2>3. /\ P = StreamOf(1, {}, {}) /\ F = [pc |-> pc, virtual |-> 4, item |-> 0]
        /\ C = [pc |-> "recv", fetched |-> 0, rc |-> 0]
        /\ O = [i \in Index |-> <<>>] /\ x = FALSE /\ K \in Kinds
        BY <1>1, <2>1, <2>2 DEF Init, Forwarded, Fw
  <2>4. /\ P \in ProdState /\ Paging(K, P, x) /\ P.idx = 1 /\ P.after = 0 /\ P.pc = "open"
    <3>1. /\ {} \subseteq Index /\ {} \subseteq {} /\ 1 \in Index
          /\ K \in Kinds /\ x \in BOOLEAN /\ (x => K = "dir") /\ (Fw(K) => 1 = 1)
          BY <2>3, NDocsFacts
    <3>2. /\ StreamOf(1, {}, {}) \in ProdState /\ Paging(K, StreamOf(1, {}, {}), x)
          /\ StreamOf(1, {}, {}).idx = 1 /\ StreamOf(1, {}, {}).after = 0
          /\ StreamOf(1, {}, {}).pc = "open"
          BY <3>1, FirstPage
    <3> QED BY <2>3, <3>2, Zenon
  <2>5. F \in FwdState /\ F.pc = pc /\ F.virtual = 4
        BY <2>2, <2>3 DEF FwdState
  <2>6. C \in ConsState /\ C.pc = "recv" /\ C.rc = 0
        BY <2>3 DEF ConsState
  <2>7. <<>> \in Seq(Nat) /\ Len(<<>>) = 0 /\ Upto(0) = <<>>
    <3>1. <<>> \in Seq(Nat) /\ Len(<<>>) = 0
          BY EmptySeq
    <3>2. Upto(0) \in Seq(Nat) /\ Len(Upto(0)) = 0
          BY UptoAppend
    <3> QED BY <3>1, <3>2, EmptySeq
  <2>8. O \in [Index -> Seq(Nat)] /\ \A i \in Index : O[i] = <<>> /\ Len(O[i]) = 0
        BY <2>3, <2>7
  <2>9. Handover(K, P, F, C, O, x)
        BY <2>2, <2>4, <2>5, <2>6, <2>8, NDocsFacts DEF Handover
  <2>10. Output(K, P, C, O)
    <3> SUFFICES ASSUME NEW i \in Index
                 PROVE  /\ O[i] = Upto(Len(O[i])) /\ Len(O[i]) <= Due(K, i)
                        /\ i > P.idx => O[i] = <<>>
                        /\ i < P.idx /\ K \in {"ls", "search"} /\ C.rc = 0 => Len(O[i]) = Due(K, i)
        BY DEF Output
    <3>1. Due(K, i) \in Nat
          BY <2>3, DueFacts
    <3>2. ~(i < 1)
          BY DEF Index
    <3> QED BY <2>4, <2>7, <2>8, <3>1, <3>2
  <2>11. Success(K, P, C)
         BY <2>6 DEF Success
  <2> QED BY <2>1, <2>3, <2>4, <2>5, <2>6, <2>8, <2>9, <2>10, <2>11 DEF Good, Typed
<1>3. TypeOK
  <2>1. \A p \in Pipe : /\ prod[p] \in ProdState /\ fwd[p] \in FwdState /\ cons[p] \in ConsState
                        /\ out[p] \in [Index -> Seq(Nat)] /\ cancelled[p] \in BOOLEAN
        BY <1>2 DEF Good, Typed
  <2>2. /\ kind \in Uses /\ slots \subseteq Pipe \X {"prod", "cons"}
        /\ prod = [p \in Pipe |-> prod[p]] /\ fwd = [p \in Pipe |-> fwd[p]]
        /\ cons = [p \in Pipe |-> cons[p]] /\ out = [p \in Pipe |-> out[p]]
        /\ cancelled = [p \in Pipe |-> cancelled[p]]
        BY DEF Init
  <2> QED BY <2>1, <2>2 DEF TypeOK
<1> QED BY <1>2, <1>3 DEF Inv

LEMMA InvNext == Inv /\ [Next]_vars => Inv'
<1> SUFFICES ASSUME Inv, [Next]_vars PROVE Inv'
    OBVIOUS
<1>1. CASE UNCHANGED vars
  <2>1. TypeOK'
        BY <1>1 DEF Inv, TypeOK, vars
  <2>2. ASSUME NEW q \in Pipe
        PROVE  Good(kind'[q], prod'[q], fwd'[q], cons'[q], out'[q], cancelled'[q])
        BY <1>1 DEF Inv, vars
  <2>3. \A q \in Pipe : Good(kind[q], prod[q], fwd[q], cons[q], out[q], cancelled[q])'
    <3> SUFFICES ASSUME NEW q \in Pipe
                 PROVE  Good(kind'[q], prod'[q], fwd'[q], cons'[q], out'[q], cancelled'[q])
        BY DEF Good, Typed, Paging, Handover, Output, Success, Capped, Fw, Last, Due
    <3> QED BY <2>2
  <2> QED BY <2>1, <2>3 DEF Inv
<1>2. CASE Next
  <2>1. PICK p \in Pipe :
            \/ \E who \in {"prod", "cons"} : Acquire(p, who)
            \/ ProdStep(p) \/ FwdStep(p) \/ ConsStep(p) \/ DirClose(p)
        BY <1>2 DEF Next
  <2>2. CASE \E who \in {"prod", "cons"} : Acquire(p, who)
        BY <2>2, AcquireKeeps
  <2>3. CASE ProdStep(p)
        BY <2>3, ProdFailKeeps, OpenPITKeeps, QueryKeeps, EmitCancelledKeeps, ClosePITKeeps DEF ProdStep, ProdRun
  <2>4. CASE FwdStep(p)
        BY <2>4, FwdReceiveKeeps, FwdEndKeeps, VirtualKeeps DEF FwdStep
  <2>5. CASE ConsStep(p)
        BY <2>5, VirtualKeeps, ReceiveForwardedKeeps, ReceiveKeeps, FetchKeeps, ReceiveEndKeeps,
           ErrFKeeps DEF ConsStep
  <2>6. CASE DirClose(p)
        BY <2>6, DirCloseKeeps
  <2> QED BY <2>1, <2>2, <2>3, <2>4, <2>5, <2>6
<1> QED BY <1>1, <1>2

-----------------------------------------------------------------------------
(* Inv is inductive: it holds in every reachable state.                    *)
THEOREM Invariance == Spec => []Inv
<1>1. Init => Inv
      BY InvInit
<1>2. Inv /\ [Next]_vars => Inv'
      BY InvNext
<1> QED BY <1>1, <1>2, PTL DEF Spec

(* The state of a stream of documents keeps its types.                     *)
THEOREM TypeCorrect == Spec => []TypeOK
<1>1. Inv => TypeOK
      BY DEF Inv
<1> QED BY <1>1, Invariance, PTL

(* However requests fail and directories are closed, and however many      *)
(* streams, pages and documents there are, streamPIT and the goroutines    *)
(* after it hand over a prefix of each index in sort order.                *)
THEOREM InOrderAlways == Spec => []InOrder
<1>1. Inv => InOrder
  <2> SUFFICES ASSUME Inv, NEW p \in Pipe, NEW i \in Index
               PROVE  /\ Len(out[p][i]) <= Expected(p, i)
                      /\ out[p][i] = [k \in 1..Len(out[p][i]) |-> k]
      BY DEF InOrder
  <2>1. out[p][i] = Upto(Len(out[p][i])) /\ Len(out[p][i]) <= Due(kind[p], i)
        BY Now DEF Good, Output
  <2>2. Due(kind[p], i) = Expected(p, i)
        BY DEF Due, Capped, Expected, LimitOf
  <2> QED BY <2>1, <2>2 DEF Upto
<1> QED BY <1>1, Invariance, PTL

(* A listing or ranked search that returns without an error has handed     *)
(* over every document of every index, up to the limit.                    *)
THEOREM CompleteIfSuccessful == Spec => []CompleteOnSuccess
<1>1. Inv => CompleteOnSuccess
  <2> SUFFICES ASSUME Inv, NEW p \in Pipe, kind[p] \in {"readdir", "ls", "search"},
                      cons[p].pc = "returned", cons[p].rc = 0, NEW i \in 1..LastIndex(p)
               PROVE  Len(out[p][i]) = Expected(p, i)
      BY DEF CompleteOnSuccess
  <2>1. PICK K, P, O : K = kind[p] /\ P = prod[p] /\ O = out[p]
        OBVIOUS
  <2>2. Good(K, P, fwd[p], cons[p], O, cancelled[p])
        BY <2>1, Now
  <2>3. K \in {"readdir", "ls", "search"} /\ P \in ProdState /\ P.idx \in Index
        BY <2>1, <2>2, FieldsTyped DEF Good, Typed
  <2>4. P.pc = "done" /\ ~P.err /\ P.idx = Last(K) /\ ~cancelled[p]
        BY <2>1, <2>2, <2>3 DEF Good, Success, Paging
  <2>5. P.after = Due(K, P.idx)
        BY <2>2, <2>4 DEF Good, Paging
  <2>6. Len(O[P.idx]) = P.after
        BY <2>1, <2>2, <2>4 DEF Good, Handover, Paging
  <2>7. LastIndex(p) = Last(K) /\ Due(K, i) = Expected(p, i)
        BY <2>1 DEF LastIndex, Last, Fw, Due, Capped, Expected, LimitOf
  <2>8. CASE i = P.idx
        BY <2>1, <2>5, <2>6, <2>7, <2>8
  <2>9. CASE i # P.idx
    <3>1. i < P.idx /\ i \in Index
          BY <2>3, <2>4, <2>7, <2>9, NDocsFacts DEF Index
    <3>2. K \in {"ls", "search"}
          BY <2>3, <2>4, <2>7, <3>1 DEF Last, Fw
    <3> QED BY <2>1, <2>2, <2>7, <3>1, <3>2 DEF Good, Output
  <2> QED BY <2>8, <2>9
<1> QED BY <1>1, Invariance, PTL

(* However many streams share however few slots, and however paging ends,  *)
(* a producer asks for the closing of every point in time it was given     *)
(* before it goes on or ends, or has run out of closePIT's own time before *)
(* it had a slot.                                                          *)
THEOREM PitsAlwaysReleased == Spec => []PitsReleased
<1>1. Inv => PitsReleased
      BY Now DEF PitsReleased, Good, Paging
<1> QED BY <1>1, Invariance, PTL

-----------------------------------------------------------------------------
(* Nobody waits for good.                                                  *)

(* Who may still be expected at the other end: a consumer only leaves a    *)
(* stream that was cancelled or has nothing to send, or, in the exact      *)
(* fallback, at its cap, and a forwarder only one that has ended or was    *)
(* cancelled.                                                              *)
Links(K, P, F, C, x) ==
    /\ C.pc = "eof" => K = "dir" /\ F.pc = "done"
    /\ C.pc = "closed" => x
    /\ C.pc \in {"errf", "returned"} => K # "dir"
    /\ C.pc = "errf" => P.pc = "done" \/ (K = "exact" /\ C.fetched >= MaxExact)
    /\ C.pc = "returned" => P.pc = "done"
    /\ Fw(K) /\ F.pc = "done" => x \/ P.pc = "done"

Linked(p) == Links(kind[p], prod[p], fwd[p], cons[p], cancelled[p])

SlotsAnswering == \A p \in Pipe, who \in {"prod", "cons"} : <<p, who>> \in slots => Requesting(p, who)

(* The program counters after a step of p, as far as Links needs them.     *)
LEMMA StepOfProd ==
    ASSUME Inv, SlotsAnswering, NEW p \in Pipe, ProdStep(p)
    PROVE  /\ prod[p].pc # "done" /\ UNCHANGED <<kind, fwd, cons, cancelled>>
           /\ \A q \in Pipe : q # p => prod'[q] = prod[q]
           /\ \A q \in Pipe, who \in {"prod", "cons"} :
                 <<q, who>> \in slots' => <<q, who>> \in slots /\ <<q, who>> # <<p, "prod">>
<1>0. prod \in [Pipe -> ProdState]
      BY DEF Inv, TypeOK
<1>1. CASE ProdFail(p)
      BY <1>0, <1>1 DEF ProdFail, Release
<1>2. CASE OpenPIT(p)
      BY <1>0, <1>2 DEF OpenPIT, Release
<1>3. CASE Query(p)
      BY <1>0, <1>3 DEF Query, Release
<1>4. CASE EmitCancelled(p)
      BY <1>0, <1>4 DEF EmitCancelled, SlotsAnswering, Requesting
<1>5. CASE ClosePIT(p)
      BY <1>0, <1>5 DEF ClosePIT, Release
<1>6. CASE CloseTimeout(p)
      BY <1>0, <1>6 DEF CloseTimeout
<1> QED BY <1>1, <1>2, <1>3, <1>4, <1>5, <1>6 DEF ProdStep, ProdRun

LEMMA SentVirtual ==
    ASSUME Inv, NEW p \in Pipe, fwd[p].pc = "virtual", NextVirtual(p), NEW q \in Pipe
    PROVE  fwd'[q] = fwd[q] \/ (q = p /\ fwd'[p].pc # "done")
<1>0. fwd \in [Pipe -> FwdState]
      BY DEF Inv, TypeOK
<1>1. fwd'[p].pc = IF fwd[p].virtual = 1 THEN "recv" ELSE "virtual"
      BY <1>0 DEF NextVirtual, FwdState
<1>2. q # p => fwd'[q] = fwd[q]
      BY <1>0 DEF NextVirtual
<1> QED BY <1>1, <1>2

LEMMA LinkedAfterProd ==
    ASSUME Inv, SlotsAnswering, NEW p \in Pipe, ProdStep(p), NEW q \in Pipe, Linked(q)
    PROVE  Linked(q)'
<1>1. /\ prod[p].pc # "done" /\ UNCHANGED <<kind, fwd, cons, cancelled>>
      /\ q # p => prod'[q] = prod[q]
      BY StepOfProd
<1> QED BY <1>1 DEF Linked, Links, Fw

LEMMA LinkedAfterFwd ==
    ASSUME Inv, NEW p \in Pipe, FwdStep(p), NEW q \in Pipe, Linked(q)
    PROVE  Linked(q)'
<1>0. fwd \in [Pipe -> FwdState] /\ prod \in [Pipe -> ProdState]
      BY DEF Inv, TypeOK
<1>1. UNCHANGED <<kind, cons, cancelled, slots>>
      BY DEF FwdStep, FwdReceive, FwdEnd, FwdSkipVirtual
<1>2. CASE FwdReceive(p)
  <2>1. fwd[p].pc = "recv" /\ fwd'[p].pc = "send" /\ prod[p].pc = "emit"
        BY <1>0, <1>2 DEF FwdReceive, FwdState
  <2>2. q # p => fwd'[q] = fwd[q] /\ prod'[q] = prod[q]
        BY <1>0, <1>2 DEF FwdReceive
  <2> QED BY <1>1, <2>1, <2>2 DEF Linked, Links, Fw
<1>3. CASE FwdEnd(p)
  <2>1. /\ UNCHANGED prod /\ (cancelled[p] \/ prod[p].pc = "done")
        /\ fwd[p].pc # "done" /\ fwd'[p].pc = "done"
        BY <1>0, <1>3 DEF FwdEnd, FwdState
  <2>2. q # p => fwd'[q] = fwd[q]
        BY <1>0, <1>3 DEF FwdEnd
  <2> QED BY <1>1, <2>1, <2>2 DEF Linked, Links, Fw
<1>4. CASE FwdSkipVirtual(p)
      BY <1>1, <1>4, SentVirtual DEF Linked, Links, Fw, FwdSkipVirtual
<1> QED BY <1>2, <1>3, <1>4 DEF FwdStep

LEMMA LinkedAfterCons ==
    ASSUME Inv, NEW p \in Pipe, ConsStep(p), \A q \in Pipe : Linked(q)
    PROVE  \A q \in Pipe : Linked(q)'
<1> TAKE q \in Pipe
<1>0. /\ fwd \in [Pipe -> FwdState] /\ prod \in [Pipe -> ProdState]
      /\ cons \in [Pipe -> ConsState] /\ cancelled \in [Pipe -> BOOLEAN]
      BY DEF Inv, TypeOK
<1>1. CASE ReceiveVirtual(p)
      BY <1>1, SentVirtual DEF Linked, Links, Fw, ReceiveVirtual
<1>2. CASE ReceiveForwarded(p)
  <2>1. fwd'[p].pc = "recv" /\ fwd[p].pc = "send" /\ (q # p => fwd'[q] = fwd[q])
        BY <1>0, <1>2 DEF ReceiveForwarded, FwdState
  <2> QED BY <1>2, <2>1 DEF Linked, Links, Fw, ReceiveForwarded
<1>3. CASE Receive(p)
  <2>1. /\ cons[p].pc = "recv" /\ cons'[p].pc \in {"fetch", "recv"} /\ ~Fw(kind[p])
        /\ q # p => cons'[q] = cons[q] /\ prod'[q] = prod[q]
        /\ UNCHANGED <<kind, fwd, cancelled>>
        BY <1>0, <1>3 DEF Receive, ConsState, Forwarded, Fw
  <2> QED BY <2>1 DEF Linked, Links, Fw
<1>4. CASE Fetched(p)
  <2>1. kind[p] = "exact"
        BY <1>4, Now DEF Good, Handover, Fetched
  <2>2. /\ cons'[p].fetched = cons[p].fetched + 1
        /\ cons'[p].pc = IF cons[p].fetched + 1 >= MaxExact THEN "errf" ELSE "recv"
        /\ q # p => cons'[q] = cons[q]
        /\ UNCHANGED <<kind, prod, fwd, cancelled>>
        BY <1>0, <1>4 DEF Fetched, ConsState
  <2> QED BY <2>1, <2>2 DEF Linked, Links, Fw
<1>5. CASE FetchFailed(p)
  <2>1. /\ cons'[p].pc = "recv" /\ (q # p => cons'[q] = cons[q])
        /\ UNCHANGED <<kind, prod, fwd, cancelled>>
        BY <1>0, <1>5 DEF FetchFailed, ConsState
  <2> QED BY <2>1 DEF Linked, Links, Fw
<1>6. CASE ReceiveEnd(p)
  <2>1. /\ cons'[p].pc = IF kind[p] = "dir" THEN "eof" ELSE "errf"
        /\ q # p => cons'[q] = cons[q]
        /\ UNCHANGED <<kind, prod, fwd, cancelled>>
        BY <1>0, <1>6 DEF ReceiveEnd, ConsState
  <2>2. kind[p] = "dir" => fwd[p].pc = "done"
        BY <1>6 DEF ReceiveEnd, Drained, Forwarded
  <2>3. kind[p] # "dir" => prod[p].pc = "done"
    <3>1. cancelled[p] => kind[p] = "dir"
          BY Now DEF Good, Paging
    <3>2. Fw(kind[p]) /\ fwd[p].pc = "done" => cancelled[p] \/ prod[p].pc = "done"
          BY DEF Linked, Links
    <3> QED BY <1>6, <3>1, <3>2 DEF ReceiveEnd, Drained, Forwarded, Fw
  <2> QED BY <2>1, <2>2, <2>3 DEF Linked, Links, Fw
<1>7. CASE ErrF(p)
  <2>1. PICK more : more = (kind[p] \in {"ls", "exact"} /\ prod[p].idx < LastIndex(p))
        OBVIOUS
  <2>2. /\ cons'[p].pc = IF more THEN "recv" ELSE "returned"
        /\ q # p => cons'[q] = cons[q] /\ prod'[q] = prod[q]
        /\ prod[p].pc = "done" /\ (~more => UNCHANGED prod) /\ cons[p].pc = "errf"
        /\ UNCHANGED <<kind, fwd, cancelled>>
        BY <1>0, <1>7, <2>1 DEF ErrF, ConsState
  <2>3. kind[p] # "dir" /\ (more => ~Fw(kind[p]))
        BY <2>1, <2>2 DEF Linked, Links, Fw
  <2> QED BY <2>2, <2>3 DEF Linked, Links, Fw
<1> QED BY <1>1, <1>2, <1>3, <1>4, <1>5, <1>6, <1>7 DEF ConsStep

LEMMA LinkedAfterClose ==
    ASSUME Inv, NEW p \in Pipe, DirClose(p), NEW q \in Pipe, Linked(q)
    PROVE  Linked(q)'
<1>1. /\ cons \in [Pipe -> ConsState] /\ cancelled \in [Pipe -> BOOLEAN]
      BY DEF Inv, TypeOK
<1>2. /\ cons'[p].pc = "closed" /\ cancelled'[p] /\ UNCHANGED <<kind, prod, fwd>>
      /\ q # p => cons'[q] = cons[q] /\ cancelled'[q] = cancelled[q]
      BY <1>1 DEF DirClose, ConsState
<1> QED BY <1>2 DEF Linked, Links, Fw

(* A slot is given back by the step that ends its request.                 *)
LEMMA SlotsStayAnswering ==
    ASSUME Inv, SlotsAnswering, [Next]_vars
    PROVE  SlotsAnswering'
<1>0. prod \in [Pipe -> ProdState] /\ cons \in [Pipe -> ConsState]
      BY DEF Inv, TypeOK
<1>1. CASE UNCHANGED vars
      BY <1>1 DEF vars, SlotsAnswering, Requesting
<1>2. CASE Next
  <2> SUFFICES ASSUME NEW q \in Pipe, NEW w \in {"prod", "cons"}, <<q, w>> \in slots'
               PROVE  Requesting(q, w)'
      BY DEF SlotsAnswering
  <2>1. PICK p \in Pipe :
            \/ \E who \in {"prod", "cons"} : Acquire(p, who)
            \/ ProdStep(p) \/ FwdStep(p) \/ ConsStep(p) \/ DirClose(p)
        BY <1>2 DEF Next
  <2>2. CASE \E who \in {"prod", "cons"} : Acquire(p, who)
    <3>1. PICK who \in {"prod", "cons"} : Acquire(p, who)
          BY <2>2
    <3>2. /\ Requesting(p, who) /\ UNCHANGED <<prod, cons>>
          /\ <<q, w>> = <<p, who>> \/ <<q, w>> \in slots
          BY <3>1 DEF Acquire
    <3>3. Requesting(q, w)
          BY <3>2 DEF SlotsAnswering
    <3> QED BY <3>2, <3>3 DEF Requesting
  <2>3. CASE ProdStep(p)
    <3>1. <<q, w>> \in slots /\ <<q, w>> # <<p, "prod">> /\ UNCHANGED cons
          /\ (q # p => prod'[q] = prod[q])
          BY <2>3, StepOfProd
    <3>2. Requesting(q, w)
          BY <3>1 DEF SlotsAnswering
    <3> QED BY <3>1, <3>2 DEF Requesting
  <2>4. CASE FwdStep(p)
    <3>1. /\ <<q, w>> \in slots /\ UNCHANGED cons
          /\ (q # p => prod'[q] = prod[q])
          /\ prod'[p] = prod[p] \/ prod[p].pc = "emit"
          BY <1>0, <2>4 DEF FwdStep, FwdReceive, FwdEnd, FwdSkipVirtual
    <3>2. Requesting(q, w)
          BY <3>1 DEF SlotsAnswering
    <3> QED BY <3>1, <3>2 DEF Requesting
  <2>5. CASE ConsStep(p)
    <3>1. <<q, w>> \in slots
          BY <2>5 DEF ConsStep, ReceiveVirtual, ReceiveForwarded, Receive, Fetched, FetchFailed,
                      ReceiveEnd, ErrF, Release
    <3>2. Requesting(q, w)
          BY <3>1 DEF SlotsAnswering
    <3>3. q # p => cons'[q] = cons[q] /\ prod'[q] = prod[q]
          BY <1>0, <2>5 DEF ConsStep, ReceiveVirtual, ReceiveForwarded, Receive, Fetched,
                            FetchFailed, ReceiveEnd, ErrF
    <3>4. CASE w = "prod"
      <4>1. prod'[p] = prod[p] \/ prod[p].pc \in {"emit", "done"}
            BY <2>5 DEF ConsStep, ReceiveVirtual, ReceiveForwarded, Receive, Fetched,
                        FetchFailed, ReceiveEnd, ErrF
      <4> QED BY <3>2, <3>3, <3>4, <4>1 DEF Requesting
    <3>5. CASE w = "cons"
      <4>1. \/ cons'[p] = cons[p] \/ cons[p].pc \in {"recv", "errf"}
            \/ slots' = slots \ {<<p, "cons">>}
            BY <2>5 DEF ConsStep, ReceiveVirtual, ReceiveForwarded, Receive, Fetched,
                        FetchFailed, ReceiveEnd, ErrF, Release
      <4> QED BY <3>2, <3>3, <3>5, <4>1 DEF Requesting
    <3> QED BY <3>4, <3>5
  <2>6. CASE DirClose(p)
    <3>1. /\ <<q, w>> \in slots /\ UNCHANGED prod /\ cons[p].pc \in {"recv", "eof"}
          /\ (q # p => cons'[q] = cons[q])
          BY <1>0, <2>6 DEF DirClose
    <3>2. Requesting(q, w)
          BY <3>1 DEF SlotsAnswering
    <3> QED BY <3>1, <3>2 DEF Requesting
  <2> QED BY <2>1, <2>2, <2>3, <2>4, <2>5, <2>6
<1> QED BY <1>1, <1>2

(* Whoever waits at a channel finds the other end there.                   *)
LEMMA LinkedNotStuck ==
    ASSUME Inv, NEW p \in Pipe, Linked(p)
    PROVE  \/ Ended(p) \/ OverCap(p)
           \/ Requesting(p, "prod") \/ Requesting(p, "cons")
           \/ ProdReady(p) \/ FwdReady(p) \/ ConsReady(p)
<1>1. PICK K, P, F, C, x : K = kind[p] /\ P = prod[p] /\ F = fwd[p] /\ C = cons[p] /\ x = cancelled[p]
      OBVIOUS
<1>2. /\ P.pc \in {"open", "query", "emit", "close", "done"}
      /\ F.pc \in {"virtual", "recv", "send", "done"}
      /\ C.pc \in {"recv", "fetch", "errf", "eof", "closed", "returned"}
      BY <1>1, Now, FieldsTyped DEF Good, Typed
<1>3. Links(K, P, F, C, x)
      BY <1>1 DEF Linked
<1>4. /\ ~Fw(K) => F.pc = "done"
      /\ Fw(K) /\ C.pc \in {"errf", "returned"} => F.pc = "done"
      /\ C.pc = "fetch" => K = "exact"
      /\ x => K = "dir"
      BY <1>1, Now DEF Good, Handover, Paging
<1>5. CASE P.pc \in {"open", "query", "close"} \/ C.pc = "fetch"
      BY <1>1, <1>5 DEF Requesting
<1>6. CASE C.pc = "recv" /\ F.pc # "done"
      BY <1>1, <1>2, <1>5, <1>6 DEF ProdReady, FwdReady
<1>7. CASE C.pc = "recv" /\ F.pc = "done"
      BY <1>1, <1>2, <1>3, <1>5, <1>7 DEF Links, ProdReady, ConsReady, Drained, Forwarded, Fw
<1>8. CASE C.pc \in {"errf", "returned"}
      BY <1>1, <1>2, <1>3, <1>4, <1>5, <1>8 DEF Links, ConsReady, OverCap, Ended
<1>9. CASE C.pc = "eof"
      BY <1>1, <1>3, <1>9 DEF Links, ConsReady
<1>10. CASE C.pc = "closed"
       BY <1>1, <1>2, <1>3, <1>5, <1>10 DEF Links, ProdReady, FwdReady, Ended
<1> QED BY <1>2, <1>5, <1>6, <1>7, <1>8, <1>9, <1>10

(* However many streams share however few slots, whatever fails and        *)
(* whenever directories are closed, the goroutines and requests of List,   *)
(* ReadDirStream and the commands never wait for one another in a circle:  *)
(* only the exact fallback does, once it has left the loop at its cap.     *)
THEOREM NobodyWaitsForever == Spec => []NoneStuck
<1> DEFINE J == SlotsAnswering /\ \A p \in Pipe : Linked(p)
<1>1. Init => J
  <2> SUFFICES ASSUME Init PROVE J
      OBVIOUS
  <2>1. ASSUME NEW p \in Pipe
        PROVE  cons[p].pc = "recv" /\ (Fw(kind[p]) => fwd[p].pc = "virtual")
        BY DEF Init, Forwarded, Fw
  <2> QED BY <2>1 DEF Init, SlotsAnswering, Linked, Links
<1>2. Inv /\ J /\ [Next]_vars => J'
  <2> SUFFICES ASSUME Inv, J, [Next]_vars, NEW q \in Pipe PROVE Linked(q)'
      BY SlotsStayAnswering
  <2>1. CASE UNCHANGED vars
        BY <2>1 DEF vars, Linked, Links, Fw
  <2>2. CASE Next
    <3>1. PICK p \in Pipe :
              \/ \E who \in {"prod", "cons"} : Acquire(p, who)
              \/ ProdStep(p) \/ FwdStep(p) \/ ConsStep(p) \/ DirClose(p)
          BY <2>2 DEF Next
    <3>2. CASE \E who \in {"prod", "cons"} : Acquire(p, who)
          BY <3>2 DEF Acquire, Linked, Links, Fw
    <3> QED BY <3>1, <3>2, LinkedAfterProd, LinkedAfterFwd, LinkedAfterCons, LinkedAfterClose
  <2> QED BY <2>1, <2>2
<1> QED
  <2>1. Spec => []J
        BY <1>1, <1>2, Invariance, PTL DEF Spec
  <2>2. J /\ Inv => NoneStuck
        BY LinkedNotStuck DEF SlotsAnswering, NoneStuck
  <2> QED BY <2>1, <2>2, Invariance, PTL

-----------------------------------------------------------------------------
(* Nobody goes on for good.                                                *)

ProdLeft(pc) == CASE pc = "open" -> 4 [] pc = "query" -> 3 [] pc = "emit" -> 2
                  [] pc = "close" -> 1 [] OTHER -> 0

FwdLeft(F) == CASE F.pc = "virtual" -> 2 + F.virtual [] F.pc = "send" -> 2
                [] F.pc = "recv" -> 1 [] OTHER -> 0

ConsLeft(pc) == CASE pc = "fetch" -> 4 [] pc = "recv" -> 3 [] pc = "errf" -> 2
                  [] pc = "eof" -> 1 [] OTHER -> 0

Unasked(p) == (IF <<p, "prod">> \in slots THEN 0 ELSE 1) + (IF <<p, "cons">> \in slots THEN 0 ELSE 1)

(* What is left to do of a stream, the weightiest first: indices, hits of  *)
(* the index at hand, and the stages of those who deal with the next hit.  *)
LeftOf(P, F, C, u) ==
    << Len(NDocs) - P.idx, NDocs[P.idx] - P.after,
       ProdLeft(P.pc), FwdLeft(F), ConsLeft(C.pc), u >>

Left(p) == LeftOf(prod[p], fwd[p], cons[p], Unasked(p))

Less(new, old) == \E i \in 1..6 : new[i] < old[i] /\ \A j \in 1..(i - 1) : new[j] = old[j]

(* Every step brings the one stream that takes it closer to its end.  The  *)
(* order of Left is well-founded: however its steps interleave with those  *)
(* of others, a stream takes finitely many.                                *)
StreamsWearOut ==
    [][\E p \in Pipe : /\ Less(Left(p)', Left(p))
                       /\ \A q \in Pipe \ {p} : Left(q)' = Left(q)]_vars

LEMMA StagesLeft ==
    /\ \A P \in ProdState : ProdLeft(P.pc) \in 0..4
    /\ \A F \in FwdState : FwdLeft(F) \in 0..6
    /\ \A C \in ConsState : ConsLeft(C.pc) \in 0..4
    /\ \A p \in Pipe : Unasked(p) \in 0..2
<1>1. \A P \in ProdState : ProdLeft(P.pc) \in 0..4
      BY DEF ProdLeft
<1>2. \A F \in FwdState : FwdLeft(F) \in 0..6
      BY FieldsTyped DEF FwdLeft
<1>3. \A C \in ConsState : ConsLeft(C.pc) \in 0..4
      BY DEF ConsLeft
<1>4. \A p \in Pipe : Unasked(p) \in 0..2
      BY DEF Unasked
<1> QED BY <1>1, <1>2, <1>3, <1>4

(* The ways in which a stream has less left to do.                         *)
LEMMA WaysToLess ==
    ASSUME NEW P \in ProdState, NEW F, NEW C, NEW u \in Nat,
           NEW Q \in ProdState, NEW G, NEW D, NEW v \in Nat,
           \/ Q.idx = P.idx + 1
           \/ Q.idx = P.idx /\ Q.after = P.after + 1
           \/ Q.idx = P.idx /\ Q.after = P.after /\ ProdLeft(Q.pc) < ProdLeft(P.pc)
           \/ Q = P /\ FwdLeft(G) < FwdLeft(F)
           \/ Q = P /\ G = F /\ ConsLeft(D.pc) < ConsLeft(C.pc)
           \/ Q = P /\ G = F /\ D = C /\ v < u
    PROVE  Less(LeftOf(Q, G, D, v), LeftOf(P, F, C, u))
<1>1. P.idx \in Nat /\ Q.idx \in Nat /\ P.idx \in Index /\ Q.idx \in Index /\ P.after \in Nat /\ Len(NDocs) \in Nat
      BY FieldsTyped, NDocsFacts
<1>2. NDocs[P.idx] \in Nat
      BY <1>1, NDocsFacts
<1>3. CASE Q.idx = P.idx + 1
      BY <1>1, <1>3 DEF Less, LeftOf
<1>4. CASE Q.idx = P.idx /\ Q.after = P.after + 1
      BY <1>1, <1>2, <1>4 DEF Less, LeftOf
<1>5. CASE Q.idx = P.idx /\ Q.after = P.after /\ ProdLeft(Q.pc) < ProdLeft(P.pc)
      BY <1>5 DEF Less, LeftOf
<1>6. CASE Q = P /\ FwdLeft(G) < FwdLeft(F)
      BY <1>6 DEF Less, LeftOf
<1>7. CASE Q = P /\ G = F /\ ConsLeft(D.pc) < ConsLeft(C.pc)
      BY <1>7 DEF Less, LeftOf
<1>8. CASE Q = P /\ G = F /\ D = C /\ v < u
      BY <1>8 DEF Less, LeftOf
<1> QED BY <1>3, <1>4, <1>5, <1>6, <1>7, <1>8
(* What a step of p does to it, as far as Left is concerned.               *)
Ways(p) ==
    \/ prod'[p].idx = prod[p].idx + 1
    \/ prod'[p].idx = prod[p].idx /\ prod'[p].after = prod[p].after + 1
    \/ /\ prod'[p].idx = prod[p].idx /\ prod'[p].after = prod[p].after
       /\ ProdLeft(prod'[p].pc) < ProdLeft(prod[p].pc)
    \/ prod' = prod /\ FwdLeft(fwd'[p]) < FwdLeft(fwd[p])
    \/ prod' = prod /\ fwd' = fwd /\ ConsLeft(cons'[p].pc) < ConsLeft(cons[p].pc)
    \/ /\ prod' = prod /\ fwd' = fwd /\ cons' = cons
       /\ \E who \in {"prod", "cons"} : <<p, who>> \notin slots /\ slots' = slots \cup {<<p, who>>}

LEMMA ProdWearsOut ==
    ASSUME Inv, NEW p \in Pipe, ProdStep(p)
    PROVE  Ways(p)
<1>0. prod \in [Pipe -> ProdState]
      BY DEF Inv, TypeOK
<1>1. CASE ProdFail(p)
  <2>1. /\ prod'[p].idx = prod[p].idx /\ prod'[p].after = prod[p].after
        /\ prod'[p].pc = IF prod[p].pc = "open" THEN "done" ELSE "close"
        /\ prod[p].pc \in {"open", "query"}
        BY <1>0, <1>1 DEF ProdFail, ProdState
  <2> QED BY <2>1 DEF Ways, ProdLeft
<1>2. CASE OpenPIT(p)
  <2>1. /\ prod'[p].idx = prod[p].idx /\ prod'[p].after = prod[p].after
        /\ prod'[p].pc = "query" /\ prod[p].pc = "open"
        BY <1>0, <1>2 DEF OpenPIT, ProdState
  <2> QED BY <2>1 DEF Ways, ProdLeft
<1>3. CASE Query(p)
  <2>1. /\ prod'[p].idx = prod[p].idx /\ prod'[p].after = prod[p].after
        /\ prod'[p].pc \in {"close", "emit"} /\ prod[p].pc = "query"
        BY <1>0, <1>3 DEF Query, ProdState
  <2> QED BY <2>1 DEF Ways, ProdLeft
<1>4. CASE EmitCancelled(p)
  <2>1. /\ prod'[p].idx = prod[p].idx /\ prod'[p].after = prod[p].after
        /\ prod'[p].pc = "close" /\ prod[p].pc = "emit"
        BY <1>0, <1>4 DEF EmitCancelled, ProdState
  <2> QED BY <2>1 DEF Ways, ProdLeft
<1>5. CASE ClosePIT(p) \/ CloseTimeout(p)
  <2>1. PICK u, l : prod'[p] = NextOrDone(p, u, l) /\ prod[p].pc = "close"
        BY <1>0, <1>5 DEF ClosePIT, CloseTimeout
  <2>2. CASE kind[p] = "search" /\ ~prod[p].err /\ prod[p].idx < Len(NDocs)
        BY <1>0, <2>1, <2>2 DEF NextOrDone, StreamOf, Ways
  <2>3. CASE ~(kind[p] = "search" /\ ~prod[p].err /\ prod[p].idx < Len(NDocs))
    <3>1. /\ prod'[p].idx = prod[p].idx /\ prod'[p].after = prod[p].after
          /\ prod'[p].pc = "done" /\ prod[p].pc = "close"
          BY <1>0, <2>1, <2>3 DEF NextOrDone, ProdState
    <3> QED BY <3>1 DEF Ways, ProdLeft
  <2> QED BY <2>2, <2>3
<1> QED BY <1>1, <1>2, <1>3, <1>4, <1>5 DEF ProdStep, ProdRun

LEMMA VirtualWearsOut ==
    ASSUME Inv, NEW p \in Pipe, fwd[p].pc = "virtual", NextVirtual(p)
    PROVE  FwdLeft(fwd'[p]) < FwdLeft(fwd[p])
<1>1. fwd \in [Pipe -> FwdState] /\ fwd[p].virtual \in 1..4
      BY Now, FieldsTyped DEF Inv, TypeOK, Good, Typed, Handover
<1>2. /\ fwd'[p].virtual = fwd[p].virtual - 1
      /\ fwd'[p].pc = IF fwd[p].virtual = 1 THEN "recv" ELSE "virtual"
      BY <1>1 DEF NextVirtual, FwdState
<1> QED BY <1>1, <1>2 DEF FwdLeft

LEMMA FwdWearsOut ==
    ASSUME Inv, NEW p \in Pipe, FwdStep(p)
    PROVE  Ways(p)
<1>0. fwd \in [Pipe -> FwdState] /\ prod \in [Pipe -> ProdState]
      BY DEF Inv, TypeOK
<1>1. CASE FwdReceive(p)
  <2>1. prod[p].pc = "emit" /\ prod'[p] = Emitted(p)
        BY <1>0, <1>1 DEF FwdReceive
  <2> QED BY <2>1, EmittedFacts DEF Ways
<1>2. CASE FwdEnd(p)
  <2>1. UNCHANGED prod /\ fwd[p].pc \in {"recv", "send"} /\ fwd'[p].pc = "done"
        BY <1>0, <1>2 DEF FwdEnd, FwdState
  <2> QED BY <2>1 DEF Ways, FwdLeft
<1>3. CASE FwdSkipVirtual(p)
      BY <1>3, VirtualWearsOut DEF FwdSkipVirtual, Ways
<1> QED BY <1>1, <1>2, <1>3 DEF FwdStep

LEMMA ConsWearsOut ==
    ASSUME Inv, NEW p \in Pipe, ConsStep(p) \/ DirClose(p)
    PROVE  Ways(p)
<1>0. /\ fwd \in [Pipe -> FwdState] /\ prod \in [Pipe -> ProdState]
      /\ cons \in [Pipe -> ConsState]
      BY DEF Inv, TypeOK
<1>1. CASE ReceiveVirtual(p)
      BY <1>1, VirtualWearsOut DEF ReceiveVirtual, Ways
<1>2. CASE ReceiveForwarded(p)
  <2>1. UNCHANGED prod /\ fwd[p].pc = "send" /\ fwd'[p].pc = "recv"
        BY <1>0, <1>2 DEF ReceiveForwarded, FwdState
  <2> QED BY <2>1 DEF Ways, FwdLeft
<1>3. CASE Receive(p)
  <2>1. prod[p].pc = "emit" /\ prod'[p] = Emitted(p)
        BY <1>0, <1>3 DEF Receive
  <2> QED BY <2>1, EmittedFacts DEF Ways
<1>4. CASE Fetched(p) \/ FetchFailed(p)
  <2>1. UNCHANGED <<prod, fwd>> /\ cons[p].pc = "fetch" /\ cons'[p].pc \in {"errf", "recv"}
        BY <1>0, <1>4 DEF Fetched, FetchFailed, ConsState
  <2> QED BY <2>1 DEF Ways, ConsLeft
<1>5. CASE ReceiveEnd(p)
  <2>1. UNCHANGED <<prod, fwd>> /\ cons[p].pc = "recv" /\ cons'[p].pc \in {"eof", "errf"}
        BY <1>0, <1>5 DEF ReceiveEnd, ConsState
  <2> QED BY <2>1 DEF Ways, ConsLeft
<1>6. CASE ErrF(p)
  <2>1. CASE kind[p] \in {"ls", "exact"} /\ prod[p].idx < LastIndex(p)
        BY <1>0, <1>6, <2>1 DEF ErrF, StreamOf, Ways
  <2>2. CASE ~(kind[p] \in {"ls", "exact"} /\ prod[p].idx < LastIndex(p))
    <3>1. UNCHANGED <<prod, fwd>> /\ cons[p].pc = "errf" /\ cons'[p].pc = "returned"
          BY <1>0, <1>6, <2>2 DEF ErrF, ConsState
    <3> QED BY <3>1 DEF Ways, ConsLeft
  <2> QED BY <2>1, <2>2
<1>7. CASE DirClose(p)
  <2>1. UNCHANGED <<prod, fwd>> /\ cons[p].pc \in {"recv", "eof"} /\ cons'[p].pc = "closed"
        BY <1>0, <1>7 DEF DirClose, ConsState
  <2> QED BY <2>1 DEF Ways, ConsLeft
<1> QED BY <1>1, <1>2, <1>3, <1>4, <1>5, <1>6, <1>7 DEF ConsStep

(* A step of one stream leaves the others alone.                           *)
LEMMA OthersAlone ==
    ASSUME Inv, NEW p \in Pipe, NEW q \in Pipe \ {p},
           \/ \E who \in {"prod", "cons"} : Acquire(p, who)
           \/ ProdStep(p) \/ FwdStep(p) \/ ConsStep(p) \/ DirClose(p)
    PROVE  Left(q)' = Left(q)
<1>0. /\ fwd \in [Pipe -> FwdState] /\ prod \in [Pipe -> ProdState]
      /\ cons \in [Pipe -> ConsState] /\ q # p
      BY DEF Inv, TypeOK
<1>1. prod'[q] = prod[q]
      BY <1>0 DEF Acquire, ProdStep, ProdRun, ProdFail, OpenPIT, Query, EmitCancelled, ClosePIT,
                  CloseTimeout, FwdStep,
                  FwdReceive, FwdEnd, FwdSkipVirtual, ConsStep, ReceiveVirtual, ReceiveForwarded,
                  Receive, Fetched, FetchFailed, ReceiveEnd, ErrF, DirClose
<1>2. fwd'[q] = fwd[q]
      BY <1>0 DEF Acquire, ProdStep, ProdRun, ProdFail, OpenPIT, Query, EmitCancelled, ClosePIT,
                  CloseTimeout, FwdStep,
                  FwdReceive, FwdEnd, FwdSkipVirtual, ConsStep, ReceiveVirtual, ReceiveForwarded,
                  Receive, Fetched, FetchFailed, ReceiveEnd, ErrF, DirClose, NextVirtual
<1>3. cons'[q] = cons[q]
      BY <1>0 DEF Acquire, ProdStep, ProdRun, ProdFail, OpenPIT, Query, EmitCancelled, ClosePIT,
                  CloseTimeout, FwdStep,
                  FwdReceive, FwdEnd, FwdSkipVirtual, ConsStep, ReceiveVirtual, ReceiveForwarded,
                  Receive, Fetched, FetchFailed, ReceiveEnd, ErrF, DirClose
<1>4. \A who : <<q, who>> \in slots' <=> <<q, who>> \in slots
      BY <1>0 DEF Acquire, ProdStep, ProdRun, ProdFail, OpenPIT, Query, EmitCancelled, ClosePIT,
                  CloseTimeout, FwdStep,
                  FwdReceive, FwdEnd, FwdSkipVirtual, ConsStep, ReceiveVirtual, ReceiveForwarded,
                  Receive, Fetched, FetchFailed, ReceiveEnd, ErrF, DirClose, Release
<1> QED BY <1>1, <1>2, <1>3, <1>4 DEF Left, Unasked

(* What is left of a stream is counted in natural numbers, of which the    *)
(* order of Left lets a stream use up finitely many: no paging loop,       *)
(* hand-over or wait goes round for ever, however many streams there are.  *)
(* With NobodyWaitsForever, all that a stream needs to end is its turn.    *)
THEOREM NobodyGoesOnForever ==
    /\ Spec => [](\A p \in Pipe : \A i \in 1..6 : Left(p)[i] \in Nat)
    /\ Spec => StreamsWearOut
<1>1. Inv => \A p \in Pipe : \A i \in 1..6 : Left(p)[i] \in Nat
  <2> SUFFICES ASSUME Inv, NEW p \in Pipe PROVE \A i \in 1..6 : Left(p)[i] \in Nat
      OBVIOUS
  <2>1. PICK P, F, C : P = prod[p] /\ F = fwd[p] /\ C = cons[p]
        OBVIOUS
  <2>2. P \in ProdState /\ F \in FwdState /\ C \in ConsState
        BY <2>1, Now DEF Good, Typed
  <2>3. P.idx \in Index /\ P.after \in Nat /\ P.after <= NDocs[P.idx]
        BY <2>1, <2>2, FieldsTyped, Now DEF Good, Paging
  <2>4. Len(NDocs) - P.idx \in Nat /\ NDocs[P.idx] - P.after \in Nat
        BY <2>3, NDocsFacts DEF Index
  <2> QED BY <2>1, <2>2, <2>4, StagesLeft DEF Left, LeftOf
<1>2. Inv /\ Inv' /\ [Next]_vars =>
          [\E p \in Pipe : /\ Less(Left(p)', Left(p))
                           /\ \A q \in Pipe \ {p} : Left(q)' = Left(q)]_vars
  <2> SUFFICES ASSUME Inv, Inv', Next
               PROVE  \E p \in Pipe : /\ Less(Left(p)', Left(p))
                                      /\ \A q \in Pipe \ {p} : Left(q)' = Left(q)
      BY DEF vars
  <2>1. PICK p \in Pipe :
            \/ \E who \in {"prod", "cons"} : Acquire(p, who)
            \/ ProdStep(p) \/ FwdStep(p) \/ ConsStep(p) \/ DirClose(p)
        BY DEF Next
  <2>2. Ways(p)
        BY <2>1, ProdWearsOut, FwdWearsOut, ConsWearsOut DEF Acquire, Ways
  <2>3. prod[p] \in ProdState /\ prod'[p] \in ProdState /\ Unasked(p) \in Nat /\ Unasked(p)' \in Nat
        BY DEF Inv, TypeOK, Unasked
  <2>4. Less(Left(p)', Left(p))
    <3>1. CASE \E who \in {"prod", "cons"} : <<p, who>> \notin slots /\ slots' = slots \cup {<<p, who>>}
      <4>1. Unasked(p)' < Unasked(p)
            BY <3>1 DEF Unasked
      <4> QED BY <2>2, <2>3, <4>1, WaysToLess DEF Ways, Left
    <3>2. CASE ~\E who \in {"prod", "cons"} : <<p, who>> \notin slots /\ slots' = slots \cup {<<p, who>>}
          BY <2>2, <2>3, <3>2, WaysToLess DEF Ways, Left
    <3> QED BY <3>1, <3>2
  <2> QED BY <2>1, <2>4, OthersAlone
<1>3. Spec => [](\A p \in Pipe : \A i \in 1..6 : Left(p)[i] \in Nat)
      BY <1>1, Invariance, PTL
<1>4. Spec => StreamsWearOut
      BY <1>2, Invariance, PTL DEF Spec, StreamsWearOut
<1> QED BY <1>3, <1>4
=============================================================================
