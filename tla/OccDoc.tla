------------------------------- MODULE OccDoc -------------------------------
(***************************************************************************)
(* What ESFS promises about a document that several editors open, stated   *)
(* without caches, buffers, requests or retries (README.md: "version       *)
(* conflicts surface as errors, never silent overwrites").                 *)
(*                                                                         *)
(* A document is the list of its versions.  An editor opens one document   *)
(* and sees one of its versions, perhaps an old one, or none.  It may then *)
(* store a version of that document only as long as nobody else has: on    *)
(* the version it saw, on its own last one, or, having seen none, where    *)
(* there is none.  Everybody else may change any document at any time.     *)
(***************************************************************************)
EXTENDS Naturals, Sequences

CONSTANTS
    Doc,        \* the documents
    Editor,     \* the opens for writing
    Body,       \* what a document may hold
    Nobody,     \* the author of a change made by anyone else
    Absent      \* what a deletion leaves

VARIABLES
    hist,       \* each document's versions: a value and the editor that stored it
    base        \* the document an editor opened, and the version it saw (0: none)

vars == <<hist, base>>

Unopened == [doc |-> Nobody, seen |-> 0]

Init ==
    /\ hist = [d \in Doc |-> <<>>]
    /\ base = [e \in Editor |-> Unopened]

Held(d, n) == n \in 1..Len(hist[d]) /\ hist[d][n].val # Absent

Open(e, d, n) ==
    /\ base[e] = Unopened
    /\ n = 0 \/ Held(d, n)
    /\ base' = [base EXCEPT ![e] = [doc |-> d, seen |-> n]]
    /\ UNCHANGED hist

Grow(d, val, by) ==
    /\ hist' = [hist EXCEPT ![d] = Append(@, [val |-> val, by |-> by])]
    /\ UNCHANGED base

MayStore(e, d) ==
    LET n == Len(hist[d]) IN
    /\ base[e].doc = d
    /\ \/ n # 0 /\ hist[d][n].by = e
       \/ n # 0 /\ n = base[e].seen
       \/ base[e].seen = 0 /\ ~Held(d, n)

Store(e, d, b) == MayStore(e, d) /\ Grow(d, b, e)

Next ==
    \/ \E e \in Editor, d \in Doc :
         \/ \E n \in 0..Len(hist[d]) : Open(e, d, n)
         \/ \E b \in Body : Store(e, d, b)
    \/ \E d \in Doc, val \in Body \cup {Absent} : Grow(d, val, Nobody)

Spec == Init /\ [][Next]_vars
=============================================================================
