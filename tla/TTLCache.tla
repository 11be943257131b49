------------------------------ MODULE TTLCache ------------------------------
(***************************************************************************)
(* ttlCache of internal/escore/cache.go, the bounded LRU with per-entry    *)
(* TTL behind docCache and the three metadata caches.  Every operation     *)
(* holds the mutex throughout, so each is one action.                      *)
(*                                                                         *)
(* A list element is identified with its key: ll is the list c.ll from     *)
(* front to back, items maps the keys of c.items to their entries.         *)
(***************************************************************************)
EXTENDS Integers, Sequences, FiniteSets

CONSTANTS Key, Val, Miss,
          CapacityArg,  \* the capacity newTTLCache is called with
          TTL,          \* in ticks of the clock; 0 disables expiry
          MaxTime,      \* bound: the last time the clock shows
          MaxUses       \* bound: puts and hits

ASSUME CapacityAssumption == CapacityArg \in Int
ASSUME TTLAssumption == TTL \in Nat
ASSUME MaxAssumption == MaxTime \in Nat /\ MaxUses \in Nat

VARIABLES ll, items, now,
          res,          \* the answer of the latest Get
          uses, used    \* history: puts and hits so far; each key's latest

vars == <<ll, items, now, res, uses, used>>

capacity == IF CapacityArg <= 0 THEN 1024 ELSE CapacityArg

CacheEntry == [val : Val, exp : Nat]

Init ==
    /\ ll = <<>> /\ items = <<>>
    /\ now = 0 /\ res = Miss
    /\ uses = 0 /\ used = [k \in Key |-> 0]

(* Operations of container/list.                                           *)
Position(s, k) == CHOOSE i \in 1..Len(s) : s[i] = k

MoveToFront(s, k) ==
    [i \in 1..Len(s) |-> IF i = 1 THEN k ELSE IF i <= Position(s, k) THEN s[i-1] ELSE s[i]]

PushFront(s, k) == [i \in 1..Len(s)+1 |-> IF i = 1 THEN k ELSE s[i-1]]

Remove(s, k) == [i \in 1..Len(s)-1 |-> IF i < Position(s, k) THEN s[i] ELSE s[i+1]]

(* Mutant: the loop stops one too late.                                    *)
TrimLate(s) == IF Len(s) > capacity + 1 THEN SubSeq(s, 1, capacity + 1) ELSE s

(* The loop that removes elements from the back.                           *)
Trim(s) == IF Len(s) > capacity THEN SubSeq(s, 1, capacity) ELSE s

Elements(s) == {s[i] : i \in 1..Len(s)}

Use(k) ==
    /\ uses < MaxUses
    /\ uses' = uses + 1
    /\ used' = [used EXCEPT ![k] = uses + 1]

(* Mutant: the map keeps an element that has left the list.                *)
removeElementListOnly(k) == ll' = Remove(ll, k) /\ UNCHANGED items

removeElement(k) ==
    /\ ll' = Remove(ll, k)
    /\ items' = [x \in DOMAIN items \ {k} |-> items[x]]

(* Mutant: an expired entry is still served.                               *)
ExpiredNever(k) == FALSE

Expired(k) == TTL > 0 /\ now > items[k].exp

GetAbsent(k) ==
    /\ k \notin DOMAIN items
    /\ res' = Miss
    /\ UNCHANGED <<ll, items, now, uses, used>>

GetExpired(k) ==
    /\ k \in DOMAIN items /\ Expired(k)
    /\ removeElement(k)
    /\ res' = Miss
    /\ UNCHANGED <<now, uses, used>>

(* Mutant: a hit leaves its entry where it is in the list.                 *)
GetHitUnmoved(k) ==
    /\ k \in DOMAIN items /\ ~Expired(k)
    /\ Use(k)
    /\ res' = items[k].val
    /\ UNCHANGED <<ll, items, now>>

GetHit(k) ==
    /\ k \in DOMAIN items /\ ~Expired(k)
    /\ Use(k)
    /\ ll' = MoveToFront(ll, k)
    /\ res' = items[k].val
    /\ UNCHANGED <<items, now>>

Exp == IF TTL > 0 THEN now + TTL ELSE 0

PutPresent(k, v) ==
    /\ k \in DOMAIN items
    /\ Use(k)
    /\ items' = [items EXCEPT ![k] = [val |-> v, exp |-> Exp]]
    /\ ll' = MoveToFront(ll, k)
    /\ UNCHANGED <<now, res>>

PutNew(k, v) ==
    /\ k \notin DOMAIN items
    /\ Use(k)
    /\ ll' = Trim(PushFront(ll, k))
    /\ items' = [x \in (DOMAIN items \cup {k}) \cap Elements(ll') |->
                    IF x = k THEN [val |-> v, exp |-> Exp] ELSE items[x]]
    /\ UNCHANGED <<now, res>>

Invalidate(k) ==
    /\ k \in DOMAIN items
    /\ removeElement(k)
    /\ UNCHANGED <<now, res, uses, used>>

Tick == now < MaxTime /\ now' = now + 1 /\ UNCHANGED <<ll, items, res, uses, used>>

Next ==
    \/ \E k \in Key :
         \/ GetAbsent(k) \/ GetExpired(k) \/ GetHit(k) \/ Invalidate(k)
         \/ \E v \in Val : PutPresent(k, v) \/ PutNew(k, v)
    \/ Tick

Spec == Init /\ [][Next]_vars

-----------------------------------------------------------------------------
(* The types of the variables.                                             *)
TypeOK ==
    /\ ll \in Seq(Key)
    /\ DOMAIN items \subseteq Key /\ items \in [DOMAIN items -> CacheEntry]
    /\ now \in Nat /\ res \in Val \cup {Miss}
    /\ uses \in Nat /\ used \in [Key -> 0..uses]

(* The list and the map never drift apart, across hits, replacements,      *)
(* expiry, eviction and invalidation: each key of the map is in the list   *)
(* exactly once, and nothing else is.                                      *)
ListMatchesMap ==
    /\ Elements(ll) = DOMAIN items
    /\ \A i, j \in 1..Len(ll) : ll[i] = ll[j] => i = j

(* The cache never holds more than its capacity.                           *)
Bounded == Len(ll) <= capacity

(* The list is in the order of latest use, most recent first.              *)
RecencyOrder == \A i, j \in 1..Len(ll) : i < j => used[ll[i]] > used[ll[j]]

(* A step that adds a key forgets nothing while there is room, and         *)
(* otherwise exactly the key whose latest use is the oldest.               *)
EvictionIsLRU ==
    \A k \in DOMAIN items' \ DOMAIN items :
        LET evicted == DOMAIN items \ DOMAIN items' IN
        IF Cardinality(DOMAIN items) < capacity THEN evicted = {}
        ELSE \E e \in evicted : evicted = {e} /\ \A x \in DOMAIN items \ {e} : used[x] > used[e]

(* Putting a new key evicts the least recently used one, and only when the *)
(* cache is full: hits and replacements have renewed their keys' places.   *)
EvictsOldest == [][EvictionIsLRU]_vars

Map == INSTANCE LossyMap WITH store <- items

(* The cache implements the lossy map.                                     *)
MapSpec == Map!MapSpec
=============================================================================
