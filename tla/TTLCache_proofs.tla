--------------------------- MODULE TTLCache_proofs ---------------------------
(***************************************************************************)
(* Proofs about ttlCache, for every capacity, TTL and set of keys: the     *)
(* list and the map stay in step, the capacity is respected, a put evicts  *)
(* exactly the least recently used key, and the cache implements LossyMap. *)
(***************************************************************************)
EXTENDS TTLCache, TLAPS, FiniteSetTheorems, SequenceTheorems

Distinct(s) == \A i, j \in 1..Len(s) : s[i] = s[j] => i = j

-----------------------------------------------------------------------------
(* What the list operations return: r is s with k moved to the front, with *)
(* k added at the front, without k, or cut to its first n elements.        *)
OrderFrom(s, r, a) ==
    \A i, j \in a..Len(r) : i < j =>
        \E m, n \in 1..Len(s) : m < n /\ r[i] = s[m] /\ r[j] = s[n]

Moved(s, r, k) ==
    /\ r \in Seq(Key) /\ Len(r) = Len(s) /\ Elements(r) = Elements(s) /\ Distinct(r)
    /\ r[1] = k /\ OrderFrom(s, r, 2)

Added(s, r, k) ==
    /\ r \in Seq(Key) /\ Len(r) = Len(s) + 1 /\ Elements(r) = Elements(s) \cup {k}
    /\ Distinct(r) /\ r[1] = k /\ \A i \in 2..Len(r) : r[i] = s[i-1]

Removed(s, r, k) ==
    /\ r \in Seq(Key) /\ Len(r) = Len(s) - 1 /\ Elements(r) = Elements(s) \ {k}
    /\ Distinct(r) /\ OrderFrom(s, r, 1)

Front(s, r, n) ==
    /\ r \in Seq(Key) /\ Len(r) = n /\ Distinct(r)
    /\ \A i \in 1..n : i \in 1..Len(s) /\ r[i] = s[i]

(* A function on 1..n is a sequence of length n.                           *)
LEMMA FunctionIsSeq ==
    ASSUME NEW S, NEW n \in Nat, NEW s \in [1..n -> S]
    PROVE  s \in Seq(S) /\ Len(s) = n
OBVIOUS

(* An element of the list has a position in it.                            *)
LEMMA PositionOfElement ==
    ASSUME NEW s \in Seq(Key), NEW k \in Elements(s)
    PROVE  Position(s, k) \in 1..Len(s) /\ s[Position(s, k)] = k
BY DEF Elements, Position

(* MoveToFront permutes a list without repetitions: k comes first, and the *)
(* order of the other elements stays.                                      *)
LEMMA MoveToFrontPermutes ==
    ASSUME NEW s \in Seq(Key), Distinct(s), NEW k \in Elements(s),
           NEW r, r = MoveToFront(s, k)
    PROVE  Moved(s, r, k)
<1> DEFINE p == Position(s, k)
<1>1. p \in 1..Len(s) /\ s[p] = k
      BY PositionOfElement
<1>2. r = [i \in 1..Len(s) |-> IF i = 1 THEN k ELSE IF i <= p THEN s[i-1] ELSE s[i]]
      BY DEF MoveToFront
<1> HIDE DEF p
<1>3. r \in [1..Len(s) -> Key]
      BY <1>1, <1>2
<1>4. r \in Seq(Key) /\ Len(r) = Len(s)
      BY <1>3, FunctionIsSeq
<1>5. r[1] = k
      BY <1>1, <1>2
<1>6. OrderFrom(s, r, 2)
  <2> SUFFICES ASSUME NEW i \in 2..Len(r), NEW j \in 2..Len(r), i < j
               PROVE  \E m, n \in 1..Len(s) : m < n /\ r[i] = s[m] /\ r[j] = s[n]
      BY DEF OrderFrom
  <2> DEFINE from(x) == IF x <= p THEN x - 1 ELSE x
  <2>1. from(i) \in 1..Len(s) /\ from(j) \in 1..Len(s) /\ from(i) < from(j)
        BY <1>1, <1>4
  <2>2. r[i] = s[from(i)] /\ r[j] = s[from(j)]
        BY <1>1, <1>2, <1>4
  <2> QED BY <2>1, <2>2
<1>7. Distinct(r)
      BY <1>1, <1>2, <1>4 DEF Distinct
<1>8. Elements(r) = Elements(s)
  <2>1. ASSUME NEW i \in 1..Len(s) PROVE \E j \in 1..Len(s) : r[i] = s[j]
    <3>1. CASE i = 1 BY <3>1, <1>1, <1>5
    <3>2. CASE 1 < i /\ i <= p
      <4>1. i - 1 \in 1..Len(s) /\ r[i] = s[i-1]
            BY <3>2, <1>2
      <4> QED BY <4>1
    <3>3. CASE i > p BY <3>3, <1>1, <1>2
    <3> QED BY <3>1, <3>2, <3>3, <1>1
  <2>2. ASSUME NEW i \in 1..Len(s) PROVE \E j \in 1..Len(s) : r[j] = s[i]
    <3>1. CASE i = p BY <3>1, <1>1, <1>5
    <3>2. CASE i < p
      <4>1. i + 1 \in 1..Len(s) /\ r[i+1] = s[i]
            BY <3>2, <1>1, <1>2
      <4> QED BY <4>1
    <3>3. CASE i > p BY <3>3, <1>1, <1>2
    <3> QED BY <3>1, <3>2, <3>3, <1>1
  <2>3. /\ \A x : x \in Elements(r) <=> \E i \in 1..Len(s) : r[i] = x
        /\ \A x : x \in Elements(s) <=> \E i \in 1..Len(s) : s[i] = x
        BY <1>4 DEF Elements
  <2> QED BY <2>1, <2>2, <2>3
<1> QED BY <1>4, <1>5, <1>6, <1>7, <1>8 DEF Moved

(* PushFront puts a new element before the others.                         *)
LEMMA PushFrontAdds ==
    ASSUME NEW s \in Seq(Key), Distinct(s), NEW k \in Key, k \notin Elements(s),
           NEW r, r = PushFront(s, k)
    PROVE  Added(s, r, k)
<1>1. r = [i \in 1..Len(s)+1 |-> IF i = 1 THEN k ELSE s[i-1]]
      BY DEF PushFront
<1>2. r \in [1..Len(s)+1 -> Key]
      BY <1>1
<1>3. r \in Seq(Key) /\ Len(r) = Len(s) + 1
      BY <1>2, FunctionIsSeq
<1>4. r[1] = k /\ \A i \in 2..Len(r) : r[i] = s[i-1]
      BY <1>1, <1>3
<1>5. Distinct(r)
  <2>1. \A i \in 2..Len(r) : i - 1 \in 1..Len(s) /\ r[i] = s[i-1] /\ r[i] # k
        BY <1>3, <1>4 DEF Elements
  <2>2. ASSUME NEW i \in 1..Len(r), NEW j \in 1..Len(r), r[i] = r[j] PROVE i = j
    <3>1. CASE i = 1 \/ j = 1 BY <3>1, <2>1, <2>2, <1>4
    <3>2. CASE i # 1 /\ j # 1
      <4>1. i - 1 \in 1..Len(s) /\ j - 1 \in 1..Len(s) /\ s[i-1] = s[j-1]
            BY <3>2, <2>1, <2>2
      <4>2. i - 1 = j - 1
            BY <4>1 DEF Distinct
      <4> QED BY <4>2
    <3> QED BY <3>1, <3>2
  <2> QED BY <2>2 DEF Distinct
<1>6. Elements(r) = Elements(s) \cup {k}
  <2>1. ASSUME NEW i \in 1..Len(r) PROVE r[i] = k \/ \E j \in 1..Len(s) : r[i] = s[j]
    <3>1. CASE i = 1 BY <3>1, <1>4
    <3>2. CASE i # 1
      <4>1. i - 1 \in 1..Len(s) /\ r[i] = s[i-1]
            BY <3>2, <1>3, <1>4
      <4> QED BY <4>1
    <3> QED BY <3>1, <3>2
  <2>2. ASSUME NEW i \in 1..Len(s) PROVE \E j \in 1..Len(r) : r[j] = s[i]
    <3>1. i + 1 \in 1..Len(r) /\ i + 1 \in 2..Len(r) /\ (i + 1) - 1 = i
          BY <1>3
    <3>2. r[i+1] = s[i]
          BY <3>1, <1>4
    <3> QED BY <3>1, <3>2
  <2>3. k \in Elements(r)
        BY <1>3, <1>4 DEF Elements
  <2>4. /\ \A x : x \in Elements(r) <=> \E i \in 1..Len(r) : r[i] = x
        /\ \A x : x \in Elements(s) <=> \E i \in 1..Len(s) : s[i] = x
        BY DEF Elements
  <2>5. Elements(r) \subseteq Elements(s) \cup {k}
        BY <2>1, <2>4
  <2>6. Elements(s) \subseteq Elements(r)
        BY <2>2, <2>4
  <2> QED BY <2>3, <2>5, <2>6
<1> QED BY <1>3, <1>4, <1>5, <1>6 DEF Added

(* Remove drops one element and keeps the order of the others.             *)
LEMMA RemoveDrops ==
    ASSUME NEW s \in Seq(Key), Distinct(s), NEW k \in Elements(s),
           NEW r, r = Remove(s, k)
    PROVE  Removed(s, r, k)
<1> DEFINE p == Position(s, k)
           from(x) == IF x < p THEN x ELSE x + 1
<1>1. p \in 1..Len(s) /\ s[p] = k
      BY PositionOfElement
<1>2. r = [i \in 1..Len(s)-1 |-> IF i < p THEN s[i] ELSE s[i+1]]
      BY DEF Remove
<1> HIDE DEF p
<1>3. Len(s) - 1 \in Nat /\ r \in [1..Len(s)-1 -> Key]
      BY <1>1, <1>2
<1>4. r \in Seq(Key) /\ Len(r) = Len(s) - 1
      BY <1>3, FunctionIsSeq
<1>5. \A i \in 1..Len(r) : from(i) \in 1..Len(s) /\ from(i) # p /\ r[i] = s[from(i)]
      BY <1>1, <1>2, <1>4
<1>6. \A i, j \in 1..Len(r) : i < j => from(i) < from(j)
      BY <1>1, <1>4
<1>7. OrderFrom(s, r, 1)
      BY <1>5, <1>6 DEF OrderFrom
<1>8. Distinct(r)
      BY <1>1, <1>2, <1>4 DEF Distinct
<1>9. Elements(r) = Elements(s) \ {k}
  <2>1. \A i \in 1..Len(r) : r[i] \in Elements(s) \ {k}
    <3>1. \A i \in 1..Len(r) : s[from(i)] # k
          BY <1>1, <1>5 DEF Distinct
    <3> QED BY <3>1, <1>5 DEF Elements
  <2>2. ASSUME NEW i \in 1..Len(s), s[i] # k PROVE \E j \in 1..Len(r) : r[j] = s[i]
    <3>1. CASE i < p
      <4>1. i \in 1..Len(r) /\ r[i] = s[i]
            BY <3>1, <1>1, <1>2, <1>4
      <4> QED BY <4>1
    <3>2. CASE i > p
      <4>1. i - 1 \in 1..Len(r) /\ r[i-1] = s[i]
            BY <3>2, <1>1, <1>2, <1>4
      <4> QED BY <4>1
    <3> QED BY <3>1, <3>2, <2>2, <1>1
  <2> QED BY <2>1, <2>2 DEF Elements
<1> QED BY <1>4, <1>7, <1>8, <1>9 DEF Removed

(* Trim keeps the front of a list, up to the capacity.                     *)
LEMMA CapacityPositive == capacity \in Nat /\ capacity >= 1
BY CapacityAssumption DEF capacity

(* What Trim leaves is the front of the list, no longer than the capacity. *)
LEMMA TrimKeepsFront ==
    ASSUME NEW s \in Seq(Key), Distinct(s), NEW r, r = Trim(s)
    PROVE  Front(s, r, IF Len(s) > capacity THEN capacity ELSE Len(s))
<1>1. CASE Len(s) > capacity
  <2>1. \A i \in 1..capacity : s[i] \in Key
        BY <1>1, CapacityPositive
  <2>2. /\ SubSeq(s, 1, capacity) \in Seq(Key)
        /\ Len(SubSeq(s, 1, capacity)) = capacity
        /\ \A i \in 1..capacity : SubSeq(s, 1, capacity)[i] = s[i]
        BY <2>1, CapacityPositive, SubSeqProperties
  <2>3. r = SubSeq(s, 1, capacity)
        BY <1>1 DEF Trim
  <2>4. Len(r) = capacity /\ r \in Seq(Key)
        BY <2>2, <2>3
  <2>5. \A i \in 1..capacity : i \in 1..Len(s) /\ r[i] = s[i]
        BY <2>2, <2>3, CapacityPositive, <1>1
  <2>6. Distinct(r)
        BY <2>4, <2>5 DEF Distinct
  <2> QED BY <2>4, <2>5, <2>6, <1>1 DEF Front
<1>2. CASE ~(Len(s) > capacity)
      BY <1>2 DEF Trim, Distinct, Front
<1> QED BY <1>1, <1>2

(* A list without repetitions has as many elements as places.              *)
LEMMA ElementsCounted ==
    ASSUME NEW s \in Seq(Key), Distinct(s)
    PROVE  IsFiniteSet(Elements(s)) /\ Cardinality(Elements(s)) = Len(s)
<1> DEFINE S == 1..Len(s)
           T == Elements(s)
<1>1. s \in [S -> T] /\ \A t \in T : \E i \in S : s[i] = t
      BY DEF Elements
<1>2. s \in Bijection(S, T)
  <2>1. s \in Injection(S, T)
        BY <1>1 DEF Injection, IsInjective, Distinct
  <2>2. s \in Surjection(S, T)
        BY <1>1 DEF Surjection
  <2> QED BY <2>1, <2>2 DEF Bijection
<1>3. ExistsBijection(1..Len(s), Elements(s))
      BY <1>2 DEF ExistsBijection
<1>4. IsFiniteSet(1..Len(s)) /\ Cardinality(1..Len(s)) = Len(s)
  <2>1. Len(s) \in Nat /\ Len(s) \in Int /\ 1 \in Int
        OBVIOUS
  <2>2. IsFiniteSet(1..Len(s)) /\ Cardinality(1..Len(s)) = IF 1 > Len(s) THEN 0 ELSE Len(s)-1+1
        BY <2>1, FS_Interval
  <2> QED BY <2>1, <2>2
<1> QED BY <1>3, <1>4, FS_Bijection

-----------------------------------------------------------------------------
(* The inductive invariant.  RecencyOrder is needed only for EvictsOldest; *)
(* the other parts need each other.                                        *)
IInv == TypeOK /\ ListMatchesMap /\ Bounded /\ RecencyOrder

(* An empty cache satisfies the invariant.                                 *)
LEMMA InitEstablishes == Init => IInv
<1> SUFFICES ASSUME Init PROVE IInv
    OBVIOUS
<1>1. ll = <<>> /\ items = <<>> /\ ll \in Seq(Key) /\ Len(ll) = 0 /\ DOMAIN items = {}
      BY DEF Init
<1>2. TypeOK
      BY <1>1 DEF Init, TypeOK
<1>3. ListMatchesMap /\ Bounded /\ RecencyOrder
      BY <1>1, CapacityPositive DEF ListMatchesMap, Bounded, RecencyOrder, Elements
<1> QED BY <1>2, <1>3 DEF IInv

(* What the invariant says of the list.                                    *)
LEMMA ListInvariant ==
    ASSUME IInv
    PROVE  /\ ll \in Seq(Key) /\ Distinct(ll) /\ Elements(ll) = DOMAIN items
           /\ uses \in Nat /\ used \in [Key -> 0..uses]
           /\ Len(ll) \in Nat /\ Len(ll) <= capacity /\ DOMAIN items \subseteq Key
BY DEF IInv, TypeOK, ListMatchesMap, Bounded, Distinct

(* A use makes its key more recent than every other and changes no other.  *)
LEMMA UseIsLatest ==
    ASSUME uses \in Nat, used \in [Key -> 0..uses], NEW k \in Key, Use(k)
    PROVE  /\ uses' \in Nat /\ used' \in [Key -> 0..uses']
           /\ \A x \in Key \ {k} : used'[x] = used[x] /\ used'[k] > used[x]
<1>1. uses' = uses + 1 /\ used' = [used EXCEPT ![k] = uses + 1]
      BY DEF Use
<1>2. \A x \in Key : used[x] \in Nat /\ used[x] < uses + 1
      OBVIOUS
<1>3. used'[k] = uses + 1 /\ \A x \in Key \ {k} : used'[x] = used[x]
      BY <1>1
<1>4. \A x \in Key : used'[x] \in 0..uses'
      BY <1>1, <1>2, <1>3
<1>5. used' \in [Key -> 0..uses']
      BY <1>1, <1>4
<1> QED BY <1>1, <1>2, <1>3, <1>5

(* Hits and replacements: k moves to the front, the set of keys stays.     *)
LEMMA RenewKeeps ==
    ASSUME IInv, NEW k \in DOMAIN items, Use(k), ll' = MoveToFront(ll, k),
           DOMAIN items' = DOMAIN items
    PROVE  /\ ll' \in Seq(Key) /\ uses' \in Nat /\ used' \in [Key -> 0..uses']
           /\ ListMatchesMap' /\ Bounded' /\ RecencyOrder'
<1>1. k \in Key /\ k \in Elements(ll)
      BY ListInvariant
<1>2. Moved(ll, ll', k)
      BY <1>1, ListInvariant, MoveToFrontPermutes
<1>3. /\ uses' \in Nat /\ used' \in [Key -> 0..uses']
      /\ \A x \in Key \ {k} : used'[x] = used[x] /\ used'[k] > used[x]
      BY <1>1, ListInvariant, UseIsLatest
<1>4. /\ ll' \in Seq(Key) /\ Len(ll') = Len(ll) /\ Elements(ll') = Elements(ll) /\ Distinct(ll')
      /\ ll'[1] = k /\ OrderFrom(ll, ll', 2)
      BY <1>2 DEF Moved
<1>5. ListMatchesMap'
  <2>1. Elements(ll)' = DOMAIN items'
        BY <1>4, ListInvariant DEF Elements
  <2> QED BY <2>1, <1>4 DEF ListMatchesMap, Distinct
<1>6. Bounded'
      BY <1>4, ListInvariant DEF Bounded, capacity
<1>7. RecencyOrder'
  <2> SUFFICES ASSUME NEW i \in 1..Len(ll'), NEW j \in 1..Len(ll'), i < j
               PROVE  used'[ll'[i]] > used'[ll'[j]]
      BY DEF RecencyOrder
  <2>1. 1 \in 1..Len(ll') /\ j # 1 /\ ll'[j] \in Key /\ ll'[i] \in Key
        BY <1>4
  <2>2. ll'[j] # k
        BY <2>1, <1>4 DEF Distinct
  <2>3. CASE i = 1
        BY <2>1, <2>2, <2>3, <1>3, <1>4
  <2>4. CASE i # 1
    <3>1. ll'[i] # k
          BY <2>1, <2>4, <1>4 DEF Distinct
    <3>2. i \in 2..Len(ll') /\ j \in 2..Len(ll')
          BY <2>1, <2>4
    <3>3. PICK m \in 1..Len(ll), n \in 1..Len(ll) : m < n /\ ll'[i] = ll[m] /\ ll'[j] = ll[n]
          BY <3>2, <1>4 DEF OrderFrom
    <3>4. used[ll[m]] > used[ll[n]]
          BY <3>3 DEF IInv, RecencyOrder
    <3> QED BY <3>1, <3>3, <3>4, <2>1, <2>2, <1>3
  <2> QED BY <2>3, <2>4
<1> QED BY <1>3, <1>4, <1>5, <1>6, <1>7

(* Expiry and invalidation: k leaves the list and the map.                 *)
LEMMA RemovalKeeps ==
    ASSUME IInv, NEW k \in DOMAIN items, removeElement(k), UNCHANGED <<now, uses, used>>
    PROVE  /\ ll' \in Seq(Key)
           /\ DOMAIN items' \subseteq Key /\ items' \in [DOMAIN items' -> CacheEntry]
           /\ ListMatchesMap' /\ Bounded' /\ RecencyOrder'
<1>1. ll' = Remove(ll, k) /\ items' = [x \in DOMAIN items \ {k} |-> items[x]]
      BY DEF removeElement
<1>2. Removed(ll, ll', k)
      BY <1>1, ListInvariant, RemoveDrops
<1>3. /\ ll' \in Seq(Key) /\ Len(ll') = Len(ll) - 1 /\ Elements(ll') = Elements(ll) \ {k}
      /\ Distinct(ll') /\ OrderFrom(ll, ll', 1)
      BY <1>2 DEF Removed
<1>4. DOMAIN items' = DOMAIN items \ {k} /\ items' \in [DOMAIN items' -> CacheEntry]
      BY <1>1 DEF IInv, TypeOK
<1>5. ListMatchesMap'
  <2>1. Elements(ll)' = DOMAIN items'
        BY <1>3, <1>4, ListInvariant DEF Elements
  <2> QED BY <2>1, <1>3 DEF ListMatchesMap, Distinct
<1>6. Bounded'
  <2>1. Len(ll) \in Nat /\ Len(ll) <= capacity /\ capacity \in Nat
        BY ListInvariant, CapacityPositive
  <2> QED BY <2>1, <1>3 DEF Bounded, capacity
<1>7. RecencyOrder'
  <2> SUFFICES ASSUME NEW i \in 1..Len(ll'), NEW j \in 1..Len(ll'), i < j
               PROVE  used[ll'[i]] > used[ll'[j]]
      BY DEF RecencyOrder
  <2>1. PICK m \in 1..Len(ll), n \in 1..Len(ll) : m < n /\ ll'[i] = ll[m] /\ ll'[j] = ll[n]
        BY <1>3 DEF OrderFrom
  <2> QED BY <2>1 DEF IInv, RecencyOrder
<1> QED BY <1>3, <1>4, <1>5, <1>6, <1>7, ListInvariant

(* A put of a new key: the list is the new key and then the old list,      *)
(* without its last element when that was full.                            *)
LEMMA NewIsFirst ==
    ASSUME IInv, NEW k \in Key \ DOMAIN items, NEW v \in Val, PutNew(k, v)
    PROVE  /\ ll' \in Seq(Key) /\ Distinct(ll') /\ ll'[1] = k
           /\ Len(ll') = IF Len(ll) = capacity THEN capacity ELSE Len(ll) + 1
           /\ \A i \in 2..Len(ll') : i - 1 \in 1..Len(ll) /\ ll'[i] = ll[i-1]
           /\ DOMAIN items' = Elements(ll')
<1> DEFINE s == PushFront(ll, k)
<1>1. Added(ll, s, k)
      BY ListInvariant, PushFrontAdds
<1>2. ll' = Trim(s) /\ s \in Seq(Key) /\ Distinct(s)
      BY <1>1 DEF PutNew, Added
<1> HIDE DEF s
<1>3. Front(s, ll', IF Len(s) > capacity THEN capacity ELSE Len(s))
      BY <1>2, TrimKeepsFront
<1>4. /\ Len(s) = Len(ll) + 1 /\ Elements(s) = Elements(ll) \cup {k} /\ s[1] = k
      /\ \A i \in 2..Len(s) : s[i] = ll[i-1]
      BY <1>1 DEF Added
<1>5. /\ ll' \in Seq(Key) /\ Distinct(ll')
      /\ Len(ll') = IF Len(s) > capacity THEN capacity ELSE Len(s)
      /\ \A i \in 1..Len(ll') : i \in 1..Len(s) /\ ll'[i] = s[i]
      BY <1>3 DEF Front
<1>6. Len(ll') = IF Len(ll) = capacity THEN capacity ELSE Len(ll) + 1
      BY <1>4, <1>5, ListInvariant, CapacityPositive
<1>7. ll'[1] = k
  <2>1. Len(ll') >= 1 /\ Len(ll') \in Nat
        BY <1>6, CapacityPositive, ListInvariant
  <2>2. 1 \in 1..Len(ll')
        BY <2>1
  <2> QED BY <2>2, <1>4, <1>5
<1>8. \A i \in 2..Len(ll') : i - 1 \in 1..Len(ll) /\ ll'[i] = ll[i-1]
  <2>1. Len(ll) \in Nat /\ capacity \in Nat /\ Len(ll) <= capacity
        BY CapacityPositive, ListInvariant
  <2>2. ASSUME NEW i \in 2..Len(ll')
        PROVE  i \in 1..Len(ll') /\ i \in 2..Len(s) /\ i - 1 \in 1..Len(ll)
        BY <2>1, <1>4, <1>6
  <2> QED BY <2>2, <1>4, <1>5
<1>9. DOMAIN items' = Elements(ll')
  <2>1. DOMAIN items' = (DOMAIN items \cup {k}) \cap Elements(ll')
        BY DEF PutNew, Elements
  <2>2. \A x \in Elements(ll') : x \in Elements(s)
        BY <1>5 DEF Elements
  <2> QED BY <2>1, <2>2, <1>4, ListInvariant
<1> QED BY <1>5, <1>6, <1>7, <1>8, <1>9

(* A put of a new key keeps the invariant, whether or not it evicts.       *)
LEMMA NewKeeps ==
    ASSUME IInv, NEW k \in Key \ DOMAIN items, NEW v \in Val, PutNew(k, v)
    PROVE  IInv'
<1>1. /\ ll' \in Seq(Key) /\ Distinct(ll') /\ ll'[1] = k
      /\ Len(ll') = IF Len(ll) = capacity THEN capacity ELSE Len(ll) + 1
      /\ \A i \in 2..Len(ll') : i - 1 \in 1..Len(ll) /\ ll'[i] = ll[i-1]
      /\ DOMAIN items' = Elements(ll')
      BY NewIsFirst
<1>2. /\ uses' \in Nat /\ used' \in [Key -> 0..uses']
      /\ \A x \in Key \ {k} : used'[x] = used[x] /\ used'[k] > used[x]
  <2>1. Use(k)
        BY DEF PutNew
  <2> QED BY <2>1, ListInvariant, UseIsLatest
<1>3. TypeOK'
  <2>1. items' = [x \in DOMAIN items' |-> IF x = k THEN [val |-> v, exp |-> Exp] ELSE items[x]]
        /\ DOMAIN items' \subseteq DOMAIN items \cup {k}
        BY DEF PutNew
  <2>2. Exp \in Nat /\ now \in Nat
        BY TTLAssumption DEF IInv, TypeOK, Exp
  <2>3. [val |-> v, exp |-> Exp] \in CacheEntry
        BY <2>2 DEF CacheEntry
  <2>4. \A x \in DOMAIN items : items[x] \in CacheEntry
        BY DEF IInv, TypeOK
  <2>5. \A x \in DOMAIN items' : x = k \/ x \in DOMAIN items
        BY <2>1
  <2>6. DOMAIN items' \subseteq Key
        BY <2>5, ListInvariant
  <2>7. items' \in [DOMAIN items' -> CacheEntry]
        BY <2>1, <2>3, <2>4, <2>5
  <2>8. now' = now /\ res' = res
        BY DEF PutNew
  <2> QED BY <2>6, <2>7, <2>8, <1>1, <1>2 DEF IInv, TypeOK
<1>4. ListMatchesMap'
  <2>1. Elements(ll)' = DOMAIN items'
        BY <1>1 DEF Elements
  <2> QED BY <2>1, <1>1 DEF ListMatchesMap, Distinct
<1>5. Bounded'
  <2>1. Len(ll) \in Nat /\ Len(ll) <= capacity /\ capacity \in Nat
        BY ListInvariant, CapacityPositive
  <2>2. Len(ll') <= capacity
        BY <2>1, <1>1
  <2> QED BY <2>2 DEF Bounded, capacity
<1>6. RecencyOrder'
  <2> SUFFICES ASSUME NEW i \in 1..Len(ll'), NEW j \in 1..Len(ll'), i < j
               PROVE  used'[ll'[i]] > used'[ll'[j]]
      BY DEF RecencyOrder
  <2>1. 1 \in 1..Len(ll') /\ j # 1 /\ ll'[j] \in Key /\ ll'[i] \in Key
        BY <1>1
  <2>2. ll'[j] # k
        BY <2>1, <1>1 DEF Distinct
  <2>3. CASE i = 1
        BY <2>1, <2>2, <2>3, <1>1, <1>2
  <2>4. CASE i # 1
    <3>1. ll'[i] # k
          BY <2>1, <2>4, <1>1 DEF Distinct
    <3>2. i \in 2..Len(ll') /\ j \in 2..Len(ll')
          BY <2>1, <2>4
    <3>3. /\ i - 1 \in 1..Len(ll) /\ j - 1 \in 1..Len(ll) /\ i - 1 < j - 1
          /\ ll'[i] = ll[i-1] /\ ll'[j] = ll[j-1]
          BY <3>2, <1>1
    <3>4. used[ll[i-1]] > used[ll[j-1]]
          BY <3>3 DEF IInv, RecencyOrder
    <3> QED BY <3>1, <3>3, <3>4, <2>1, <2>2, <1>2
  <2> QED BY <2>3, <2>4
<1> QED BY <1>3, <1>4, <1>5, <1>6 DEF IInv

(* Every operation keeps the invariant.                                    *)
LEMMA StepKeeps == IInv /\ [Next]_vars => IInv'
<1> SUFFICES ASSUME IInv, [Next]_vars PROVE IInv'
    OBVIOUS
<1>1. ASSUME NEW k \in Key, GetAbsent(k) PROVE IInv'
      BY <1>1 DEF GetAbsent, IInv, TypeOK, ListMatchesMap, Bounded, RecencyOrder, Elements, capacity
<1>2. ASSUME NEW k \in Key, GetExpired(k) PROVE IInv'
  <2>1. k \in DOMAIN items /\ removeElement(k) /\ res' = Miss /\ UNCHANGED <<now, uses, used>>
        BY <1>2 DEF GetExpired
  <2>2. /\ ll' \in Seq(Key) /\ ListMatchesMap' /\ Bounded' /\ RecencyOrder'
        /\ DOMAIN items' \subseteq Key /\ items' \in [DOMAIN items' -> CacheEntry]
        BY <2>1, RemovalKeeps
  <2> QED BY <2>1, <2>2 DEF IInv, TypeOK
<1>3. ASSUME NEW k \in Key, GetHit(k) PROVE IInv'
  <2>1. /\ k \in DOMAIN items /\ Use(k) /\ ll' = MoveToFront(ll, k)
        /\ res' = items[k].val /\ items' = items /\ now' = now
        BY <1>3 DEF GetHit
  <2>2. /\ ll' \in Seq(Key) /\ uses' \in Nat /\ used' \in [Key -> 0..uses']
        /\ ListMatchesMap' /\ Bounded' /\ RecencyOrder'
        BY <2>1, RenewKeeps
  <2>3. res' \in Val
        BY <2>1 DEF IInv, TypeOK, CacheEntry
  <2> QED BY <2>1, <2>2, <2>3 DEF IInv, TypeOK
<1>4. ASSUME NEW k \in Key, NEW v \in Val, PutPresent(k, v) PROVE IInv'
  <2>1. /\ k \in DOMAIN items /\ Use(k) /\ ll' = MoveToFront(ll, k)
        /\ items' = [items EXCEPT ![k] = [val |-> v, exp |-> Exp]]
        /\ res' = res /\ now' = now
        BY <1>4 DEF PutPresent
  <2>2. DOMAIN items' = DOMAIN items
        BY <2>1
  <2>3. /\ ll' \in Seq(Key) /\ uses' \in Nat /\ used' \in [Key -> 0..uses']
        /\ ListMatchesMap' /\ Bounded' /\ RecencyOrder'
        BY <2>1, <2>2, RenewKeeps
  <2>4. Exp \in Nat
        BY TTLAssumption DEF IInv, TypeOK, Exp
  <2>5. items' \in [DOMAIN items -> CacheEntry]
        BY <2>1, <2>4 DEF IInv, TypeOK, CacheEntry
  <2> QED BY <2>1, <2>2, <2>3, <2>5 DEF IInv, TypeOK
<1>5. ASSUME NEW k \in Key, NEW v \in Val, PutNew(k, v) PROVE IInv'
      BY <1>5, NewKeeps DEF PutNew
<1>6. ASSUME NEW k \in Key, Invalidate(k) PROVE IInv'
  <2>1. k \in DOMAIN items /\ removeElement(k) /\ res' = res /\ UNCHANGED <<now, uses, used>>
        BY <1>6 DEF Invalidate
  <2>2. /\ ll' \in Seq(Key) /\ ListMatchesMap' /\ Bounded' /\ RecencyOrder'
        /\ DOMAIN items' \subseteq Key /\ items' \in [DOMAIN items' -> CacheEntry]
        BY <2>1, RemovalKeeps
  <2> QED BY <2>1, <2>2 DEF IInv, TypeOK
<1>7. CASE Tick
      BY <1>7 DEF Tick, IInv, TypeOK, ListMatchesMap, Bounded, RecencyOrder, Elements, capacity
<1>8. CASE UNCHANGED vars
      BY <1>8 DEF vars, IInv, TypeOK, ListMatchesMap, Bounded, RecencyOrder, Elements, capacity
<1> QED BY <1>1, <1>2, <1>3, <1>4, <1>5, <1>6, <1>7, <1>8 DEF Next

(* In every reachable state list and map agree, the list is in the order   *)
(* of latest use, and the capacity is respected.                           *)
THEOREM Invariance == Spec => []IInv
BY InitEstablishes, StepKeeps, PTL DEF Spec

(* The types of the cache's state, for every capacity.                     *)
THEOREM TypeCorrect == Spec => []TypeOK
<1>1. IInv => TypeOK
      BY DEF IInv
<1> QED BY <1>1, Invariance, PTL

(* The list and the map never drift apart.                                 *)
THEOREM ListAndMapAgree == Spec => []ListMatchesMap
<1>1. IInv => ListMatchesMap
      BY DEF IInv
<1> QED BY <1>1, Invariance, PTL

(* The cache never holds more than its capacity.                           *)
THEOREM CapacityRespected == Spec => []Bounded
<1>1. IInv => Bounded
      BY DEF IInv
<1> QED BY <1>1, Invariance, PTL

-----------------------------------------------------------------------------
(* Eviction.                                                               *)
LEMMA NewEvictsOldest ==
    ASSUME IInv, NEW k \in Key \ DOMAIN items, NEW v \in Val, PutNew(k, v)
    PROVE  EvictionIsLRU
<1>1. /\ ll' \in Seq(Key) /\ Distinct(ll') /\ ll'[1] = k
      /\ Len(ll') = IF Len(ll) = capacity THEN capacity ELSE Len(ll) + 1
      /\ \A i \in 2..Len(ll') : i - 1 \in 1..Len(ll) /\ ll'[i] = ll[i-1]
      /\ DOMAIN items' = Elements(ll')
      BY NewIsFirst
<1>2. /\ ll \in Seq(Key) /\ Distinct(ll) /\ Elements(ll) = DOMAIN items
      /\ Len(ll) \in Nat /\ Len(ll) <= capacity /\ capacity \in Nat
      BY ListInvariant, CapacityPositive
<1>3. Cardinality(DOMAIN items) = Len(ll)
      BY <1>2, ElementsCounted
<1>4. \A x : x \in DOMAIN items <=> \E i \in 1..Len(ll) : ll[i] = x
      BY <1>2 DEF Elements
<1>5. \A x : x \in DOMAIN items' <=> \E i \in 1..Len(ll') : ll'[i] = x
      BY <1>1 DEF Elements
<1>6. \A m \in 1..Len(ll) : m < Len(ll') => ll[m] \in DOMAIN items'
  <2> SUFFICES ASSUME NEW m \in 1..Len(ll), m < Len(ll') PROVE ll[m] \in DOMAIN items'
      OBVIOUS
  <2>1. m + 1 \in 2..Len(ll') /\ m + 1 \in 1..Len(ll') /\ (m + 1) - 1 = m
        BY <1>1
  <2>2. ll'[m+1] = ll[m]
        BY <2>1, <1>1
  <2> QED BY <2>1, <2>2, <1>5
<1>7. CASE Len(ll) < capacity
  <2>1. \A m \in 1..Len(ll) : m < Len(ll')
        BY <1>1, <1>2, <1>7
  <2>2. \A x \in DOMAIN items : x \in DOMAIN items'
        BY <2>1, <1>4, <1>6
  <2>3. DOMAIN items \ DOMAIN items' = {}
        BY <2>2
  <2> QED BY <2>3, <1>3, <1>7 DEF EvictionIsLRU
<1>8. CASE Len(ll) = capacity
  <2> DEFINE e == ll[capacity]
  <2>1. capacity \in 1..Len(ll) /\ Len(ll') = capacity
        BY <1>1, <1>2, <1>8, CapacityPositive
  <2>2. e \in DOMAIN items
        BY <2>1, <1>4
  <2>3. e \notin DOMAIN items'
    <3> SUFFICES ASSUME NEW i \in 1..Len(ll'), ll'[i] = e PROVE FALSE
        BY <1>5
    <3>1. i # 1
          BY <1>1, <2>2
    <3>2. i \in 2..Len(ll') /\ i - 1 < capacity
          BY <3>1, <2>1, <1>2
    <3>3. i - 1 \in 1..Len(ll) /\ ll[i-1] = ll[capacity]
          BY <3>2, <1>1
    <3>4. i - 1 = capacity
          BY <3>3, <2>1, <1>2 DEF Distinct
    <3> QED BY <3>2, <3>4, <1>2
  <2>4. ASSUME NEW x \in DOMAIN items \ {e}
        PROVE  x \in DOMAIN items' /\ used[x] > used[e]
    <3>1. PICK m \in 1..Len(ll) : ll[m] = x
          BY <1>4
    <3>2. m < capacity
          BY <3>1, <1>2, <1>8
    <3>3. x \in DOMAIN items'
          BY <3>1, <3>2, <2>1, <1>6
    <3>4. used[ll[m]] > used[ll[capacity]]
          BY <3>2, <2>1 DEF IInv, RecencyOrder
    <3> QED BY <3>1, <3>3, <3>4
  <2> HIDE DEF e
  <2>5. e \in DOMAIN items \ DOMAIN items' /\ DOMAIN items \ DOMAIN items' = {e}
        BY <2>2, <2>3, <2>4
  <2>6. ~(Cardinality(DOMAIN items) < capacity)
        BY <1>2, <1>3, <1>8
  <2> QED BY <2>4, <2>5, <2>6 DEF EvictionIsLRU
<1> QED BY <1>2, <1>7, <1>8

(* Only a put of a new key can evict, and it evicts the right one.         *)
LEMMA StepEvictsOldest == IInv /\ [Next]_vars => [EvictionIsLRU]_vars
<1> SUFFICES ASSUME IInv, Next PROVE EvictionIsLRU
    OBVIOUS
<1>1. ASSUME NEW k \in Key, NEW v \in Val, PutNew(k, v) PROVE EvictionIsLRU
      BY <1>1, NewEvictsOldest DEF PutNew
<1>2. CASE DOMAIN items' \subseteq DOMAIN items
      BY <1>2 DEF EvictionIsLRU
<1>3. ASSUME NEW k \in Key, GetAbsent(k) \/ GetHit(k) PROVE items' = items
      BY <1>3 DEF GetAbsent, GetHit
<1>4. ASSUME NEW k \in Key, GetExpired(k) \/ Invalidate(k) PROVE DOMAIN items' \subseteq DOMAIN items
      BY <1>4 DEF GetExpired, Invalidate, removeElement
<1>5. ASSUME NEW k \in Key, NEW v \in Val, PutPresent(k, v) PROVE DOMAIN items' \subseteq DOMAIN items
      BY <1>5 DEF PutPresent
<1>6. CASE Tick
      BY <1>2, <1>6 DEF Tick
<1> QED BY <1>1, <1>2, <1>3, <1>4, <1>5, <1>6 DEF Next

(* The least recently used key is evicted, and only when the cache is full, *)
(* whatever the capacity.                                                   *)
THEOREM LRUEviction == Spec => EvictsOldest
BY Invariance, StepEvictsOldest, PTL DEF Spec, EvictsOldest

-----------------------------------------------------------------------------
(* Refinement.                                                             *)
LEMMA InitRefines == Init => Map!MapInit
BY DEF Init, Map!MapInit

(* Every operation is one of the lossy map's, or leaves it unchanged.      *)
LEMMA StepRefines == IInv /\ [Next]_vars => [Map!MapNext]_(Map!mvars)
<1> SUFFICES ASSUME IInv, [Next]_vars PROVE Map!MapNext \/ UNCHANGED Map!mvars
    OBVIOUS
<1> USE DEF Map!Without, Map!Expired
<1>0. items = [x \in DOMAIN items |-> items[x]] /\ DOMAIN items \subseteq Key
      BY DEF IInv, TypeOK
<1>1. ASSUME NEW k \in Key, GetAbsent(k) PROVE Map!MapMiss(k)
  <2>1. DOMAIN items \ {k} = DOMAIN items /\ items' = items
        BY <1>1 DEF GetAbsent
  <2> QED BY <2>1, <1>0, <1>1 DEF GetAbsent, Map!MapMiss
<1>2. ASSUME NEW k \in Key, GetExpired(k) PROVE Map!MapMiss(k)
      BY <1>2 DEF GetExpired, Expired, removeElement, Map!MapMiss
<1>3. ASSUME NEW k \in Key, GetHit(k) PROVE Map!MapHit(k)
      BY <1>3 DEF GetHit, Expired, Map!MapHit
<1>4. ASSUME NEW k \in Key, NEW v \in Val, PutPresent(k, v) PROVE Map!MapPut(k, v)
  <2>1. k \in DOMAIN items /\ items' = [items EXCEPT ![k] = [val |-> v, exp |-> Exp]]
        BY <1>4 DEF PutPresent
  <2>2. items' = [x \in (DOMAIN items \ {k}) \cup {k} |->
                     IF x = k THEN [val |-> v, exp |-> Exp] ELSE items[x]]
        BY <2>1, <1>0
  <2>3. UNCHANGED <<now, res>>
        BY <1>4 DEF PutPresent
  <2> QED BY <2>2, <2>3 DEF Exp, Map!MapPut
<1>5. ASSUME NEW k \in Key, NEW v \in Val, PutNew(k, v) PROVE Map!MapPut(k, v)
  <2> DEFINE kept == DOMAIN items \cap Elements(ll')
  <2>1. k \in Key \ DOMAIN items /\ UNCHANGED <<now, res>>
        BY <1>5 DEF PutNew
  <2>2. k \in Elements(ll')
    <3>1. ll' \in Seq(Key) /\ ll'[1] = k /\ Len(ll') >= 1
      <4>1. /\ ll' \in Seq(Key) /\ ll'[1] = k
            /\ Len(ll') = IF Len(ll) = capacity THEN capacity ELSE Len(ll) + 1
            BY <1>5, <2>1, NewIsFirst
      <4> QED BY <4>1, ListInvariant, CapacityPositive
    <3> QED BY <3>1 DEF Elements
  <2>3. (DOMAIN items \cup {k}) \cap Elements(ll') = kept \cup {k}
        BY <2>2
  <2>4. items' = [x \in kept \cup {k} |-> IF x = k THEN [val |-> v, exp |-> Exp] ELSE items[x]]
        BY <1>5, <2>3 DEF PutNew
  <2>5. kept \in SUBSET (DOMAIN items \ {k})
        BY <2>1
  <2> QED BY <2>1, <2>4, <2>5 DEF Exp, Map!MapPut
<1>6. ASSUME NEW k \in Key, Invalidate(k) PROVE Map!MapInvalidate(k)
      BY <1>6 DEF Invalidate, removeElement, Map!MapInvalidate
<1>7. CASE Tick
      BY <1>7 DEF Tick, Map!MapNext, Map!MapTick
<1>8. CASE UNCHANGED vars
      BY <1>8 DEF vars, Map!mvars
<1> QED BY <1>1, <1>2, <1>3, <1>4, <1>5, <1>6, <1>7, <1>8 DEF Next, Map!MapNext

(* The cache implements the lossy map, whatever its capacity and TTL.      *)
THEOREM Refinement == Spec => MapSpec
BY InitRefines, StepRefines, Invariance, PTL DEF Spec, MapSpec, Map!MapSpec
=============================================================================
