------------------------------ MODULE LossyMap ------------------------------
(***************************************************************************)
(* What users of ttlCache (internal/escore/cache.go) may rely on: a map    *)
(* that may forget any entry when another one is put, never forgets the    *)
(* one just put, never answers with anything but the last value put, and   *)
(* never answers with one put more than TTL ago (TTL = 0: no limit).       *)
(***************************************************************************)
EXTENDS Naturals

CONSTANTS Key, Val, Miss, TTL

VARIABLES store,    \* the entries: a function on the keys that are present
          now,      \* the clock
          res       \* the answer of the latest Get

mvars == <<store, now, res>>

Without(k) == [x \in DOMAIN store \ {k} |-> store[x]]
Expired(k) == TTL > 0 /\ now > store[k].exp

MapInit == store = <<>> /\ now = 0 /\ res = Miss

MapPut(k, v) ==
    /\ \E kept \in SUBSET (DOMAIN store \ {k}) :
         store' = [x \in kept \cup {k} |->
                     IF x = k THEN [val |-> v, exp |-> IF TTL > 0 THEN now + TTL ELSE 0]
                     ELSE store[x]]
    /\ UNCHANGED <<now, res>>

MapHit(k) ==
    /\ k \in DOMAIN store /\ ~Expired(k)
    /\ res' = store[k].val
    /\ UNCHANGED <<store, now>>

MapMiss(k) ==
    /\ k \in DOMAIN store => Expired(k)
    /\ res' = Miss /\ store' = Without(k)
    /\ UNCHANGED now

MapInvalidate(k) == store' = Without(k) /\ UNCHANGED <<now, res>>

MapTick == now' = now + 1 /\ UNCHANGED <<store, res>>

MapNext ==
    \/ \E k \in Key : MapHit(k) \/ MapMiss(k) \/ MapInvalidate(k) \/ \E v \in Val : MapPut(k, v)
    \/ MapTick

MapSpec == MapInit /\ [][MapNext]_mvars
=============================================================================
