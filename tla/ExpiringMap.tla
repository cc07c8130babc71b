----------------------------- MODULE ExpiringMap -----------------------------
(***************************************************************************)
(* What the in-memory cache of diversion/cache.py promises to the service: *)
(* a map from keys to values whose entries may disappear on their own, and *)
(* whose get answers with the last value stored and not yet dropped, or    *)
(* with nothing.  There is no clock here: an entry lapses when it likes.   *)
(***************************************************************************)
CONSTANTS Keys,      \* cache keys, build_cache_key(mac, dn, partition)
          Values,    \* what is cached
          Nothing    \* the None that get returns on a miss

VARIABLES map,       \* the entries a reader can still see
          reply      \* the result of the latest get

vars == <<map, reply>>

TypeOK == /\ map \in [Keys -> Values \cup {Nothing}]
          /\ reply \in Values \cup {Nothing}

Init == /\ map = [k \in Keys |-> Nothing]
        /\ reply = Nothing

Get(k) == /\ reply' = map[k]
          /\ UNCHANGED map

Set(k, v) == /\ map' = [map EXCEPT ![k] = v]
             /\ UNCHANGED reply

\* Entries leave the map, by invalidation or because their time is up.
Lapse(K) == /\ map' = [k \in Keys |-> IF k \in K THEN Nothing ELSE map[k]]
            /\ UNCHANGED reply

Next == \/ \E k \in Keys : Get(k)
        \/ \E k \in Keys, v \in Values : Set(k, v)
        \/ \E K \in SUBSET Keys : Lapse(K)

Spec == Init /\ [][Next]_vars
=============================================================================
