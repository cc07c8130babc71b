------------------------------ MODULE CfaCache ------------------------------
(***************************************************************************)
(* InMemoryCfaCache of diversion/cache.py: a dict of entries stamped with  *)
(* an expiry time, behind one lock.  The clock (time.monotonic) runs on    *)
(* while a get holds the lock: get prunes with one reading of the clock    *)
(* and tests the entry it finds against a second, later one.               *)
(***************************************************************************)
EXTENDS Integers

CONSTANTS Keys,        \* cache keys
          Values,      \* cached CallForwardAllState values
          Nothing,     \* None: no value, no key
          Ttls,        \* the integers CFA_CACHE_TTL_SECONDS may hold
          MaxClock     \* bound of the model: the clock stops here

ASSUME TtlAssumption == Ttls \subseteq Int
ASSUME ClockAssumption == MaxClock \in Nat
ASSUME NothingAssumption == Nothing \notin Values /\ Nothing \notin Keys

VARIABLES ttl,         \* self._ttl_seconds
          clock,       \* monotonic()
          entries,     \* self._entries, Nothing where the dict has no key
          reading,     \* the key of the get that holds the lock, or Nothing
          reply        \* the result of the latest get

vars == <<ttl, clock, entries, reading, reply>>

Entry == [value : Values, expiresAt : Int]

TypeOK == /\ ttl \in Ttls
          /\ clock \in Nat
          /\ entries \in [Keys -> Entry \cup {Nothing}]
          /\ reading \in Keys \cup {Nothing}
          /\ reply \in Values \cup {Nothing}

Init == /\ ttl \in Ttls
        /\ clock = 0
        /\ entries = [k \in Keys |-> Nothing]
        /\ reading = Nothing
        /\ reply = Nothing

LockFree == reading = Nothing

\* Mutant: an entry is still served in the instant it expires.
LiveInclusive(e, now) == e # Nothing /\ now <= e.expiresAt

\* An entry is served while now is strictly before its expiry.
Live(e, now) == e # Nothing /\ now < e.expiresAt

\* _prune_locked: drop every entry expired at this reading of the clock.
Pruned(now) == [k \in Keys |-> IF Live(entries[k], now) THEN entries[k] ELSE Nothing]

\* get, first half: take the lock and prune.
GetBegin(k) == /\ LockFree
               /\ entries' = Pruned(clock)
               /\ reading' = k
               /\ UNCHANGED <<ttl, clock, reply>>

\* Mutant: get trusts its pruning and does not look at the clock again.
GetEndUnchecked == /\ ~LockFree
                   /\ reply' = IF entries[reading] = Nothing THEN Nothing ELSE entries[reading].value
                   /\ reading' = Nothing
                   /\ UNCHANGED <<ttl, clock, entries>>

\* Mutant: get returns the CacheEntry instead of the value in it.
GetEndEntry == /\ ~LockFree
               /\ reply' = entries[reading]
               /\ reading' = Nothing
               /\ UNCHANGED <<ttl, clock, entries>>

\* get, second half: test the entry against a new reading of the clock,
\* drop it if it has expired meanwhile, release the lock.
GetEnd == /\ ~LockFree
          /\ \/ /\ Live(entries[reading], clock)
                /\ reply' = entries[reading].value
                /\ UNCHANGED entries
             \/ /\ ~Live(entries[reading], clock)
                /\ reply' = Nothing
                /\ entries' = [entries EXCEPT ![reading] = Nothing]
          /\ reading' = Nothing
          /\ UNCHANGED <<ttl, clock>>

Set(k, v) == /\ LockFree
             /\ entries' = [entries EXCEPT ![k] = [value |-> v, expiresAt |-> clock + ttl]]
             /\ UNCHANGED <<ttl, clock, reading, reply>>

Invalidate(k) == /\ LockFree
                 /\ entries' = [entries EXCEPT ![k] = Nothing]
                 /\ UNCHANGED <<ttl, clock, reading, reply>>

Clear == /\ LockFree
         /\ entries' = [k \in Keys |-> Nothing]
         /\ UNCHANGED <<ttl, clock, reading, reply>>

Tick == /\ clock < MaxClock
        /\ clock' = clock + 1
        /\ UNCHANGED <<ttl, entries, reading, reply>>

Next == \/ \E k \in Keys : GetBegin(k) \/ Invalidate(k)
        \/ GetEnd
        \/ \E k \in Keys, v \in Values : Set(k, v)
        \/ Clear
        \/ Tick

Spec == Init /\ [][Next]_vars

-----------------------------------------------------------------------------
(* Refinement.  A reader of the cache sees the live entries; one written   *)
(* with a TTL of zero or less is never visible.                            *)

Visible == [k \in Keys |-> IF Live(entries[k], clock) THEN entries[k].value ELSE Nothing]

Abstract == INSTANCE ExpiringMap WITH map <- Visible, reply <- reply

(***************************************************************************)
(* The cache behaves as the expiring map the service relies on: get (both  *)
(* clock readings of cache.py:25-31) answers with the last value set and   *)
(* not expired or invalidated since, and nothing but set adds an entry.    *)
(***************************************************************************)
ImplementsExpiringMap == Abstract!Spec

(***************************************************************************)
(* With CFA_CACHE_TTL_SECONDS at zero or below, a get never hits, even one *)
(* that reads the clock in the instant of the set: expiry is inclusive     *)
(* (expires_at <= now, cache.py:28 and 50).                                *)
(***************************************************************************)
NonPositiveTtlNeverHits == ttl <= 0 => reply = Nothing
=============================================================================
