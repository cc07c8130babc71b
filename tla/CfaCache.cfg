\* Two keys, two values, TTLs of 0 and 2 ticks and a clock of 5: an entry can be
\* refreshed, expire between the two clock readings of a get, and be pruned by
\* a get of the other key, and the cache can be switched off.
\* The clock of the model stops, but sets and gets do not: no deadlock.
SPECIFICATION Spec
CONSTANTS
  Keys = {k1, k2}
  Values = {v1, v2}
  Nothing = Nothing
  Ttls = {0, 2}
  MaxClock = 5
INVARIANTS TypeOK NonPositiveTtlNeverHits
PROPERTY ImplementsExpiringMap
