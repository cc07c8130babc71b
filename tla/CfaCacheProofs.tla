---------------------------- MODULE CfaCacheProofs ----------------------------
(* The cache of CfaCache.tla implements the expiring map, for every set of *)
(* keys and values and every TTL.                                          *)
EXTENDS CfaCache, TLAPS

USE TtlAssumption, ClockAssumption, NothingAssumption

LEMMA TypeInit == Init => TypeOK
BY DEF Init, TypeOK

LEMMA TypeStep == TypeOK /\ [Next]_vars => TypeOK'
<1> SUFFICES ASSUME TypeOK, [Next]_vars PROVE TypeOK'
  OBVIOUS
<1> USE DEF TypeOK, Entry
<1>1. ASSUME NEW k \in Keys, GetBegin(k) PROVE TypeOK'
  BY <1>1 DEF GetBegin, Pruned, Live
<1>2. ASSUME GetEnd PROVE TypeOK'
  BY <1>2 DEF GetEnd, LockFree, Live
<1>3. ASSUME NEW k \in Keys, Invalidate(k) PROVE TypeOK'
  BY <1>3 DEF Invalidate
<1>4. ASSUME NEW k \in Keys, NEW v \in Values, Set(k, v) PROVE TypeOK'
  BY <1>4 DEF Set
<1>5. ASSUME Clear PROVE TypeOK'
  BY <1>5 DEF Clear
<1>6. ASSUME Tick PROVE TypeOK'
  BY <1>6 DEF Tick
<1>7. CASE UNCHANGED vars
  BY <1>7 DEF vars
<1> QED BY <1>1, <1>2, <1>3, <1>4, <1>5, <1>6, <1>7 DEF Next

(***************************************************************************)
(* Entries are well typed and the lock is held for a key or not at all.    *)
(***************************************************************************)
THEOREM TypeCorrect == Spec => []TypeOK
BY TypeInit, TypeStep, PTL DEF Spec

(***************************************************************************)
(* The cache (cache.py:24-52) implements the expiring map: pruning with    *)
(* one reading of the clock and testing with a later one is never seen by  *)
(* a caller, nor is an entry that is dead but not yet removed.             *)
(***************************************************************************)
THEOREM CacheImplementsMap == Spec => ImplementsExpiringMap
<1>1. Init => Abstract!Init
  BY DEF Init, Abstract!Init, Visible, Live
<1>2. TypeOK /\ [Next]_vars => [Abstract!Next]_(Abstract!vars)
  <2> SUFFICES ASSUME TypeOK, [Next]_vars PROVE [Abstract!Next]_(Abstract!vars)
    OBVIOUS
  <2> USE DEF TypeOK, Entry, Live
  <2>1. ASSUME NEW k \in Keys, GetBegin(k) PROVE UNCHANGED Abstract!vars
    <3>1. Visible' = Visible
      BY <2>1 DEF GetBegin, Pruned, Visible
    <3> QED BY <2>1, <3>1 DEF GetBegin, Abstract!vars
  <2>2. ASSUME GetEnd PROVE Abstract!Get(reading)
    <3>1. reading \in Keys
      BY <2>2 DEF GetEnd, LockFree
    <3>2. Visible' = Visible /\ reply' = Visible[reading]
      BY <2>2, <3>1 DEF GetEnd, Visible
    <3> QED BY <3>2 DEF Abstract!Get
  <2>3. ASSUME NEW k \in Keys, Invalidate(k) PROVE Abstract!Lapse({k})
    BY <2>3 DEF Invalidate, Abstract!Lapse, Visible
  <2>4. ASSUME NEW k \in Keys, NEW v \in Values, Set(k, v)
        PROVE  Abstract!Set(k, v) \/ Abstract!Lapse({k})
    <3> DEFINE e == [value |-> v, expiresAt |-> clock + ttl]
    <3>1. entries' = [entries EXCEPT ![k] = e] /\ clock' = clock /\ reply' = reply
      BY <2>4 DEF Set
    <3>2. e.value = v
      OBVIOUS
    \* Visible at once, with a TTL above zero.
    <3>3. CASE Live(e, clock)
      <4>1. Visible' = [Visible EXCEPT ![k] = v]
        BY <3>1, <3>2, <3>3 DEF Visible
      <4> QED BY <3>1, <4>1 DEF Abstract!Set
    \* Dead on arrival.
    <3>4. CASE ~Live(e, clock)
      <4>1. Visible' = [j \in Keys |-> IF j \in {k} THEN Nothing ELSE Visible[j]]
        BY <3>1, <3>4 DEF Visible
      <4> QED BY <3>1, <4>1 DEF Abstract!Lapse
    <3> QED BY <3>3, <3>4
  <2>5. ASSUME Clear PROVE Abstract!Lapse(Keys)
    BY <2>5 DEF Clear, Abstract!Lapse, Visible
  <2>6. ASSUME Tick PROVE Abstract!Lapse({k \in Keys : ~Live(entries[k], clock + 1)})
    BY <2>6 DEF Tick, Abstract!Lapse, Visible
  <2>7. CASE UNCHANGED vars
    BY <2>7 DEF vars, Abstract!vars, Visible
  <2>8. ASSUME GetEnd PROVE \E k \in Keys : Abstract!Get(k)
    BY <2>2, <2>8 DEF GetEnd, LockFree
  <2> QED BY <2>1, <2>3, <2>4, <2>5, <2>6, <2>7, <2>8 DEF Next, Abstract!Next
<1> QED BY <1>1, <1>2, TypeCorrect, PTL DEF Spec, ImplementsExpiringMap, Abstract!Spec

\* Without a positive TTL every entry is dead from the start.
DeadEntries ==
  /\ NonPositiveTtlNeverHits
  /\ ttl <= 0 => \A k \in Keys : ~Live(entries[k], clock)

(***************************************************************************)
(* CFA_CACHE_TTL_SECONDS <= 0 switches the cache off for good (cache.py:28 *)
(* and 50): no interleaving of gets and sets ever yields a hit.            *)
(***************************************************************************)
THEOREM ZeroTtlSwitchesOff == Spec => []NonPositiveTtlNeverHits
<1>1. Init => DeadEntries
  BY DEF Init, DeadEntries, NonPositiveTtlNeverHits, Live
<1>2. TypeOK /\ DeadEntries /\ [Next]_vars => DeadEntries'
  <2>0. [Next]_vars => ttl' = ttl
    BY DEF Next, vars, GetBegin, GetEnd, Set, Invalidate, Clear, Tick
  <2> SUFFICES ASSUME TypeOK, DeadEntries, ttl <= 0, [Next]_vars PROVE DeadEntries'
    BY <2>0 DEF DeadEntries, NonPositiveTtlNeverHits
  <2> USE DEF TypeOK, Entry, Live, DeadEntries, NonPositiveTtlNeverHits
  <2>1. ASSUME NEW k \in Keys, GetBegin(k) PROVE DeadEntries'
    BY <2>1 DEF GetBegin, Pruned
  <2>2. ASSUME GetEnd PROVE DeadEntries'
    BY <2>2 DEF GetEnd, LockFree
  <2>3. ASSUME NEW k \in Keys, Invalidate(k) PROVE DeadEntries'
    BY <2>3 DEF Invalidate
  <2>4. ASSUME NEW k \in Keys, NEW v \in Values, Set(k, v) PROVE DeadEntries'
    BY <2>4 DEF Set
  <2>5. CASE Clear
    BY <2>5 DEF Clear
  <2>6. CASE Tick
    BY <2>6 DEF Tick
  <2>7. CASE UNCHANGED vars
    BY <2>7 DEF vars
  <2> QED BY <2>1, <2>2, <2>3, <2>4, <2>5, <2>6, <2>7 DEF Next
<1> QED BY <1>1, <1>2, TypeCorrect, PTL DEF Spec, DeadEntries
=============================================================================
