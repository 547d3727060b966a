-------------------------- MODULE ReadThroughCache --------------------------
(***************************************************************************)
(* The cache of shared/cache.py as its users see it: entries with a time   *)
(* to live, in a dictionary of the process or in Redis.  A Redis that      *)
(* cannot be reached loses sets and deletes and answers no get, without    *)
(* telling anyone (Lossy); the dictionary does none of this.               *)
(***************************************************************************)
EXTENDS Naturals

CONSTANTS
  Keys,     \* cache keys
  TTL,      \* the entries' time to live
  Lossy,    \* TRUE for Redis, FALSE for the dictionary
  Nothing   \* no entry

ASSUME CacheAssumption == TTL \in Nat \ {0} /\ Lossy \in BOOLEAN

\* key -> [value, left (of its time to live), excused].  An entry is excused when
\* a delete that should have hit it was lost or had come too early: bookkeeping
\* of the model, for the properties.
VARIABLE store

EmptyCache == store = [k \in Keys |-> Nothing]

\* cache_get finds the entry (an expired one is gone: Age), or finds none, or fails,
\* which is a miss like any other.
Cached(k) == store[k] # Nothing
Missed(k) == ~Cached(k) \/ Lossy

\* cache_set
Put(k, value, excused) ==
  \/ store' = [store EXCEPT ![k] = [value |-> value, left |-> TTL, excused |-> excused]]
  \/ Lossy /\ UNCHANGED store

\* An entry that never expires.
AgeWrong == UNCHANGED store

\* Time passes for every entry; at the end of its time an entry is not served.
Age ==
  store' = [k \in Keys |-> IF Cached(k) /\ store[k].left > 1
                           THEN [store[k] EXCEPT !.left = @ - 1] ELSE Nothing]

\* cache_delete and cache_delete_pattern
Drop(keys) ==
  \E lost \in IF Lossy THEN SUBSET keys ELSE {{}} :
    store' = [k \in Keys |->
      CASE k \in lost /\ Cached(k) -> [store[k] EXCEPT !.excused = TRUE]
        [] k \in keys \ lost -> Nothing
        [] OTHER -> store[k]]

\* Redis evicts, or restarts; the dictionary keeps what it has.
Forget(k) == Lossy /\ Cached(k) /\ store' = [store EXCEPT ![k] = Nothing]
=============================================================================
