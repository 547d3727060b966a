--------------------------- MODULE CachedRequests ---------------------------
(***************************************************************************)
(* How the services read through the shared cache and write past it: a     *)
(* miss reads the source and fills the entry in a later step; a write      *)
(* commits and deletes the entries afterwards.  Requests are coroutines,   *)
(* and their steps interleave.                                             *)
(***************************************************************************)
EXTENDS ReadThroughCache

CONSTANTS
  Requests,   \* concurrent requests
  MaxWrites   \* bound on the writes

ASSUME RequestsAssumption == MaxWrites \in Nat

VARIABLES
  job,        \* per request, what it is about to do
  writes      \* writes begun

Waiting == [pc |-> "waiting"]
NoRequests == EmptyCache /\ job = [q \in Requests |-> Waiting] /\ writes = 0
To(q, state) == job' = [job EXCEPT ![q] = state]

\* Another write begins.
CountWrite == writes < MaxWrites /\ writes' = writes + 1

\* A miss has read its value from the source.
Miss(q, k, value) ==
  /\ job[q] = Waiting /\ Missed(k)
  /\ To(q, [pc |-> "fill", key |-> k, value |-> value, late |-> FALSE])
  /\ UNCHANGED <<store, writes>>

Fill(q) ==
  /\ job[q].pc = "fill"
  /\ Put(job[q].key, job[q].value, job[q].late)
  /\ To(q, Waiting)
  /\ UNCHANGED writes

\* Request q has committed a write that changes the truth of the keys in changed
\* and will delete keys; fills under way that the write overtakes come too late.
Committed(q, keys, changed) ==
  job' = [r \in Requests |->
    CASE r = q -> [pc |-> "invalidate", keys |-> keys]
      [] job[r].pc \in {"comments", "fill"} -> [job[r] EXCEPT !.late = @ \/ job[r].key \in changed]
      [] OTHER -> job[r]]

\* cache_delete after the commit.  A process that dies in between counts as a lost
\* delete.
Invalidate(q) ==
  /\ job[q].pc = "invalidate"
  /\ Drop(job[q].keys)
  /\ To(q, Waiting)
  /\ UNCHANGED writes

CacheTick == (\E k \in Keys : Cached(k)) /\ Age /\ UNCHANGED <<job, writes>>

Evict == (\E k \in Keys : Forget(k)) /\ UNCHANGED <<job, writes>>

CacheStep == CacheTick \/ Evict \/ \E q \in Requests : Fill(q) \/ Invalidate(q)

\* Deletes still to come.
Pending(k) == \E q \in Requests : job[q].pc = "invalidate" /\ k \in job[q].keys

\* Nothing has gone wrong for this entry.
Trusted(k) == Cached(k) /\ ~store[k].excused /\ ~Pending(k)
=============================================================================
