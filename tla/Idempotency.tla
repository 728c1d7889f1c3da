---------------------------- MODULE Idempotency ----------------------------
(***************************************************************************)
(* The stores of the idempotency middleware: the keyed mutexes of a server *)
(* process, and in Redis the lock and the cached response of a cache key.  *)
(* Redis is external; it is modelled by the commands the code sends.       *)
(*                                                                         *)
(* Of a response only whether it is cached is kept: replaying it and       *)
(* refusing a different body (409) both leave everything as it was.  A     *)
(* lock holds the token of its request, or Orphan when nobody knows its    *)
(* token any more: the server that took it has died, or the request ended  *)
(* without the lock being deleted.                                         *)
(***************************************************************************)
EXTENDS Naturals

CONSTANTS
    Servers, Requests,
    CacheKeys,      \* scopedIdempotencyKey of the requests
    Orphan, None

VARIABLES
    local,          \* keyedLocks: who holds the mutex of a key on a server
    lock,           \* the lock: key in Redis
    cached,         \* the keys that have a response in Redis
    lapses          \* history: how often a lock expired under its owner

idemVars == <<local, lock, cached, lapses>>

\* acquire: the mutex is freed with its last reference, so an entry without a
\* holder and an entry that was deleted are the same.
AcquireLocal(s, k, r) ==
    /\ local[s][k] = None
    /\ local' = [local EXCEPT ![s][k] = r]

\* Mutant: a lock that exists is taken over.
LockAnyway(k, r) == lock' = [lock EXCEPT ![k] = r]

\* Lock: SET NX, polled every 50 ms
Lock(k, r) ==
    /\ lock[k] = None
    /\ lock' = [lock EXCEPT ![k] = r]

\* Lock, the answer to SET NX is lost: the lock is set, its request gives up.
LockUnanswered(k) ==
    /\ lock[k] = None
    /\ lock' = [lock EXCEPT ![k] = Orphan]

\* The mutex of the process is given back, also when Lock has failed.
ReleaseLocal(s, k, r) == local' = [local EXCEPT ![s][k] = IF @ = r THEN None ELSE @]

\* The releases deferred by the handler.  unlockScript deletes the lock only if
\* it still holds the token of this request.
Unlock(s, k, r) ==
    /\ lock' = [lock EXCEPT ![k] = IF @ = r THEN None ELSE @]
    /\ ReleaseLocal(s, k, r)

\* The error of unlockScript is ignored, and nobody renews the lock any more.
UnlockFails(s, k, r) ==
    /\ lock' = [lock EXCEPT ![k] = IF @ = r THEN Orphan ELSE @]
    /\ ReleaseLocal(s, k, r)

\* Mutant: the lock is set without a lifetime.
OrphanStays(k) == lock[k] # lock[k] /\ UNCHANGED lock

\* The lease of 30 s runs out: nobody renews it any more, or the renewals of its
\* owner are late (a pause of the process, Redis out of reach).
ExpireOrphan(k) ==
    /\ lock[k] = Orphan
    /\ lock' = [lock EXCEPT ![k] = None]

ExpireLock(k) ==
    /\ lock[k] \in Requests
    /\ lock' = [lock EXCEPT ![k] = None]
    /\ lapses' = [lapses EXCEPT ![k] = @ + 1]

\* Set, with the lifetime of 24 h
Store(k) == cached' = cached \cup {k}

ExpireResponse(k) ==
    /\ k \in cached
    /\ cached' = cached \ {k}

\* The process of a server dies: its mutexes are gone, its locks stay behind.
LoseServer(s, dead) ==
    /\ local' = [local EXCEPT ![s] = [k \in CacheKeys |-> None]]
    /\ lock' = [k \in CacheKeys |-> IF lock[k] \in dead THEN Orphan ELSE lock[k]]

IdempotencyInit ==
    /\ local = [s \in Servers |-> [k \in CacheKeys |-> None]]
    /\ lock = [k \in CacheKeys |-> None]
    /\ cached = {}
    /\ lapses = [k \in CacheKeys |-> 0]
=============================================================================
