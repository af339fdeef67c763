---------------------------- MODULE CacheManager ----------------------------
(***************************************************************************)
(* services/cache_mgr.py: ContextCacheManager keeps, per context hash, the *)
(* identifier of a context cache that lives at the LLM provider.  The      *)
(* threads of the daemon share one manager.  A locked block is one action; *)
(* the calls of the provider made outside the lock are steps of their own. *)
(*                                                                         *)
(* Abstractions.  A context hash is a member of Hashes.  Identifiers are   *)
(* numbers handed out in order (uuid4, or the name the service gives).     *)
(* time.time() is a clock that never goes back; one tick is one second.    *)
(* Statistics are left out: no decision reads them.                        *)
(***************************************************************************)
EXTENDS Naturals, FiniteSets

CONSTANTS
    Callers,      \* threads that use the manager
    Hashes,       \* context hashes
    MaxEntries,   \* max_entries
    TTL,          \* ttl_seconds
    MaxTime,      \* bound: the clock stops here
    MaxCaches     \* bound: caches the provider hands out

ASSUME CacheAssumption ==
    /\ IsFiniteSet(Callers) /\ Callers # {}
    /\ IsFiniteSet(Hashes)
    /\ MaxEntries \in Nat \ {0}
    /\ TTL \in Nat /\ MaxTime \in Nat /\ MaxCaches \in Nat

VARIABLES
    now,         \* time.time()
    cached,      \* _store: set of CacheEntry
    created,     \* number of caches the provider has handed out
    deleted,     \* identifiers the provider was told to delete
    task         \* thread -> where it stands in a call of the manager

cacheVars == <<now, cached, created, deleted, task>>

CacheIds == 1 .. MaxCaches
CacheEntry == [context_hash : Hashes, cache_id : Nat, expires_at : Nat]

Idle == [op |-> "idle"]
Creating(h) == [op |-> "creating", hash |-> h]
Storing(e) == [op |-> "storing", entry |-> e]
Deleting(D) == [op |-> "deleting", ids |-> D]
Task == {Idle} \cup [op : {"creating"}, hash : Hashes]
               \cup [op : {"storing"}, entry : CacheEntry]
               \cup [op : {"deleting"}, ids : SUBSET Nat]

CacheTypeOK ==
    /\ now \in Nat
    /\ cached \in SUBSET CacheEntry
    /\ created \in Nat
    /\ deleted \in SUBSET Nat
    /\ task \in [Callers -> Task]

CacheInit ==
    /\ now = 0
    /\ cached = {}
    /\ created = 0
    /\ deleted = {}
    /\ task = [t \in Callers |-> Idle]

Set(t, s) == task' = [task EXCEPT ![t] = s]

\* self._store.get(hash): at most one entry has the hash.
Entries(h) == {e \in cached : e.context_hash = h}
Ids(E) == {e.cache_id : e \in E}

Tick ==
    /\ now < MaxTime
    /\ now' = now + 1
    /\ UNCHANGED <<cached, created, deleted, task>>

-----------------------------------------------------------------------------
Valid(e) == e.expires_at > now

\* get_or_create returns the identifier of an entry that is still valid.
Hit(t, h) ==
    /\ task[t] = Idle
    /\ \E e \in Entries(h) : Valid(e)
    /\ UNCHANGED cacheVars

\* Fault: the limit is tested with > instead of >=.
Evicted_OffByOne(E) ==
    IF Cardinality(cached) > MaxEntries
    THEN E \in {{e} : e \in {x \in cached : \A y \in cached :
                                            x.expires_at <= y.expires_at}}
    ELSE E = {}

\* _evict_oldest: E is what a store at its limit gives up.
Evicted(E) ==
    IF Cardinality(cached) >= MaxEntries
    THEN E \in {{e} : e \in {x \in cached : \A y \in cached :
                                            x.expires_at <= y.expires_at}}
    ELSE E = {}

\* get_or_create finds no valid entry.  The provider is told to delete an
\* expired one, which stays in the store until it is replaced or evicted.
Miss(t, h) ==
    /\ task[t] = Idle
    /\ created < MaxCaches
    /\ ~ \E e \in Entries(h) : Valid(e)
    /\ \E E \in SUBSET cached :
          /\ Evicted(E)
          /\ cached' = cached \ E
          /\ deleted' = deleted \cup Ids(Entries(h)) \cup Ids(E)
    /\ Set(t, Creating(h))
    /\ UNCHANGED <<now, created>>

\* provider.create_context_cache, outside the lock; the entry it leads to
\* expires ttl_seconds after the answer.
CreateReturns(t) ==
    /\ task[t].op = "creating"
    /\ created < MaxCaches
    /\ created' = created + 1
    /\ Set(t, Storing([context_hash |-> task[t].hash,
                       cache_id     |-> created',
                       expires_at   |-> now + TTL]))
    /\ UNCHANGED <<now, cached, deleted>>

\* The provider raises: run_once logs it and goes on without a cache.
CreateRaises(t) ==
    /\ task[t].op = "creating"
    /\ Set(t, Idle)
    /\ UNCHANGED <<now, cached, created, deleted>>

\* self._store[ctx_hash] = new_entry, whatever is there by now.
Store(t) ==
    /\ task[t].op = "storing"
    /\ LET e == task[t].entry
       IN  cached' = (cached \ Entries(e.context_hash)) \cup {e}
    /\ Set(t, Idle)
    /\ UNCHANGED <<now, created, deleted>>

-----------------------------------------------------------------------------
\* Fault: the entries are read and stay in the store.
Remove_Keep(t, E) ==
    /\ Set(t, Deleting(Ids(E)))
    /\ UNCHANGED <<now, cached, created, deleted>>

\* The entries E leave the store under the lock; the provider is told later.
Remove(t, E) ==
    /\ cached' = cached \ E
    /\ Set(t, Deleting(Ids(E)))
    /\ UNCHANGED <<now, created, deleted>>

invalidate(t, h) ==
    /\ task[t] = Idle
    /\ Entries(h) # {}
    /\ Remove(t, Entries(h))

\* The time is read before the lock is taken, so it may be an earlier one.
cleanup_expired(t) ==
    /\ task[t] = Idle
    /\ \E at \in 0 .. now :
          LET old == {e \in cached : e.expires_at <= at}
          IN  old # {} /\ Remove(t, old)

clear_all(t) ==
    /\ task[t] = Idle
    /\ cached # {}
    /\ Remove(t, cached)

\* _delete_safe for the next of the removed entries; a failure is swallowed.
DeleteNext(t) ==
    /\ task[t].op = "deleting"
    /\ \E i \in task[t].ids :
          /\ deleted' = deleted \cup {i}
          /\ Set(t, IF task[t].ids = {i} THEN Idle
                    ELSE Deleting(task[t].ids \ {i}))
    /\ UNCHANGED <<now, cached, created>>

get_or_create(t, h) == Hit(t, h) \/ Miss(t, h)

Maintain(t) ==
    \/ \E h \in Hashes : invalidate(t, h)
    \/ cleanup_expired(t)
    \/ clear_all(t)

Continue(t) ==
    CreateReturns(t) \/ CreateRaises(t) \/ Store(t) \/ DeleteNext(t)

-----------------------------------------------------------------------------
Creators == {t \in Callers : task[t].op \in {"creating", "storing"}}

\* The limit of the store holds although it is tested before, and not at, the
\* insertion: get_or_create checks len(_store), lets go of the lock for the
\* call of the provider, and inserts.  Each thread on its way to an insertion
\* takes a place, so the store may exceed max_entries by one less than the
\* number of threads, never by more, however long it is used.
EntryBound ==
    Cardinality(cached) + Cardinality(Creators)
        <= MaxEntries + Cardinality(Callers) - 1

\* An identifier get_or_create can hand out is one the provider was not told
\* to delete: whatever threads invalidate, clean up, clear, evict and replace
\* in between, a deleted cache is in the store only when it has expired.
NoDeletedHit ==
    \A e \in cached : e.cache_id \in deleted => ~Valid(e)
=============================================================================
