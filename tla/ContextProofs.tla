---------------------------- MODULE ContextProofs ----------------------------
(***************************************************************************)
(* Proofs about the context stage, for every number of threads and files,  *)
(* every limit, time to live and length of a run.                          *)
(***************************************************************************)
EXTENDS ReviewContext, FiniteSetTheorems, TLAPS

-----------------------------------------------------------------------------
\* What one step of Next is to each of the two caches.
ContextStep ==
    \/ \E t \in Threads :
          \/ \E f \in Files : Take(t, f)
          \/ BuildMiss(t)
          \/ \E version \in Version : BuildHit(t, version) \/ Collected(t, version)
    \/ \E f \in Files : Edit(f)
    \/ \E p \in Paths : invalidate_for_path(p)
    \/ invalidate_all

CacheStep ==
    \/ \E t \in Callers :
          \/ \E h \in Hashes : Miss(t, h)
          \/ Continue(t)
          \/ Maintain(t)
    \/ Tick

\* A file without a change that was missed has no bundle of an older text,
\* and no thread is about to keep one.
KeptCurrent ==
    \A f \in Files :
        ~stale[f] => bundles[f] \in {None, text[f]} /\ ~InFlight(f)

ContextInv == ContextTypeOK /\ KeptCurrent

\* No identifier is in two places: each has been handed out, a stored one
\* belongs to one entry, one on its way into the store is neither stored nor
\* deleted nor on its way twice, and one being deleted is out of the store.
StoredOnce ==
    /\ \A e \in cached : e.cache_id <= created
    /\ \A d, e \in cached : d.cache_id = e.cache_id => d = e
StoringIsNew ==
    \A t \in Callers :
        task[t].op = "storing" =>
            /\ task[t].entry.cache_id <= created
            /\ task[t].entry.cache_id \notin deleted
            /\ \A e \in cached : e.cache_id # task[t].entry.cache_id
            /\ \A u \in Callers :
                  u # t /\ task[u].op = "storing" =>
                      task[u].entry.cache_id # task[t].entry.cache_id
DeletingIsOut ==
    \A t \in Callers :
        task[t].op = "deleting" =>
            \A i \in task[t].ids :
                /\ i <= created
                /\ \A e \in cached : e.cache_id # i
                /\ \A u \in Callers :
                      task[u].op = "storing" => task[u].entry.cache_id # i
DeletedIsKnown == \A i \in deleted : i <= created

IdsInv ==
    /\ CacheTypeOK
    /\ StoredOnce /\ StoringIsNew /\ DeletingIsOut /\ DeletedIsKnown
    /\ NoDeletedHit

BoundInv == CacheTypeOK /\ IsFiniteSet(cached) /\ EntryBound

-----------------------------------------------------------------------------
\* The steps of the context service keep its types.
LEMMA ContextTypeStep ==
  ContextTypeOK /\ [ContextStep]_contextVars => ContextTypeOK'
<1> SUFFICES ASSUME ContextTypeOK, [ContextStep]_contextVars PROVE ContextTypeOK'
  OBVIOUS
<1> USE ContextAssumption DEF ContextTypeOK
<1>1. ASSUME NEW t \in Threads, NEW f \in Files, Take(t, f) PROVE ContextTypeOK'
  BY <1>1 DEF Take, Request
<1>2. ASSUME NEW t \in Threads, BuildMiss(t) PROVE ContextTypeOK'
  BY <1>2 DEF BuildMiss, Request
<1>3. ASSUME NEW t \in Threads, NEW v \in Version, BuildHit(t, v) PROVE ContextTypeOK'
  BY <1>3 DEF BuildHit
<1>4. ASSUME NEW t \in Threads, NEW v \in Version, Collected(t, v) PROVE ContextTypeOK'
  BY <1>4 DEF Collected
<1>5. ASSUME NEW f \in Files, Edit(f) PROVE ContextTypeOK'
  BY <1>5 DEF Edit, Version
<1>6. ASSUME NEW F \in SUBSET Files, Drop(F) PROVE ContextTypeOK'
  BY <1>6 DEF Drop
<1>7. CASE UNCHANGED contextVars
  BY <1>7 DEF contextVars
<1>8. ASSUME NEW p \in Paths, invalidate_for_path(p) PROVE ContextTypeOK'
  BY <1>8, <1>6 DEF invalidate_for_path
<1>9. CASE invalidate_all
  BY <1>9, <1>6 DEF invalidate_all
<1> QED
  BY <1>1, <1>2, <1>3, <1>4, <1>5, <1>7, <1>8, <1>9 DEF ContextStep

\* Reviews, edits and invalidations keep KeptCurrent.
LEMMA KeptCurrentStep ==
  ContextInv /\ [ContextStep]_contextVars => KeptCurrent'
<1> SUFFICES ASSUME ContextInv, [ContextStep]_contextVars PROVE KeptCurrent'
  OBVIOUS
<1> USE ContextAssumption DEF ContextInv, ContextTypeOK
<1>1. ASSUME NEW t \in Threads, NEW f \in Files, Take(t, f) PROVE KeptCurrent'
  BY <1>1 DEF Take, KeptCurrent, InFlight
<1>2. ASSUME NEW t \in Threads, BuildMiss(t) PROVE KeptCurrent'
  BY <1>2 DEF BuildMiss, Request, KeptCurrent, InFlight
<1>3. ASSUME NEW t \in Threads, NEW v \in Version, BuildHit(t, v) PROVE KeptCurrent'
  BY <1>3 DEF BuildHit, KeptCurrent, InFlight
<1>4. ASSUME NEW t \in Threads, NEW v \in Version, Collected(t, v) PROVE KeptCurrent'
  BY <1>4 DEF Collected, Request, KeptCurrent, InFlight
<1>5. ASSUME NEW f \in Files, Edit(f) PROVE KeptCurrent'
  BY <1>5 DEF Edit, KeptCurrent, InFlight
<1>6. ASSUME NEW F \in SUBSET Files, Drop(F) PROVE KeptCurrent'
  <2>1. \A f \in Files : InFlight(f)' <=> InFlight(f)
    BY <1>6 DEF Drop, InFlight
  <2>2. \A f \in Files : ~stale'[f] => ~InFlight(f)
    BY <1>6 DEF Drop, KeptCurrent
  <2>3. \A f \in Files : ~stale'[f] => bundles'[f] \in {None, text'[f]}
    BY <1>6 DEF Drop, KeptCurrent
  <2> QED BY <2>1, <2>2, <2>3 DEF KeptCurrent
<1>7. CASE UNCHANGED contextVars
  BY <1>7 DEF contextVars, KeptCurrent, InFlight
<1>8. ASSUME NEW p \in Paths, invalidate_for_path(p) PROVE KeptCurrent'
  BY <1>8, <1>6 DEF invalidate_for_path
<1>9. CASE invalidate_all
  BY <1>9, <1>6 DEF invalidate_all
<1> QED
  BY <1>1, <1>2, <1>3, <1>4, <1>5, <1>7, <1>8, <1>9 DEF ContextStep

-----------------------------------------------------------------------------
\* What a thread in the middle of a call carries.
LEMMA TaskFields ==
  ASSUME CacheTypeOK, NEW t \in Callers
  PROVE  /\ task[t] \in Task
         /\ task[t].op = "creating" => task[t].hash \in Hashes
         /\ task[t].op = "storing" => task[t].entry \in CacheEntry
         /\ task[t].op = "deleting" => task[t].ids \in SUBSET Nat
  BY DEF CacheTypeOK, Task, Idle

\* The tasks the manager sets.
LEMMA TaskType ==
  /\ Idle \in Task /\ Idle.op = "idle"
  /\ \A h \in Hashes : Creating(h) \in Task /\ Creating(h).op = "creating"
  /\ \A e \in CacheEntry :
        /\ Storing(e) \in Task
        /\ Storing(e).op = "storing" /\ Storing(e).entry = e
  /\ \A D \in SUBSET Nat :
        /\ Deleting(D) \in Task
        /\ Deleting(D).op = "deleting" /\ Deleting(D).ids = D
  BY DEF Task, Idle, Creating, Storing, Deleting

\* The identifiers of entries are numbers, and a member of Ids is one of them.
LEMMA IdsType ==
  ASSUME NEW E \in SUBSET CacheEntry
  PROVE  /\ Ids(E) \in SUBSET Nat
         /\ \A i \in Ids(E) : \E e \in E : e.cache_id = i
  BY DEF Ids, CacheEntry

\* An eviction takes one entry of a full store and nothing of another.
LEMMA EvictedEntry ==
  ASSUME NEW E \in SUBSET cached, Evicted(E)
  PROVE  \/ Cardinality(cached) >= MaxEntries /\ \E e \in cached : E = {e}
         \/ ~(Cardinality(cached) >= MaxEntries) /\ E = {}
  BY Zenon DEF Evicted

\* The entry CreateReturns makes.
LEMMA NewEntryType ==
  ASSUME CacheTypeOK, NEW h \in Hashes
  PROVE  /\ created + 1 \in Nat /\ now + TTL \in Nat
         /\ [context_hash |-> h, cache_id |-> created + 1, expires_at |-> now + TTL]
                \in CacheEntry
  BY CacheAssumption DEF CacheTypeOK, CacheEntry

\* Every removal takes entries of the store.
LEMMA MaintainRemoves ==
  ASSUME NEW t \in Callers, Maintain(t)
  PROVE  task[t] = Idle /\ \E E \in SUBSET cached : Remove(t, E)
<1>1. ASSUME NEW h \in Hashes, invalidate(t, h)
      PROVE  task[t] = Idle /\ \E E \in SUBSET cached : Remove(t, E)
  <2>1. Entries(h) \in SUBSET cached
    BY DEF Entries
  <2> QED BY <1>1, <2>1 DEF invalidate
<1>2. CASE cleanup_expired(t)
  <2>1. PICK at \in 0 .. now : Remove(t, {e \in cached : e.expires_at <= at})
    BY <1>2 DEF cleanup_expired
  <2>2. {e \in cached : e.expires_at <= at} \in SUBSET cached
    OBVIOUS
  <2> QED BY <1>2, <2>1, <2>2 DEF cleanup_expired
<1>3. CASE clear_all(t)
  BY <1>3 DEF clear_all
<1> QED BY <1>1, <1>2, <1>3 DEF Maintain

\* The steps of the cache manager keep its types.
LEMMA CacheTypeStep == CacheTypeOK /\ [CacheStep]_cacheVars => CacheTypeOK'
<1> SUFFICES ASSUME CacheTypeOK, [CacheStep]_cacheVars PROVE CacheTypeOK'
  OBVIOUS
<1>T. /\ now \in Nat /\ cached \in SUBSET CacheEntry /\ created \in Nat
      /\ deleted \in SUBSET Nat /\ task \in [Callers -> Task]
  BY DEF CacheTypeOK
<1>1. ASSUME NEW t \in Callers, NEW h \in Hashes, Miss(t, h) PROVE CacheTypeOK'
  <2>1. PICK E \in SUBSET cached :
           cached' = cached \ E /\ deleted' = deleted \cup Ids(Entries(h)) \cup Ids(E)
    BY <1>1, Zenon DEF Miss
  <2>2. Entries(h) \in SUBSET CacheEntry /\ E \in SUBSET CacheEntry
    BY <1>T DEF Entries
  <2>3. deleted' \in SUBSET Nat
    BY <1>T, <2>1, <2>2, IdsType
  <2>4. task' \in [Callers -> Task]
    BY <1>1, <1>T, TaskType DEF Miss, Set
  <2> QED BY <1>1, <1>T, <2>1, <2>3, <2>4 DEF Miss, CacheTypeOK
<1>2. ASSUME NEW t \in Callers, CreateReturns(t) PROVE CacheTypeOK'
  <2>1. task[t].hash \in Hashes
    BY <1>2, TaskFields DEF CreateReturns
  <2> DEFINE e == [context_hash |-> task[t].hash, cache_id |-> created + 1,
                   expires_at |-> now + TTL]
  <2>2. e \in CacheEntry /\ created + 1 \in Nat
    BY <2>1, NewEntryType
  <2>3. /\ task' = [task EXCEPT ![t] = Storing(e)] /\ created' = created + 1
        /\ UNCHANGED <<now, cached, deleted>>
    BY <1>2 DEF CreateReturns, Set
  <2> HIDE DEF e
  <2>4. task' \in [Callers -> Task]
    BY <1>T, <2>2, <2>3, TaskType
  <2> QED BY <1>T, <2>2, <2>3, <2>4 DEF CacheTypeOK
<1>3. ASSUME NEW t \in Callers, CreateRaises(t) PROVE CacheTypeOK'
  BY <1>3, <1>T, TaskType DEF CreateRaises, Set, CacheTypeOK
<1>4. ASSUME NEW t \in Callers, Store(t) PROVE CacheTypeOK'
  <2>1. task[t].entry \in CacheEntry
    BY <1>4, TaskFields DEF Store
  <2> QED BY <1>4, <2>1, <1>T, TaskType DEF Store, Set, CacheTypeOK
<1>5. ASSUME NEW t \in Callers, DeleteNext(t) PROVE CacheTypeOK'
  <2>1. task[t].ids \in SUBSET Nat
    BY <1>5, TaskFields DEF DeleteNext
  <2>2. PICK i \in task[t].ids :
           /\ deleted' = deleted \cup {i}
           /\ Set(t, IF task[t].ids = {i} THEN Idle ELSE Deleting(task[t].ids \ {i}))
    BY <1>5 DEF DeleteNext
  <2>3. (IF task[t].ids = {i} THEN Idle ELSE Deleting(task[t].ids \ {i})) \in Task
    BY <2>1, TaskType
  <2>4. task' \in [Callers -> Task]
    BY <1>T, <2>2, <2>3 DEF Set
  <2> QED BY <1>5, <1>T, <2>1, <2>2, <2>4 DEF DeleteNext, CacheTypeOK
<1>6. ASSUME NEW t \in Callers, Maintain(t) PROVE CacheTypeOK'
  <2>1. PICK E \in SUBSET cached : Remove(t, E)
    BY <1>6, MaintainRemoves
  <2>2. Ids(E) \in SUBSET Nat
    BY <1>T, IdsType
  <2>3. Deleting(Ids(E)) \in Task
    BY <2>2, TaskType
  <2>4. task' \in [Callers -> Task]
    BY <1>T, <2>1, <2>3 DEF Remove, Set
  <2> QED BY <1>T, <2>1, <2>4 DEF Remove, CacheTypeOK
<1>7. CASE Tick
  BY <1>7 DEF Tick, CacheTypeOK
<1>8. CASE UNCHANGED cacheVars
  BY <1>8 DEF cacheVars, CacheTypeOK
<1> QED
  BY <1>1, <1>2, <1>3, <1>4, <1>5, <1>6, <1>7, <1>8 DEF CacheStep, Continue

-----------------------------------------------------------------------------
\* One task set: what becomes of the set of threads on their way to an
\* insertion.
LEMMA CreatorsStep ==
  ASSUME CacheTypeOK, NEW t \in Callers, NEW s, Set(t, s)
  PROVE  /\ s.op \in {"creating", "storing"} => Creators' = Creators \cup {t}
         /\ s.op \notin {"creating", "storing"} => Creators' = Creators \ {t}
<1>1. \A u \in Callers : task'[u] = IF u = t THEN s ELSE task[u]
  BY DEF Set, CacheTypeOK
<1> QED BY <1>1 DEF Creators

\* Sizes of the two sets the bound adds up.
LEMMA CreatorsSize ==
  ASSUME BoundInv
  PROVE  /\ IsFiniteSet(Creators) /\ Cardinality(Creators) \in Nat
         /\ Cardinality(cached) \in Nat
         /\ Cardinality(Callers) \in Nat
         /\ \A t \in Callers \ Creators : Cardinality(Creators) + 1 <= Cardinality(Callers)
<1>1. Creators \in SUBSET Callers
  BY DEF Creators
<1>2. IsFiniteSet(Creators) /\ IsFiniteSet(cached) /\ IsFiniteSet(Callers)
  BY <1>1, CacheAssumption, FS_Subset DEF BoundInv
<1>3. /\ Cardinality(Creators) \in Nat /\ Cardinality(cached) \in Nat
      /\ Cardinality(Callers) \in Nat
  BY <1>2, FS_CardinalityType
<1>4. ASSUME NEW t \in Callers \ Creators
      PROVE  Cardinality(Creators) + 1 <= Cardinality(Callers)
  <2>1. Cardinality(Creators \cup {t}) = Cardinality(Creators) + 1
    BY <1>2, FS_AddElement
  <2>2. Creators \cup {t} \in SUBSET Callers
    BY <1>1
  <2>3. Cardinality(Creators \cup {t}) <= Cardinality(Callers)
    BY <1>2, <2>2, FS_Subset
  <2> QED BY <2>1, <2>3
<1> QED BY <1>2, <1>3, <1>4

\* A miss gives up an entry of a full store for the place it takes.
LEMMA BoundMiss ==
  ASSUME BoundInv, NEW t \in Callers, NEW h \in Hashes, Miss(t, h)
  PROVE  IsFiniteSet(cached') /\ EntryBound'
<1>1. t \notin Creators
  BY TaskType DEF Miss, Creators
<1>2. Creators' = Creators \cup {t}
  <2>1. Set(t, Creating(h)) /\ Creating(h).op = "creating"
    BY TaskType DEF Miss
  <2> QED BY <2>1, CreatorsStep DEF BoundInv
<1>S. /\ IsFiniteSet(Creators) /\ Cardinality(Creators) \in Nat
      /\ Cardinality(cached) \in Nat /\ Cardinality(Callers) \in Nat
      /\ Cardinality(Creators) + 1 <= Cardinality(Callers)
  BY <1>1, CreatorsSize
<1>3. Cardinality(Creators') = Cardinality(Creators) + 1
  BY <1>1, <1>2, <1>S, FS_AddElement
<1>4. PICK E \in SUBSET cached : Evicted(E) /\ cached' = cached \ E
  BY Zenon DEF Miss
<1>5. CASE \E e \in cached : E = {e}
  <2>1. PICK e \in cached : E = {e}
    BY <1>5
  <2>2. IsFiniteSet(cached') /\ Cardinality(cached') = Cardinality(cached) - 1
    BY <1>4, <2>1, FS_RemoveElement DEF BoundInv
  <2> QED BY <2>2, <1>3, <1>S, CacheAssumption DEF BoundInv, EntryBound
<1>6. CASE ~(Cardinality(cached) >= MaxEntries) /\ E = {}
  <2>1. cached' = cached
    BY <1>4, <1>6
  <2>2. Cardinality(cached) + 1 <= MaxEntries
    BY <1>6, <1>S, CacheAssumption
  <2> QED BY <2>1, <2>2, <1>3, <1>S, CacheAssumption DEF BoundInv, EntryBound
<1> QED BY <1>4, <1>5, <1>6, EvictedEntry

\* An insertion adds one entry at most and gives its place back.
LEMMA BoundStore ==
  ASSUME BoundInv, NEW t \in Callers, Store(t)
  PROVE  IsFiniteSet(cached') /\ EntryBound'
<1>1. t \in Creators /\ Set(t, Idle)
  BY DEF Store, Creators
<1>2. Creators' = Creators \ {t}
  BY <1>1, TaskType, CreatorsStep DEF BoundInv
<1>S. /\ IsFiniteSet(Creators) /\ Cardinality(Creators) \in Nat
      /\ Cardinality(cached) \in Nat /\ Cardinality(Callers) \in Nat
  BY CreatorsSize
<1>3. Cardinality(Creators') = Cardinality(Creators) - 1
  BY <1>1, <1>2, <1>S, FS_RemoveElement
<1> DEFINE e == task[t].entry
           rest == cached \ Entries(e.context_hash)
<1>4. cached' = rest \cup {e}
  BY DEF Store
<1> HIDE DEF e
<1>5. IsFiniteSet(rest) /\ Cardinality(rest) <= Cardinality(cached)
  BY FS_Subset DEF BoundInv
<1> HIDE DEF rest
<1>6. Cardinality(rest) \in Nat
  BY <1>5, FS_CardinalityType
<1>7. /\ IsFiniteSet(cached') /\ Cardinality(cached') \in Nat
      /\ Cardinality(cached') <= Cardinality(rest) + 1
  <2>1. /\ IsFiniteSet(rest \cup {e})
        /\ Cardinality(rest \cup {e}) =
              IF e \in rest THEN Cardinality(rest) ELSE Cardinality(rest) + 1
    BY <1>5, FS_AddElement
  <2>2. /\ Cardinality(rest \cup {e}) \in Nat
        /\ Cardinality(rest \cup {e}) <= Cardinality(rest) + 1
    BY <1>6, <2>1
  <2> QED BY <1>4, <2>1, <2>2
<1> QED BY <1>3, <1>5, <1>6, <1>7, <1>S, CacheAssumption DEF BoundInv, EntryBound

\* A step that adds no entry and takes no place.
LEMMA BoundShrinks ==
  ASSUME BoundInv, cached' \in SUBSET cached, Creators' \in SUBSET Creators
  PROVE  IsFiniteSet(cached') /\ EntryBound'
<1>S. /\ IsFiniteSet(Creators) /\ Cardinality(Creators) \in Nat
      /\ Cardinality(cached) \in Nat /\ Cardinality(Callers) \in Nat
  BY CreatorsSize
<1>1. IsFiniteSet(cached') /\ Cardinality(cached') <= Cardinality(cached)
  BY FS_Subset DEF BoundInv
<1>2. IsFiniteSet(Creators') /\ Cardinality(Creators') <= Cardinality(Creators)
  BY <1>S, FS_Subset
<1>3. Cardinality(cached') \in Nat /\ Cardinality(Creators') \in Nat
  BY <1>1, <1>2, FS_CardinalityType
<1> QED BY <1>1, <1>2, <1>3, <1>S, CacheAssumption DEF BoundInv, EntryBound

\* No step takes the store over the bound.
LEMMA BoundStep == BoundInv /\ [CacheStep]_cacheVars => BoundInv'
<1> SUFFICES ASSUME BoundInv, [CacheStep]_cacheVars PROVE BoundInv'
  OBVIOUS
<1>0. CacheTypeOK'
  BY CacheTypeStep DEF BoundInv
<1> SUFFICES IsFiniteSet(cached') /\ EntryBound'
  BY <1>0 DEF BoundInv
<1>1. ASSUME NEW t \in Callers, NEW h \in Hashes, Miss(t, h)
      PROVE  IsFiniteSet(cached') /\ EntryBound'
  BY <1>1, BoundMiss
<1>2. ASSUME NEW t \in Callers, CreateReturns(t)
      PROVE  IsFiniteSet(cached') /\ EntryBound'
  <2>1. t \in Creators /\ cached' = cached
    BY <1>2 DEF CreateReturns, Creators
  <2>2. PICK e : Set(t, Storing(e))
    BY <1>2 DEF CreateReturns
  <2>3. Storing(e).op = "storing"
    BY DEF Storing
  <2>4. Creators' = Creators \cup {t}
    BY <2>2, <2>3, CreatorsStep DEF BoundInv
  <2> QED BY <2>1, <2>4, BoundShrinks
<1>3. ASSUME NEW t \in Callers, CreateRaises(t)
      PROVE  IsFiniteSet(cached') /\ EntryBound'
  <2>1. Creators' = Creators \ {t} /\ cached' = cached
    BY <1>3, TaskType, CreatorsStep DEF CreateRaises, BoundInv
  <2> QED BY <2>1, BoundShrinks
<1>4. ASSUME NEW t \in Callers, Store(t)
      PROVE  IsFiniteSet(cached') /\ EntryBound'
  BY <1>4, BoundStore
<1>5. ASSUME NEW t \in Callers, DeleteNext(t)
      PROVE  IsFiniteSet(cached') /\ EntryBound'
  <2>1. PICK s : Set(t, s) /\ (s = Idle \/ \E D : s = Deleting(D))
    BY <1>5, Zenon DEF DeleteNext
  <2>2. s.op \notin {"creating", "storing"}
    BY <2>1 DEF Idle, Deleting
  <2>3. Creators' = Creators \ {t} /\ cached' = cached
    BY <1>5, <2>1, <2>2, CreatorsStep DEF DeleteNext, BoundInv
  <2> QED BY <2>3, BoundShrinks
<1>6. ASSUME NEW t \in Callers, Maintain(t)
      PROVE  IsFiniteSet(cached') /\ EntryBound'
  <2>1. PICK E \in SUBSET cached : Remove(t, E)
    BY <1>6, MaintainRemoves
  <2>2. Deleting(Ids(E)).op = "deleting"
    BY DEF Deleting
  <2>3. Creators' = Creators \ {t} /\ cached' = cached \ E
    BY <2>1, <2>2, CreatorsStep DEF Remove, BoundInv
  <2> QED BY <2>3, BoundShrinks
<1>7. CASE Tick \/ UNCHANGED cacheVars
  <2>1. cached' = cached /\ Creators' = Creators
    BY <1>7 DEF Tick, cacheVars, Creators
  <2> QED BY <2>1, BoundShrinks
<1> QED
  BY <1>1, <1>2, <1>3, <1>4, <1>5, <1>6, <1>7 DEF CacheStep, Continue

-----------------------------------------------------------------------------
\* A miss deletes the expired entry it found and the one it evicts.
LEMMA IdsMiss ==
  ASSUME IdsInv, NEW t \in Callers, NEW h \in Hashes, Miss(t, h)
  PROVE  StoredOnce' /\ StoringIsNew' /\ DeletingIsOut' /\ DeletedIsKnown' /\ NoDeletedHit'
<1>1. PICK E \in SUBSET cached :
         cached' = cached \ E /\ deleted' = deleted \cup Ids(Entries(h)) \cup Ids(E)
  BY Zenon DEF Miss
<1>2. created' = created /\ now' = now
  BY DEF Miss
<1>3. \A e \in Entries(h) : e \in cached /\ ~Valid(e)
  BY DEF Miss, Entries
<1>T. /\ cached \in SUBSET CacheEntry /\ task \in [Callers -> Task]
  BY DEF IdsInv, CacheTypeOK
<1>4. \A i \in deleted' : \/ i \in deleted
                          \/ \E e \in Entries(h) : e.cache_id = i
                          \/ \E e \in E : e.cache_id = i
  BY <1>1 DEF Ids
<1>5. \A u \in Callers :
         /\ task'[u].op \in {"storing", "deleting"} => task'[u] = task[u]
  <2>1. \A u \in Callers : task'[u] = IF u = t THEN Creating(h) ELSE task[u]
    BY <1>T DEF Miss, Set
  <2>2. Creating(h).op = "creating"
    BY TaskType
  <2> QED BY <2>1, <2>2
<1>6. StoredOnce'
  BY <1>1, <1>2 DEF IdsInv, StoredOnce
<1>7. DeletedIsKnown'
  BY <1>2, <1>3, <1>4 DEF IdsInv, StoredOnce, DeletedIsKnown
<1>8. StoringIsNew'
  BY <1>1, <1>2, <1>3, <1>4, <1>5 DEF IdsInv, StoringIsNew
<1>9. DeletingIsOut'
  BY <1>1, <1>2, <1>5 DEF IdsInv, DeletingIsOut
<1>10. NoDeletedHit'
  BY <1>1, <1>2, <1>3, <1>4 DEF IdsInv, NoDeletedHit, StoredOnce, Valid
<1> QED BY <1>6, <1>7, <1>8, <1>9, <1>10

\* The provider's next identifier is in no place.
LEMMA IdsCreate ==
  ASSUME IdsInv, NEW t \in Callers, CreateReturns(t)
  PROVE  StoredOnce' /\ StoringIsNew' /\ DeletingIsOut' /\ DeletedIsKnown' /\ NoDeletedHit'
<1>T. /\ cached \in SUBSET CacheEntry /\ task \in [Callers -> Task]
      /\ created \in Nat /\ deleted \in SUBSET Nat
  BY DEF IdsInv, CacheTypeOK
<1>1. /\ created' = created + 1 /\ cached' = cached /\ deleted' = deleted
      /\ now' = now
  BY DEF CreateReturns
<1> DEFINE n == [context_hash |-> task[t].hash, cache_id |-> created + 1,
                 expires_at |-> now + TTL]
<1>2. \A u \in Callers : task'[u] = IF u = t THEN Storing(n) ELSE task[u]
  BY <1>T DEF CreateReturns, Set
<1>3. n.cache_id = created + 1
  OBVIOUS
<1>H. task[t].hash \in Hashes
  BY TaskFields DEF IdsInv, CreateReturns
<1>E. n \in CacheEntry
  BY <1>H, NewEntryType DEF IdsInv
<1> HIDE DEF n
<1>4. Storing(n).op = "storing" /\ Storing(n).entry = n
  BY <1>E, TaskType
<1>5. \A e \in cached : e.cache_id \in Nat /\ e.cache_id <= created
  BY <1>T DEF IdsInv, StoredOnce, CacheEntry
<1>6. \A i \in deleted : i \in Nat /\ i <= created
  BY <1>T DEF IdsInv, DeletedIsKnown
<1>7. \A u \in Callers : task[u].op = "storing" =>
         task[u].entry.cache_id \in Nat /\ task[u].entry.cache_id <= created
  BY TaskFields DEF IdsInv, StoringIsNew, CacheEntry
<1>8. \A u \in Callers : task[u].op = "deleting" =>
         \A i \in task[u].ids : i \in Nat /\ i <= created
  BY TaskFields DEF IdsInv, DeletingIsOut
<1>9. StoredOnce' /\ DeletedIsKnown' /\ NoDeletedHit'
  BY <1>1, <1>T, <1>5, <1>6
  DEF IdsInv, StoredOnce, DeletedIsKnown, NoDeletedHit, Valid
<1>10. StoringIsNew'
  <2> SUFFICES ASSUME NEW u \in Callers, task'[u].op = "storing"
               PROVE  /\ task'[u].entry.cache_id <= created + 1
                      /\ task'[u].entry.cache_id \notin deleted
                      /\ \A e \in cached : e.cache_id # task'[u].entry.cache_id
                      /\ \A w \in Callers :
                            w # u /\ task'[w].op = "storing" =>
                                task'[w].entry.cache_id # task'[u].entry.cache_id
    BY <1>1 DEF StoringIsNew
  <2>1. CASE u = t
    <3>1. task'[u].entry.cache_id = created + 1
      BY <2>1, <1>2, <1>3, <1>4
    <3>2. \A w \in Callers : w # u => task'[w] = task[w]
      BY <2>1, <1>2
    <3> QED BY <3>1, <3>2, <1>5, <1>6, <1>7, <1>T
  <2>2. CASE u # t
    <3>1. task'[u] = task[u]
      BY <2>2, <1>2
    <3>2. \A w \in Callers : task'[w].op = "storing" =>
             \/ task'[w] = task[w]
             \/ task'[w].entry.cache_id = created + 1
      BY <1>2, <1>3, <1>4
    <3> QED BY <3>1, <3>2, <1>7, <1>T DEF IdsInv, StoringIsNew
  <2> QED BY <2>1, <2>2
<1>11. DeletingIsOut'
  <2> SUFFICES ASSUME NEW u \in Callers, task'[u].op = "deleting",
                      NEW i \in task'[u].ids
               PROVE  /\ i <= created + 1
                      /\ \A e \in cached : e.cache_id # i
                      /\ \A w \in Callers :
                            task'[w].op = "storing" => task'[w].entry.cache_id # i
    BY <1>1 DEF DeletingIsOut
  <2>1. task'[u] = task[u]
    BY <1>2, <1>4
  <2>2. \A w \in Callers : task'[w].op = "storing" =>
             \/ task'[w] = task[w]
             \/ task'[w].entry.cache_id = created + 1
    BY <1>2, <1>3, <1>4
  <2> QED BY <2>1, <2>2, <1>8, <1>T DEF IdsInv, DeletingIsOut
<1> QED BY <1>9, <1>10, <1>11

\* The entry on its way goes into the store.
LEMMA IdsStore ==
  ASSUME IdsInv, NEW t \in Callers, Store(t)
  PROVE  StoredOnce' /\ StoringIsNew' /\ DeletingIsOut' /\ DeletedIsKnown' /\ NoDeletedHit'
<1>T. task \in [Callers -> Task]
  BY DEF IdsInv, CacheTypeOK
<1> DEFINE n == task[t].entry
<1>1. /\ cached' \in SUBSET (cached \cup {n})
      /\ task[t].op = "storing"
      /\ created' = created /\ deleted' = deleted /\ now' = now
  BY DEF Store
<1>2. \A u \in Callers : task'[u].op \in {"storing", "deleting"} =>
         task'[u] = task[u] /\ u # t
  <2>1. \A u \in Callers : task'[u] = IF u = t THEN Idle ELSE task[u]
    BY <1>T DEF Store, Set
  <2> QED BY <2>1, TaskType
<1>3. /\ n.cache_id <= created /\ n.cache_id \notin deleted
      /\ \A e \in cached : e.cache_id # n.cache_id
      /\ \A u \in Callers : u # t /\ task[u].op = "storing" =>
            task[u].entry.cache_id # n.cache_id
      /\ \A u \in Callers : task[u].op = "deleting" => n.cache_id \notin task[u].ids
  BY <1>1 DEF IdsInv, StoringIsNew, DeletingIsOut
<1> HIDE DEF n
<1>4. StoredOnce'
  BY <1>1, <1>3 DEF IdsInv, StoredOnce
<1>5. StoringIsNew'
  BY <1>1, <1>2, <1>3 DEF IdsInv, StoringIsNew
<1>6. DeletingIsOut'
  BY <1>1, <1>2, <1>3 DEF IdsInv, DeletingIsOut
<1>7. DeletedIsKnown' /\ NoDeletedHit'
  BY <1>1, <1>3 DEF IdsInv, DeletedIsKnown, NoDeletedHit, Valid
<1> QED BY <1>4, <1>5, <1>6, <1>7

\* Entries leave the store to be deleted.
LEMMA IdsRemove ==
  ASSUME IdsInv, NEW t \in Callers, NEW E \in SUBSET cached, task[t] = Idle,
         Remove(t, E)
  PROVE  StoredOnce' /\ StoringIsNew' /\ DeletingIsOut' /\ DeletedIsKnown' /\ NoDeletedHit'
<1>T. /\ cached \in SUBSET CacheEntry /\ task \in [Callers -> Task]
  BY DEF IdsInv, CacheTypeOK
<1>1. /\ cached' = cached \ E
      /\ created' = created /\ deleted' = deleted /\ now' = now
  BY DEF Remove
<1>2. Ids(E) \in SUBSET Nat /\ \A i \in Ids(E) : \E e \in E : e.cache_id = i
  BY <1>T, IdsType
<1>3. Deleting(Ids(E)).op = "deleting" /\ Deleting(Ids(E)).ids = Ids(E)
  BY <1>2, TaskType
<1>4. \A u \in Callers : task'[u] = IF u = t THEN Deleting(Ids(E)) ELSE task[u]
  BY <1>T DEF Remove, Set
<1>5. \A u \in Callers : task'[u].op = "storing" => task'[u] = task[u]
  BY <1>3, <1>4
<1>6. StoredOnce' /\ DeletedIsKnown' /\ NoDeletedHit'
  BY <1>1 DEF IdsInv, StoredOnce, DeletedIsKnown, NoDeletedHit, Valid
<1>7. StoringIsNew'
  BY <1>1, <1>5 DEF IdsInv, StoringIsNew
<1>8. ASSUME NEW u \in Callers, task'[u].op = "deleting", NEW i \in task'[u].ids
      PROVE  /\ i <= created
             /\ \A e \in cached' : e.cache_id # i
             /\ \A w \in Callers : task'[w].op = "storing" => task'[w].entry.cache_id # i
  <2>1. CASE u = t
    <3>1. PICK e \in E : e.cache_id = i
      BY <2>1, <1>8, <1>2, <1>3, <1>4
    <3> QED BY <3>1, <1>1, <1>5 DEF IdsInv, StoredOnce, StoringIsNew
  <2>2. CASE u # t
    <3>1. task'[u] = task[u]
      BY <2>2, <1>4
    <3> QED BY <3>1, <1>8, <1>1, <1>5 DEF IdsInv, DeletingIsOut
  <2> QED BY <2>1, <2>2
<1>9. DeletingIsOut'
  BY <1>1, <1>8 DEF DeletingIsOut
<1> QED BY <1>6, <1>7, <1>9

\* The provider is told to delete an identifier that has left the store.
LEMMA IdsDelete ==
  ASSUME IdsInv, NEW t \in Callers, DeleteNext(t)
  PROVE  StoredOnce' /\ StoringIsNew' /\ DeletingIsOut' /\ DeletedIsKnown' /\ NoDeletedHit'
<1>T. /\ task \in [Callers -> Task] /\ task[t].ids \in SUBSET Nat
  BY TaskFields DEF IdsInv, CacheTypeOK, DeleteNext
<1>1. PICK i \in task[t].ids :
         /\ deleted' = deleted \cup {i}
         /\ Set(t, IF task[t].ids = {i} THEN Idle ELSE Deleting(task[t].ids \ {i}))
  BY DEF DeleteNext
<1>2. /\ cached' = cached /\ created' = created /\ now' = now
      /\ task[t].op = "deleting"
  BY DEF DeleteNext
<1>3. \A u \in Callers :
         task'[u] = IF u = t
                    THEN IF task[t].ids = {i} THEN Idle ELSE Deleting(task[t].ids \ {i})
                    ELSE task[u]
  BY <1>T, <1>1 DEF Set
<1>4. /\ Deleting(task[t].ids \ {i}).op = "deleting"
      /\ Deleting(task[t].ids \ {i}).ids = task[t].ids \ {i}
      /\ Idle.op = "idle"
  BY <1>T, TaskType
<1>5. \A u \in Callers : task'[u].op = "storing" => task'[u] = task[u]
  BY <1>3, <1>4
<1>6. \A u \in Callers : task'[u].op = "deleting" =>
         task[u].op = "deleting" /\ task'[u].ids \in SUBSET task[u].ids
  BY <1>2, <1>3, <1>4
<1>7. /\ i <= created
      /\ \A e \in cached : e.cache_id # i
      /\ \A u \in Callers : task[u].op = "storing" => task[u].entry.cache_id # i
  BY <1>2 DEF IdsInv, DeletingIsOut
<1>8. StoredOnce' /\ DeletedIsKnown' /\ NoDeletedHit'
  BY <1>1, <1>2, <1>7 DEF IdsInv, StoredOnce, DeletedIsKnown, NoDeletedHit, Valid
<1>9. StoringIsNew'
  BY <1>1, <1>2, <1>5, <1>7 DEF IdsInv, StoringIsNew
<1>10. DeletingIsOut'
  BY <1>2, <1>5, <1>6 DEF IdsInv, DeletingIsOut
<1> QED BY <1>8, <1>9, <1>10

\* Every step keeps each identifier in one place.
LEMMA IdsStep == IdsInv /\ [CacheStep]_cacheVars => IdsInv'
<1> SUFFICES ASSUME IdsInv, [CacheStep]_cacheVars PROVE IdsInv'
  OBVIOUS
<1>0. CacheTypeOK'
  BY CacheTypeStep DEF IdsInv
<1> DEFINE Goal == /\ StoredOnce /\ StoringIsNew /\ DeletingIsOut
                   /\ DeletedIsKnown /\ NoDeletedHit
<1> SUFFICES Goal'
  BY <1>0 DEF IdsInv
<1>1. ASSUME NEW t \in Callers, CreateRaises(t) PROVE Goal'
  <2>1. \A u \in Callers : task'[u] = IF u = t THEN Idle ELSE task[u]
    BY <1>1 DEF CreateRaises, Set, IdsInv, CacheTypeOK
  <2>2. \A u \in Callers : task'[u].op \in {"storing", "deleting"} => task'[u] = task[u]
    BY <2>1, TaskType
  <2>3. /\ cached' = cached /\ created' = created /\ deleted' = deleted /\ now' = now
    BY <1>1 DEF CreateRaises
  <2>4. StoredOnce' /\ DeletedIsKnown' /\ NoDeletedHit'
    BY <2>3 DEF IdsInv, StoredOnce, DeletedIsKnown, NoDeletedHit, Valid
  <2>5. StoringIsNew' /\ DeletingIsOut'
    BY <2>2, <2>3 DEF IdsInv, StoringIsNew, DeletingIsOut
  <2> QED BY <2>4, <2>5
<1>2. ASSUME NEW t \in Callers, Maintain(t) PROVE Goal'
  BY <1>2, MaintainRemoves, IdsRemove
<1>3. CASE Tick
  <2>1. \A e \in cached : ~Valid(e) => ~Valid(e)'
    BY <1>3 DEF Tick, Valid, IdsInv, CacheTypeOK, CacheEntry
  <2>2. NoDeletedHit'
    BY <1>3, <2>1 DEF Tick, NoDeletedHit, IdsInv, Valid
  <2>3. StoredOnce' /\ StoringIsNew' /\ DeletingIsOut' /\ DeletedIsKnown'
    BY <1>3 DEF Tick, IdsInv, StoredOnce, StoringIsNew, DeletingIsOut, DeletedIsKnown
  <2> QED BY <2>2, <2>3
<1>4. CASE UNCHANGED cacheVars
  BY <1>4
  DEF cacheVars, IdsInv, StoredOnce, StoringIsNew, DeletingIsOut, DeletedIsKnown,
      NoDeletedHit, Valid
<1>5. ASSUME NEW t \in Callers, Continue(t) PROVE Goal'
  BY <1>1, <1>5, IdsCreate, IdsStore, IdsDelete DEF Continue
<1>6. ASSUME NEW t \in Callers, NEW h \in Hashes, Miss(t, h) PROVE Goal'
  BY <1>6, IdsMiss
<1> QED
  BY <1>2, <1>3, <1>4, <1>5, <1>6 DEF CacheStep

-----------------------------------------------------------------------------
\* A step of the stage is a step of each cache, or leaves it alone.
LEMMA StageSteps ==
  ASSUME built \in [Threads -> Hashes \cup {None}], [Next]_vars
  PROVE  [ContextStep]_contextVars /\ [CacheStep]_cacheVars
<1> USE CallersAssumption
<1>1. ASSUME NEW t \in Threads, Begin(t)
      PROVE  ContextStep /\ UNCHANGED cacheVars
  BY <1>1, Zenon DEF Begin, ContextStep
<1>2. ASSUME NEW t \in Threads, BuildMiss(t), UNCHANGED <<cacheVars, built>>
      PROVE  ContextStep /\ UNCHANGED cacheVars
  BY <1>2, Zenon DEF ContextStep
<1>3. ASSUME NEW t \in Threads, Build(t)
      PROVE  ContextStep /\ UNCHANGED cacheVars
  BY <1>3, Zenon DEF Build, ContextStep
<1>4. ASSUME NEW t \in Threads, Ask(t)
      PROVE  UNCHANGED contextVars /\ [CacheStep]_cacheVars
  <2>1. built[t] \in Hashes /\ UNCHANGED contextVars
    BY <1>4 DEF Ask
  <2>2. UNCHANGED cacheVars \/ Miss(t, built[t])
    BY <1>4 DEF Ask, get_or_create, Hit
  <2> QED BY <2>1, <2>2, Zenon DEF CacheStep
<1>5. ASSUME NEW t \in Threads, Continue(t) \/ Maintain(t),
             UNCHANGED <<contextVars, built>>
      PROVE  UNCHANGED contextVars /\ CacheStep
  BY <1>5, Zenon DEF CacheStep
<1>6. CASE Tick /\ UNCHANGED <<contextVars, built>>
  BY <1>6, Zenon DEF CacheStep
<1>7. CASE /\ \/ \E f \in Files : Edit(f)
              \/ \E p \in Paths : invalidate_for_path(p)
              \/ invalidate_all
           /\ UNCHANGED <<cacheVars, built>>
  BY <1>7, Zenon DEF ContextStep
<1>8. CASE UNCHANGED vars
  BY <1>8, Zenon DEF vars
<1> QED
  BY <1>1, <1>2, <1>3, <1>4, <1>5, <1>6, <1>7, <1>8 DEF Next

\* A bundle asks for the cache of a hash of its file and version.
LEMMA BuiltStep ==
  ASSUME ContextTypeOK, built \in [Threads -> Hashes \cup {None}], [Next]_vars
  PROVE  built' \in [Threads -> Hashes \cup {None}]
<1>1. ASSUME NEW t \in Threads, Build(t)
      PROVE  built' \in [Threads -> Hashes \cup {None}]
  <2>1. PICK v \in Version :
           /\ BuildHit(t, v) \/ Collected(t, v)
           /\ \/ built' = [built EXCEPT ![t] = HashOf(request[t].target_file, v)]
              \/ built' = built
    BY <1>1, Zenon DEF Build
  <2>2. request[t] \in Request
    BY <2>1 DEF BuildHit, Collected, ContextTypeOK
  <2>3. HashOf(request[t].target_file, v) \in Hashes
    BY <2>2, HashesAssumption DEF Request
  <2> QED BY <2>1, <2>3
<1>2. ASSUME NEW t \in Threads, Ask(t)
      PROVE  built' \in [Threads -> Hashes \cup {None}]
  BY <1>2 DEF Ask
<1>3. CASE built' = built
  BY <1>3
<1>4. (\E t \in Threads : Build(t) \/ Ask(t)) \/ built' = built
  BY Zenon DEF Next, vars, Begin
<1> QED BY <1>1, <1>2, <1>3, <1>4

\* The types of the context stage.
THEOREM ContextTypes == Spec => []TypeOK
<1>1. Init => TypeOK
  BY ContextAssumption, TaskType
  DEF Init, ContextInit, CacheInit, TypeOK, ContextTypeOK, CacheTypeOK, Version
<1>2. TypeOK /\ [Next]_vars => TypeOK'
  BY StageSteps, BuiltStep, ContextTypeStep, CacheTypeStep, Zenon DEF TypeOK
<1> QED BY <1>1, <1>2, PTL DEF Spec

\* An invalidation that found no review of an older diff under way holds until
\* the next change of the file.
THEOREM InvalidationTakesEffect == Spec => []InvalidationHolds
<1>1. Init => KeptCurrent
  BY DEF Init, ContextInit, KeptCurrent, InFlight
<1>2. TypeOK /\ KeptCurrent /\ [Next]_vars => KeptCurrent'
  BY StageSteps, KeptCurrentStep, Zenon DEF TypeOK, ContextInv
<1>3. KeptCurrent => InvalidationHolds
  BY DEF KeptCurrent, InvalidationHolds
<1> QED BY <1>1, <1>2, <1>3, ContextTypes, PTL DEF Spec

\* The store exceeds max_entries by less than the number of threads.
THEOREM StoreIsBounded == Spec => []EntryBound
<1> DEFINE Part == IsFiniteSet(cached) /\ EntryBound
<1>1. Init => Part
  <2> SUFFICES ASSUME Init PROVE Part
    OBVIOUS
  <2>1. cached = {} /\ Creators = {}
    BY TaskType DEF Init, CacheInit, Creators
  <2>2. Cardinality(Callers) \in Nat /\ Cardinality(Callers) # 0
    BY CacheAssumption, FS_CardinalityType, FS_EmptySet
  <2> QED BY <2>1, <2>2, FS_EmptySet, CacheAssumption DEF EntryBound
<1>2. TypeOK /\ Part /\ [Next]_vars => Part'
  BY StageSteps, BoundStep, Zenon DEF TypeOK, BoundInv
<1>3. Part => EntryBound
  OBVIOUS
<1> QED BY <1>1, <1>2, <1>3, ContextTypes, PTL DEF Spec

\* get_or_create hands out no identifier the provider was told to delete.
THEOREM NoDeletedCache == Spec => []NoDeletedHit
<1> DEFINE Part == /\ StoredOnce /\ StoringIsNew /\ DeletingIsOut
                   /\ DeletedIsKnown /\ NoDeletedHit
<1>1. Init => Part
  BY TaskType
  DEF Init, CacheInit, StoredOnce, StoringIsNew, DeletingIsOut, DeletedIsKnown,
      NoDeletedHit
<1>2. TypeOK /\ Part /\ [Next]_vars => Part'
  BY StageSteps, IdsStep, Zenon DEF TypeOK, IdsInv
<1>3. Part => NoDeletedHit
  OBVIOUS
<1> QED BY <1>1, <1>2, <1>3, ContextTypes, PTL DEF Spec

=============================================================================
