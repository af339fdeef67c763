--------------------------- MODULE ReviewContext ----------------------------
(***************************************************************************)
(* The context stage of ReviewOrchestrator.run_once: build_context of the  *)
(* shared context service, then get_or_create of the shared cache manager  *)
(* for the static tiers of the bundle.  Threads run reviews; any of them   *)
(* may instead maintain the two caches (invalidate, clean up, clear).      *)
(***************************************************************************)
EXTENDS ContextService, CacheManager

\* The threads that run reviews are the callers of the cache manager.
ASSUME CallersAssumption == Callers = Threads

\* The hash of the static context of a bundle.
HashOf(f, version) == <<f, version>>

ASSUME HashesAssumption ==
    \A f \in Files, version \in Version : HashOf(f, version) \in Hashes

VARIABLE built    \* thread -> the hash its bundle asks a cache for, or None

vars == <<contextVars, cacheVars, built>>

TypeOK ==
    /\ ContextTypeOK
    /\ CacheTypeOK
    /\ built \in [Threads -> Hashes \cup {None}]

Init ==
    /\ ContextInit
    /\ CacheInit
    /\ built = [t \in Threads |-> None]

Free(t) == request[t] = None /\ built[t] = None /\ task[t] = Idle

\* A review is taken up; build_context is called some steps later.
Begin(t) ==
    /\ Free(t)
    /\ \E f \in Files : Take(t, f)
    /\ UNCHANGED <<cacheVars, built>>

\* build_context returned a bundle; one without static tiers asks for no
\* cache and the stage is over.
Build(t) ==
    /\ \E version \in Version :
          /\ BuildHit(t, version) \/ Collected(t, version)
          /\ \/ built' = [built EXCEPT
                   ![t] = HashOf(request[t].target_file, version)]
             \/ UNCHANGED built
    /\ UNCHANGED cacheVars

\* run_once calls get_or_create.
Ask(t) ==
    /\ built[t] # None
    /\ get_or_create(t, built[t])
    /\ built' = [built EXCEPT ![t] = None]
    /\ UNCHANGED contextVars

Next ==
    \/ \E t \in Threads :
          \/ Begin(t)
          \/ BuildMiss(t) /\ UNCHANGED <<cacheVars, built>>
          \/ Build(t)
          \/ Ask(t)
          \/ Continue(t) /\ UNCHANGED <<contextVars, built>>
          \/ Free(t) /\ Maintain(t) /\ UNCHANGED <<contextVars, built>>
    \/ Tick /\ UNCHANGED <<contextVars, built>>
    \/ /\ \/ \E f \in Files : Edit(f)
          \/ \E p \in Paths : invalidate_for_path(p)
          \/ invalidate_all
       /\ UNCHANGED <<cacheVars, built>>

Spec == Init /\ [][Next]_vars
=============================================================================
