--------------------------- MODULE ContextService ---------------------------
(***************************************************************************)
(* services/context_svc.py: StaticContextService builds the context of a   *)
(* review and keeps it per target file.  The threads of the daemon share   *)
(* one service and nothing locks it.                                       *)
(*                                                                         *)
(* Abstractions.  The diff of a file is the number of its version; the     *)
(* bundle built from it carries that number (its tiers and context_hash).  *)
(***************************************************************************)
EXTENDS Naturals

CONSTANTS
    Threads,      \* threads that run reviews
    Files,        \* target files
    Paths,        \* paths invalidate_for_path may be called with
    Under,        \* path -> the files equal to it or below it
    None,         \* no bundle, no request
    MaxVersion    \* bound: versions of a file

ASSUME ContextAssumption ==
    /\ Under \in [Paths -> SUBSET Files]
    /\ MaxVersion \in Nat
    /\ None \notin 0 .. MaxVersion

VARIABLES
    text,       \* file -> version of its current diff
    bundles,    \* _cache: file -> version its bundle was built from, or None
    request,    \* thread -> the request build_context works on, or None
    stale       \* file -> changed, and no invalidation has caught the change

contextVars == <<text, bundles, request, stale>>

Version == 0 .. MaxVersion
Request == [target_file : Files, version : Version, collecting : BOOLEAN]

ContextTypeOK ==
    /\ text \in [Files -> Version]
    /\ bundles \in [Files -> Version \cup {None}]
    /\ request \in [Threads -> Request \cup {None}]
    /\ stale \in [Files -> BOOLEAN]

ContextInit ==
    /\ text = [f \in Files |-> 0]
    /\ bundles = [f \in Files |-> None]
    /\ request = [t \in Threads |-> None]
    /\ stale = [f \in Files |-> FALSE]

\* The developer changes the file.
Edit(f) ==
    /\ text[f] < MaxVersion
    /\ text' = [text EXCEPT ![f] = @ + 1]
    /\ stale' = [stale EXCEPT ![f] = TRUE]
    /\ UNCHANGED <<bundles, request>>

\* A review of the file is requested, with the diff of this moment.
Take(t, f) ==
    /\ request[t] = None
    /\ request' = [request EXCEPT
                      ![t] = [target_file |-> f, version |-> text[f],
                              collecting  |-> FALSE]]
    /\ UNCHANGED <<text, bundles, stale>>

\* build_context returns the bundle kept for the file, of whatever version.
BuildHit(t, version) ==
    /\ request[t] # None
    /\ ~request[t].collecting
    /\ bundles[request[t].target_file] # None
    /\ version = bundles[request[t].target_file]
    /\ request' = [request EXCEPT ![t] = None]
    /\ UNCHANGED <<text, bundles, stale>>

\* build_context finds none and lets the providers collect the tiers.
BuildMiss(t) ==
    /\ request[t] # None
    /\ ~request[t].collecting
    /\ bundles[request[t].target_file] = None
    /\ request' = [request EXCEPT ![t].collecting = TRUE]
    /\ UNCHANGED <<text, bundles, stale>>

\* The bundle is kept, whatever was kept or dropped meanwhile.
Collected(t, version) ==
    /\ request[t] # None
    /\ request[t].collecting
    /\ version = request[t].version
    /\ bundles' = [bundles EXCEPT ![request[t].target_file] = version]
    /\ request' = [request EXCEPT ![t] = None]
    /\ UNCHANGED <<text, stale>>

-----------------------------------------------------------------------------
\* A thread is about to keep a bundle of an older version of the file.
InFlight(f) ==
    \E t \in Threads : /\ request[t] # None
                       /\ request[t].target_file = f
                       /\ request[t].version # text[f]

Drop(F) ==
    /\ bundles' = [f \in Files |-> IF f \in F THEN None ELSE bundles[f]]
    /\ stale' = [f \in Files |->
                   IF f \in F /\ ~InFlight(f) THEN FALSE ELSE stale[f]]
    /\ UNCHANGED <<text, request>>

\* Fault: only the entry of the path itself is removed.
invalidate_for_path_Exact(p) ==
    /\ bundles' = [f \in Files |-> IF f = p THEN None ELSE bundles[f]]
    /\ stale' = [f \in Files |->
                   IF f \in Under[p] /\ ~InFlight(f) THEN FALSE ELSE stale[f]]
    /\ UNCHANGED <<text, request>>

\* The keys are collected and then deleted one by one, without a lock: an
\* insertion while they are collected (RuntimeError) or another invalidation
\* (KeyError) may end the call with some of the entries still there.
invalidate_for_path(p) == \E F \in SUBSET Under[p] : Drop(F)

invalidate_all == Drop(Files)

-----------------------------------------------------------------------------
\* An invalidation takes effect: once invalidate_for_path or invalidate_all
\* got to a file after its last change, with no review of an older diff under
\* way that could put its bundle back, the bundle kept for the file is one of
\* the current diff, whatever reviews of it were started meanwhile.
InvalidationHolds ==
    \A f \in Files : ~stale[f] => bundles[f] \in {None, text[f]}
=============================================================================
