--------------------------- MODULE MCOrchestrator ---------------------------
(***************************************************************************)
(* Instances of the orchestrator for TLC.                                  *)
(***************************************************************************)
EXTENDS OrchestratorProps, TLC

CONSTANTS w1, w2, daemon, cli, i1, i2, k1, k2, f1

Change(i, k, intent) == [id |-> i, key |-> k, intent |-> intent, file |-> f1]

\* Two changes of one file, saved or submitted, under the ids the trigger
\* adapters derive from them (i1 for k1, i2 for k2) or under an id that the
\* client of the daemon supplied (i2 for k1).
MCRequests ==
    {Change(i1, k1, "passive_save"), Change(i1, k1, "active_intent"),
     Change(i2, k2, "passive_save"), Change(i2, k1, "active_intent")}

\* Two changes of the file.
TwoChanges ==
    {Change(i2, k2, "passive_save"), Change(i1, k1, "active_intent")}

MCAgentCount == [passive_save |-> 1, active_intent |-> 2]

OneAgent == [passive_save |-> 1, active_intent |-> 1]

\* Two worker threads of the daemon.
TwoThreads == w1 :> daemon @@ w2 :> daemon

\* A daemon thread and a command-line process.
TwoProcs == w1 :> daemon @@ w2 :> cli

ThreadSymmetry == Permutations({w1, w2})

\* The collaborators of the two programs as bin/ builds them.
MCServices == daemon :> {"patch"} @@ cli :> {"gate", "patch"}

\* Every optional collaborator, with the consensus engine and the auto-fix
\* service that the tests inject.
EveryService == daemon :> ServiceNames
=============================================================================
