---------------------------- MODULE StagedReview ----------------------------
(***************************************************************************)
(* bin/jemmin_cli.py --staged: _run_staged reviews the staged files one    *)
(* after the other with _run_direct and answers with an exit code.  It     *)
(* deletes spool.db before each review, while another process (the daemon, *)
(* another jemmin_cli) reviews changes with the same database.             *)
(*                                                                         *)
(* Abstractions.  run_once is cut down to what decides the exit code: the  *)
(* row of the change, the verdict of policy and agents, and the L3 gate    *)
(* with its prompt and its provider (module Orchestrator has the rest).    *)
(* The text printed at the end is left out.                                *)
(***************************************************************************)
EXTENDS PromptLoader, OllamaProvider, Sequences, FiniteSets

CONSTANTS
    Staged,      \* the staged files, in the order of git diff --name-only
    MaxRounds    \* bound: how often --staged is run

ASSUME StagedAssumption ==
    /\ Staged \in Seq(STRING) /\ Staged # <<>>
    /\ MaxRounds \in Nat

Files == {Staged[i] : i \in 1 .. Len(Staged)}
Owners == {"staged", "other"}
Outcomes == {"none", "unstaged", "skipped", "passed", "failed", "duplicate"}

AllFiles(o) == [f \in Files |-> o]

VARIABLES
    sameDir,    \* JEMMIN_RUNTIME_DIR is not set
    rows,       \* rows of ROOT/.jemmin/spool.db: <<file, owner>>
    dirRows,    \* rows of the database in JEMMIN_RUNTIME_DIR
    round,      \* runs of --staged so far
    pc,         \* where _run_staged is
    todo,       \* the files left, the one in hand first
    exit_code,
    outcome,    \* file -> what became of it in this run
    said,       \* file -> the answer of the model in this run, or "none"
    met         \* owners of the rows that turned a review of this run down

stagedVars == <<sameDir, rows, dirRows, round, pc, todo, exit_code, outcome,
                said, met>>
vars == <<promptVars, providerVars, stagedVars>>

TypeOK ==
    /\ PromptTypeOK
    /\ ProviderTypeOK
    /\ sameDir \in BOOLEAN
    /\ rows \subseteq Files \X Owners
    /\ dirRows \subseteq Files \X Owners
    /\ round \in 0 .. MaxRounds
    /\ pc \in {"idle", "diff", "clear", "select", "create", "agents", "prompt",
               "gate", "exited"}
    /\ todo \in Seq(Files)
    /\ exit_code \in {0, 1}
    /\ outcome \in [Files -> Outcomes]
    /\ said \in [Files -> Answers \cup {"failed", "none"}]
    /\ met \subseteq Owners

Init ==
    /\ PromptInit
    /\ ProviderInit
    /\ sameDir \in BOOLEAN
    /\ rows = {}
    /\ dirRows = {}
    /\ round = 0
    /\ pc = "idle"
    /\ todo = <<>>
    /\ exit_code = 0
    /\ outcome = AllFiles("none")
    /\ said = AllFiles("none")
    /\ met = {}

-----------------------------------------------------------------------------
\* git diff --cached --name-only fails, lists nothing, or lists the files.
List ==
    /\ pc \in {"idle", "exited"}
    /\ round < MaxRounds
    /\ round' = round + 1
    /\ said' = AllFiles("none")
    /\ met' = {}
    /\ \/ /\ pc' = "exited" /\ todo' = <<>>
          /\ \/ exit_code' = 1 /\ outcome' = AllFiles("none")
             \/ exit_code' = 0 /\ outcome' = AllFiles("unstaged")
       \/ /\ pc' = "diff" /\ todo' = Staged
          /\ exit_code' = 0 /\ outcome' = AllFiles("none")
    /\ UNCHANGED <<promptVars, providerVars, sameDir, rows, dirRows>>

f0 == Head(todo)

\* The loop goes on with the next file, or ends.
Advance ==
    /\ todo' = Tail(todo)
    /\ pc' = IF Len(todo) = 1 THEN "exited" ELSE "diff"

\* Fault: the exit code is that of the last review.
FileDone_LastWins(o) ==
    /\ outcome' = [outcome EXCEPT ![f0] = o]
    /\ exit_code' = IF o = "passed" THEN 0 ELSE 1
    /\ Advance

\* rc of _run_direct: any other result code than REVIEW_PASSED is 1.
FileDone(o) ==
    /\ outcome' = [outcome EXCEPT ![f0] = o]
    /\ exit_code' = IF o = "passed" THEN exit_code ELSE 1
    /\ Advance

\* git diff of the file is empty, or fails: both are "no diff".
SkipFile ==
    /\ pc = "diff"
    /\ outcome' = [outcome EXCEPT ![f0] = "skipped"]
    /\ Advance
    /\ UNCHANGED <<promptVars, providerVars, sameDir, rows, dirRows, round,
                   exit_code, said, met>>

DiffFile ==
    /\ pc = "diff"
    /\ pc' = "clear"
    /\ UNCHANGED <<promptVars, providerVars, sameDir, rows, dirRows, round,
                   todo, exit_code, outcome, said, met>>

\* Fault: the database is kept.
Cleared_Kept == rows

\* spool.unlink(): the rows of every process are gone.
Cleared == {}

UnlinkSpool ==
    /\ pc = "clear"
    /\ rows' = Cleared
    /\ pc' = "select"
    /\ UNCHANGED <<promptVars, providerVars, sameDir, dirRows, round, todo,
                   exit_code, outcome, said, met>>

\* An exception that nothing catches ends the process: unlink is refused, or the
\* answer to /api/tags is none available() knows how to read.
RunRaises ==
    /\ pc = "clear" \/ (pc = "select" /\ stream = "probe")
    /\ pc' = "exited"
    /\ exit_code' = 1
    /\ todo' = <<>>
    /\ NewProvider
    /\ UNCHANGED <<promptVars, sameDir, rows, dirRows, round, outcome, said, met>>

\* _select_provider makes a provider for this review and asks whether it is
\* available; if not, the mock takes its place.
SelectProvider ==
    /\ pc = "select"
    /\ IF available = "unknown"
       THEN Probe /\ UNCHANGED pc
       ELSE pc' = "create" /\ UNCHANGED providerVars
    /\ UNCHANGED <<promptVars, sameDir, rows, dirRows, round, todo, exit_code,
                   outcome, said, met>>

OwnRows == IF sameDir THEN rows ELSE dirRows

\* create_request of the database in the runtime directory.
CreateRow ==
    /\ pc = "create"
    /\ ~ \E o \in Owners : <<f0, o>> \in OwnRows
    /\ IF sameDir
       THEN rows' = rows \cup {<<f0, "staged">>} /\ UNCHANGED dirRows
       ELSE dirRows' = dirRows \cup {<<f0, "staged">>} /\ UNCHANGED rows
    /\ pc' = "agents"
    /\ UNCHANGED <<promptVars, providerVars, sameDir, round, todo, exit_code,
                   outcome, said, met>>

\* DUPLICATE_REQUEST_IGNORED.
DuplicateRow ==
    /\ pc = "create"
    /\ \E o \in Owners :
          /\ <<f0, o>> \in OwnRows
          /\ met' = met \cup {o}
    /\ FileDone("duplicate")
    /\ NewProvider
    /\ UNCHANGED <<promptVars, sameDir, rows, dirRows, round, said>>

\* Admission, policy or agents end the run with another code, or the run
\* degrades or fails.
AgentsBlock ==
    /\ pc = "agents"
    /\ FileDone("failed")
    /\ NewProvider
    /\ UNCHANGED <<promptVars, sameDir, rows, dirRows, round, said, met>>

\* The agents pass the change; the gate loads the system prompt.
AgentsPass ==
    /\ pc = "agents"
    /\ LookForFile
    /\ pc' = "prompt"
    /\ UNCHANGED <<providerVars, sameDir, rows, dirRows, round, todo,
                   exit_code, outcome, said, met>>

LoadPrompt ==
    /\ pc = "prompt"
    /\ IF lookup # "idle"
       THEN (StatFile \/ ReadFile) /\ UNCHANGED pc
       ELSE pc' = "gate" /\ UNCHANGED promptVars
    /\ UNCHANGED <<providerVars, sameDir, rows, dirRows, round, todo,
                   exit_code, outcome, said, met>>

\* provider.generate runs.
Generate ==
    /\ pc = "gate"
    /\ ProviderStep
    /\ UNCHANGED <<promptVars, stagedVars>>

\* The gate has its answer; the mock's is always a pass.
GateAnswers ==
    /\ pc = "gate"
    /\ available = "no" \/ stream = "ended"
    /\ FileDone(IF GateCode(answer) = "REVIEW_PASSED" THEN "passed" ELSE "failed")
    /\ said' = [said EXCEPT ![f0] = answer]
    /\ NewProvider
    /\ UNCHANGED <<promptVars, sameDir, rows, dirRows, round, met>>

StagedStep ==
    \/ SkipFile \/ DiffFile \/ UnlinkSpool \/ RunRaises \/ SelectProvider
    \/ CreateRow \/ DuplicateRow \/ AgentsBlock \/ AgentsPass \/ LoadPrompt
    \/ Generate \/ GateAnswers

\* Another process takes up the same change in ROOT/.jemmin.
OtherCreatesRow(f) ==
    /\ ~ \E o \in Owners : <<f, o>> \in rows
    /\ rows' = rows \cup {<<f, "other">>}
    /\ UNCHANGED <<promptVars, providerVars, sameDir, dirRows, round, pc, todo,
                   exit_code, outcome, said, met>>

Next ==
    \/ List
    \/ StagedStep
    \/ \E f \in Files : OtherCreatesRow(f)
    \/ PromptEnvironment /\ UNCHANGED <<providerVars, stagedVars>>
    \/ ServerSends /\ UNCHANGED <<promptVars, stagedVars>>

\* A process that runs is scheduled, git answers, and recv returns what was sent
\* or times out.  The server owes nothing.
FairSpec == Init /\ [][Next]_vars /\ WF_vars(StagedStep)

-----------------------------------------------------------------------------
\* "The review gate cannot go false-green": exit code 0 means that every staged
\* file git gave a diff of passed in a review of its own in this very run, not
\* turned down as a duplicate of another, and that the model, if it got to
\* answer, did not reject it, whatever came of the files after it.
GreenIsEarned ==
    pc = "exited" /\ exit_code = 0 =>
        \A f \in Files :
            /\ outcome[f] \in {"passed", "skipped", "unstaged"}
            /\ said[f] \notin {"rejects", "strange", "odd"}

\* "spool.db is reset to avoid idempotency conflicts": a review of --staged is
\* turned down only by the row of another process that came in after the
\* reset, never by one of its own or of an earlier --staged, provided the
\* reviews use the directory whose database is reset.
NoSelfCollision == sameDir => "staged" \notin met

\* _run_staged ends, whatever the server does but one thing: a stream of tokens
\* without an end is cut at the deadline, a silent server at the socket
\* time-out, and only one that drips within a single read holds the run.
StagedEnds == (pc # "idle" ~> pc = "exited") \/ ServerDrips
=============================================================================
