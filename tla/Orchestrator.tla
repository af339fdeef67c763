---------------------------- MODULE Orchestrator ----------------------------
(***************************************************************************)
(* ReviewOrchestrator.run_once, executed concurrently.                     *)
(*                                                                         *)
(* A run is one invocation of run_once: a worker thread of jemmin_daemon   *)
(* (up to ten at a time) or a direct run of jemmin_cli.  The runs of all   *)
(* processes share the spool database of module JobStore; the runs of one  *)
(* process also share its DefaultResourceManager.  A step of a run is the  *)
(* code from one access of shared state to the next, so every transaction  *)
(* is a step of its own and everything else interleaves around it.         *)
(*                                                                         *)
(* What run_once asks of its collaborators (policy, context, agents, LLM   *)
(* gate, patch and auto-fix services) is a choice among the answers they   *)
(* can give, an exception included.  The channels of ArtifactPublisher     *)
(* swallow their own errors and nothing reads them back here, so one       *)
(* Publish step stands for them.                                           *)
(*                                                                         *)
(* The database is there throughout.  jemmin_cli --staged unlinks it, also *)
(* under running reviews: StagedReview has that step.                      *)
(***************************************************************************)
EXTENDS JobStore

CONSTANTS
    Runs,          \* invocations of run_once
    Procs,         \* operating-system processes
    ProcOf,        \* run -> the process it runs in
    Files,         \* target_file values
    Requests,      \* ReviewRequest values that can be submitted
    AgentCount,    \* trigger_intent -> number of agents selected for it
    Services,      \* process -> the optional collaborators it was built with
    StoreMayFail,  \* whether a transaction may raise OperationalError
    MayCrash       \* whether a process may die

Intents == {"passive_save", "active_intent"}
ServiceNames == {"gate", "patch", "autofix", "patching_engine"}

ASSUME RunsAssumption ==
    /\ ProcOf \in [Runs -> Procs]
    /\ Services \in [Procs -> SUBSET ServiceNames]

ASSUME RequestsAssumption ==
    Requests \subseteq [id : Ids, key : Keys, intent : Intents, file : Files]

ASSUME ParametersAssumption ==
    /\ AgentCount \in [Intents -> Nat]
    /\ StoreMayFail \in BOOLEAN
    /\ MayCrash \in BOOLEAN

\* AgentDecision.status as far as the consensus tells statuses apart: "clear"
\* stands for pass, warn and error.
AgentStatus == {"clear", "reject"}

\* result_code of the LLM gate; REVIEW_REJECTED stands for every code that is
\* neither of the first two, as in the last branch that reads it.
L3Codes == {"REVIEW_PASSED", "PATCH_PROPOSED", "REVIEW_REJECTED"}

\* The classes of _classify_failure; LLM_UNAVAILABLE stands for LLM_TIMEOUT,
\* LLM_CONNECTION_ERROR and LLM_RATE_LIMITED, which differ in wording only.
FailureCodes == {"LLM_UNAVAILABLE", "SYSTEM_FAILED"}

ResultCodes ==
    L3Codes \cup FailureCodes \cup
    {"NONE", "DUPLICATE_REQUEST_IGNORED", "RESOURCE_REJECTED",
     "POLICY_REJECTED", "PATCH_REQUIRED", "PATCH_VERIFY_FAILED",
     "PATCH_APPLIED", "PATCH_ROLLBACK"}
ResultStatus ==
    {"none", "pass", "rejected", "degraded", "failed", "ignored", "patch"}

\* What the summary of a duplicate's result tells the caller about the review
\* of the same change.
Said == {"nothing", "completed", "in_progress"}

Result == [state  : ReviewState \cup {"none"},
           status : ResultStatus,
           code   : ResultCodes,
           says   : Said]

build_result(s, st, c) ==
    [state |-> s, status |-> st, code |-> c, says |-> "nothing"]

NoResult == build_result("none", "none", "NONE")

LlmResult == [code : L3Codes \cup {"unbound"}, patch : BOOLEAN]
Unbound == [code |-> "unbound", patch |-> FALSE]

PcValues ==
    {"idle", "create", "admit", "policy", "context", "agents", "decide", "l3",
     "patch", "autofix", "fail", "mark", "publish", "returned", "crashed"}

VARIABLES
    pc,          \* run -> where it is in run_once
    req,         \* run -> its argument
    current,     \* run -> current_state
    persisted,   \* run -> request_persisted
    decisions,   \* run -> statuses of the AgentDecisions collected so far
    llm,         \* run -> llm_result
    result,      \* run -> the ReviewResult it builds and returns
    marked,      \* run -> its mark_terminal committed (history)
    recent       \* process -> files with a passive save in the debounce window

locals == <<pc, req, current, persisted, decisions, llm, result, marked>>
vars == <<store, pc, req, current, persisted, decisions, llm, result, marked,
          recent>>

TypeOK ==
    /\ StoreTypeOK
    /\ pc \in [Runs -> PcValues]
    /\ req \in [Runs -> Requests]
    /\ current \in [Runs -> ReviewState]
    /\ persisted \in [Runs -> BOOLEAN]
    /\ decisions \in [Runs -> Seq(AgentStatus)]
    /\ llm \in [Runs -> LlmResult]
    /\ result \in [Runs -> Result]
    /\ marked \in [Runs -> BOOLEAN]
    /\ recent \in [Procs -> SUBSET Files]

Init ==
    /\ StoreInit
    /\ pc = [w \in Runs |-> "idle"]
    /\ req \in [Runs -> Requests]
    /\ current = [w \in Runs |-> "QUEUED"]
    /\ persisted = [w \in Runs |-> FALSE]
    /\ decisions = [w \in Runs |-> <<>>]
    /\ llm = [w \in Runs |-> Unbound]
    /\ result = [w \in Runs |-> NoResult]
    /\ marked = [w \in Runs |-> FALSE]
    /\ recent = [p \in Procs |-> {}]

-----------------------------------------------------------------------------
Has(w, service) == service \in Services[ProcOf[w]]

GoTo(w, label) == pc' = [pc EXCEPT ![w] = label]
Returns(w, r) == result' = [result EXCEPT ![w] = r]

FailureState(code) == IF code = "SYSTEM_FAILED" THEN "FAILED" ELSE "DEGRADED"
FailureStatus(code) == IF code = "SYSTEM_FAILED" THEN "failed" ELSE "degraded"

\* The result that _classify_failure gives an exception of class code.
classify_failure(code) ==
    build_result(FailureState(code), FailureStatus(code), code)

\* An exception leaves the try block of run_once.
Raise(w, code) == GoTo(w, "fail") /\ Returns(w, classify_failure(code))

\* A failed transaction raises an error that is classified SYSTEM_FAILED: its
\* message names neither a timeout nor a connection nor a rate limit.
StoreRaises(w) ==
    /\ StoreMayFail
    /\ StoreDown
    /\ Raise(w, "SYSTEM_FAILED")

Submit(w) ==
    /\ pc[w] = "idle"
    /\ GoTo(w, "create")
    /\ UNCHANGED <<store, req, current, persisted, decisions, llm, result,
                   marked, recent>>

\* create_request created the row.
CreateRequest(w) ==
    /\ pc[w] = "create"
    /\ CreateInserts(req[w])
    /\ persisted' = [persisted EXCEPT ![w] = TRUE]
    /\ GoTo(w, "admit")
    /\ UNCHANGED <<req, current, decisions, llm, result, marked, recent>>

duplicate_result(r) ==
    [state  |-> "DELIVERED",
     status |-> "ignored",
     code   |-> "DUPLICATE_REQUEST_IGNORED",
     says   |-> IF ExistingIsTerminal(r) THEN "completed" ELSE "in_progress"]

\* Fault: the result of a duplicate is marked terminal like any other.
handle_duplicate_request_Marks(w) ==
    /\ pc[w] = "create"
    /\ CreateFindsDuplicate(req[w])
    /\ Returns(w, duplicate_result(req[w]))
    /\ GoTo(w, "mark")
    /\ UNCHANGED <<req, current, persisted, decisions, llm, marked, recent>>

handle_duplicate_request(w) ==
    /\ pc[w] = "create"
    /\ CreateFindsDuplicate(req[w])
    /\ Returns(w, duplicate_result(req[w]))
    /\ GoTo(w, "publish")
    /\ UNCHANGED <<req, current, persisted, decisions, llm, marked, recent>>

CreateRaises(w) ==
    /\ pc[w] = "create"
    /\ StoreRaises(w)
    /\ UNCHANGED <<req, current, persisted, decisions, llm, marked, recent>>

\* allow_new_job of the process's DefaultResourceManager, under its lock.
\* Only passive_save has a debounce window; the first save opens it.
Debounced(w) ==
    /\ req[w].intent = "passive_save"
    /\ req[w].file \in recent[ProcOf[w]]

allow_new_job(w) ==
    /\ pc[w] = "admit"
    /\ ~Debounced(w)
    /\ recent' = IF req[w].intent = "passive_save"
                 THEN [recent EXCEPT ![ProcOf[w]] = @ \cup {req[w].file}]
                 ELSE recent
    /\ GoTo(w, "policy")
    /\ UNCHANGED <<store, req, current, persisted, decisions, llm, result,
                   marked>>

ResourceReject(w) ==
    /\ pc[w] = "admit"
    /\ Debounced(w)
    /\ Returns(w, build_result("DEGRADED", "degraded", "RESOURCE_REJECTED"))
    /\ GoTo(w, "mark")
    /\ UNCHANGED <<store, req, current, persisted, decisions, llm, marked,
                   recent>>

\* More than the debounce window passes since the last accepted save.
WindowExpires(p, f) ==
    /\ f \in recent[p]
    /\ recent' = [recent EXCEPT ![p] = @ \ {f}]
    /\ UNCHANGED <<store, locals>>

-----------------------------------------------------------------------------
\* Fault: current_state is not assigned after the transition.
Advance_Forgets(w, from, to, label) ==
    /\ transition_state(req[w].id, from, to)
    /\ GoTo(w, label)
    /\ UNCHANGED current

\* _transition_state from the step's expected state: it commits ...
Advance(w, from, to, label) ==
    /\ transition_state(req[w].id, from, to)
    /\ current' = [current EXCEPT ![w] = to]
    /\ GoTo(w, label)

\* ... or it raises, and current_state keeps its value.
AdvanceRaises(w, from, to) ==
    /\ StoreMayFail \/ TransitionRaises(req[w].id, from, to)
    /\ StoreDown
    /\ Raise(w, "SYSTEM_FAILED")

PolicyReject(w) ==
    /\ pc[w] = "policy"
    /\ Advance(w, "QUEUED", "PRECHECK_FAILED", "mark")
    /\ Returns(w, build_result("PRECHECK_FAILED", "rejected", "POLICY_REJECTED"))
    /\ UNCHANGED <<req, persisted, decisions, llm, marked, recent>>

PolicyAccept(w) ==
    /\ pc[w] = "policy"
    /\ Advance(w, "QUEUED", "CONTEXT_READY", "context")
    /\ UNCHANGED <<req, persisted, decisions, llm, result, marked, recent>>

\* build_context, the off-load submission and the context cache, the last two
\* with their own handlers; then the transition.
BuildContext(w) ==
    /\ pc[w] = "context"
    /\ Advance(w, "CONTEXT_READY", "ANALYZING", "agents")
    /\ UNCHANGED <<req, persisted, decisions, llm, result, marked, recent>>

total_agents(w) == AgentCount[req[w].intent]

\* One turn of the agent loop.
RunAgent(w) ==
    /\ pc[w] = "agents"
    /\ Len(decisions[w]) < total_agents(w)
    /\ \E s \in AgentStatus :
          decisions' = [decisions EXCEPT ![w] = Append(@, s)]
    /\ UNCHANGED <<store, pc, req, current, persisted, llm, result, marked,
                   recent>>

\* Fault: the transition to CONSENSUS_REACHED is missing.
CollectDecisions_NoTransition(w) ==
    /\ pc[w] = "agents"
    /\ Len(decisions[w]) = total_agents(w)
    /\ GoTo(w, "decide")
    /\ UNCHANGED <<store, req, current, persisted, decisions, llm, result,
                   marked, recent>>

CollectDecisions(w) ==
    /\ pc[w] = "agents"
    /\ Len(decisions[w]) = total_agents(w)
    /\ Advance(w, "ANALYZING", "CONSENSUS_REACHED", "decide")
    /\ UNCHANGED <<req, persisted, decisions, llm, result, marked, recent>>

\* The store refuses one of the four transitions above.
TransitionFails(w) ==
    /\ \/ pc[w] = "policy" /\ AdvanceRaises(w, "QUEUED", "CONTEXT_READY")
       \/ pc[w] = "context" /\ AdvanceRaises(w, "CONTEXT_READY", "ANALYZING")
       \/ /\ pc[w] = "agents"
          /\ Len(decisions[w]) = total_agents(w)
          /\ AdvanceRaises(w, "ANALYZING", "CONSENSUS_REACHED")
    /\ UNCHANGED <<req, current, persisted, decisions, llm, marked, recent>>

\* A collaborator raises: evaluate_request, build_context, an agent, the LLM
\* gate, the patch or verification service, or the auto-fix service.
CollaboratorRaises(w) ==
    /\ \/ pc[w] \in {"policy", "context", "l3"}
       \/ pc[w] = "agents" /\ Len(decisions[w]) < total_agents(w)
       \/ pc[w] = "patch" /\ Has(w, "patch")
       \/ pc[w] = "autofix" /\ llm[w].patch
    /\ \E code \in FailureCodes : Raise(w, code)
    /\ UNCHANGED <<store, req, current, persisted, decisions, llm, marked,
                   recent>>

-----------------------------------------------------------------------------
Statuses(ds) == {ds[i] : i \in 1..Len(ds)}

\* Fault: the last decision wins.
consensus_statuses_LastWins(w) ==
    IF decisions[w] # <<>> /\ decisions[w][Len(decisions[w])] = "reject"
    THEN {"reject"} ELSE {"pass"}

\* DefaultConsensusEngine rejects on any reject and passes everything else,
\* an empty list and the status "error" included.  An injected engine may
\* also ask for a patch.
consensus_statuses(w) ==
    (IF "reject" \in Statuses(decisions[w]) THEN {"reject"} ELSE {"pass"})
        \cup (IF Has(w, "patching_engine") THEN {"patch"} ELSE {})

Decide(w) ==
    /\ pc[w] = "decide"
    /\ \E c \in consensus_statuses(w) :
          /\ Returns(w, IF c = "pass"
                        THEN build_result("DELIVERED", "pass", "REVIEW_PASSED")
                        ELSE build_result("DELIVERED", "rejected", "REVIEW_REJECTED"))
          /\ GoTo(w, CASE c = "pass" /\ Has(w, "gate") -> "l3"
                       [] c = "patch" -> "patch"
                       [] OTHER -> "mark")
    /\ UNCHANGED <<store, req, current, persisted, decisions, llm, marked,
                   recent>>

\* Where the pipeline goes once the result code is known.
AfterVerdict(w, code) ==
    IF code = "PATCH_PROPOSED" /\ Has(w, "autofix") THEN "autofix" ELSE "mark"

\* The L3 gate answers; it is asked only after a consensus of "pass".
LlmReview(w) ==
    /\ pc[w] = "l3"
    /\ \E code \in L3Codes, patch \in BOOLEAN :
          /\ llm' = [llm EXCEPT ![w] = [code |-> code, patch |-> patch]]
          /\ Returns(w, build_result("DELIVERED",
                            IF code = "REVIEW_PASSED" THEN "pass" ELSE "rejected",
                            code))
          /\ GoTo(w, AfterVerdict(w, code))
    /\ UNCHANGED <<store, req, current, persisted, decisions, marked, recent>>

\* create_patch and verify_patch; without the two services, or without a
\* patch, the change is sent back.
PatchResults(w) ==
    {build_result("DELIVERED", "rejected", "PATCH_REQUIRED")} \cup
    (IF Has(w, "patch")
     THEN {build_result("DELIVERED", "patch", "PATCH_PROPOSED"),
           build_result("DELIVERED", "rejected", "PATCH_VERIFY_FAILED")}
     ELSE {})

ProposePatch(w) ==
    /\ pc[w] = "patch"
    /\ \E r \in PatchResults(w) :
          Returns(w, r) /\ GoTo(w, AfterVerdict(w, r.code))
    /\ UNCHANGED <<store, req, current, persisted, decisions, llm, marked,
                   recent>>

\* apply_patch answered [applied, verify_passed].  A fix that was applied but
\* failed verification is reported as rolled back; a fix that was rolled back
\* comes with applied = False and leaves PATCH_PROPOSED standing.
AutofixResult(r, applied, verify_failed) ==
    CASE applied /\ verify_failed ->
            build_result("DELIVERED", "rejected", "PATCH_ROLLBACK")
      [] applied /\ ~verify_failed ->
            build_result("DELIVERED", r.status, "PATCH_APPLIED")
      [] OTHER -> r

AutoFix(w) ==
    /\ pc[w] = "autofix"
    /\ ~(Has(w, "gate") /\ llm[w].code = "unbound")
    /\ \E applied, verify_failed \in BOOLEAN :
          /\ applied => llm[w].patch
          /\ Returns(w, AutofixResult(result[w], applied, verify_failed))
    /\ GoTo(w, "mark")
    /\ UNCHANGED <<store, req, current, persisted, decisions, llm, marked,
                   recent>>

\* llm_result is read although the gate never ran: UnboundLocalError.
AutoFixUnbound(w) ==
    /\ pc[w] = "autofix"
    /\ Has(w, "gate") /\ llm[w].code = "unbound"
    /\ Raise(w, "SYSTEM_FAILED")
    /\ UNCHANGED <<store, req, current, persisted, decisions, llm, marked,
                   recent>>

-----------------------------------------------------------------------------
\* The except block: it first tries the transition to the fallback state ...
RecordsFailure(w) ==
    /\ persisted[w]
    /\ current[w] \notin TerminalStates
    /\ current[w] # result[w].state

record_failure_transition(w) ==
    /\ pc[w] = "fail"
    /\ RecordsFailure(w)
    /\ transition_state(req[w].id, current[w], result[w].state)
    /\ current' = [current EXCEPT ![w] = result[w].state]
    /\ GoTo(w, "mark")
    /\ UNCHANGED <<req, persisted, decisions, llm, result, marked, recent>>

\* Fault: the final state is marked although no row was inserted.
FailureNotRecorded_Marks(w) ==
    /\ pc[w] = "fail"
    /\ StoreDown
    /\ GoTo(w, "mark")
    /\ UNCHANGED <<req, current, persisted, decisions, llm, result, marked, recent>>

\* Fault: the except block only serves requests that have a row.
FailureNotRecorded_RowOnly(w) ==
    /\ pc[w] = "fail"
    /\ persisted[w]
    /\ StoreDown
    /\ GoTo(w, "mark")
    /\ UNCHANGED <<req, current, persisted, decisions, llm, result, marked, recent>>

\* ... whose failure is swallowed, and which is skipped without a row.
FailureNotRecorded(w) ==
    /\ pc[w] = "fail"
    /\ RecordsFailure(w) =>
          \/ StoreMayFail
          \/ TransitionRaises(req[w].id, current[w], result[w].state)
    /\ StoreDown
    /\ current' = IF RecordsFailure(w)
                  THEN [current EXCEPT ![w] = result[w].state]
                  ELSE current
    /\ GoTo(w, IF persisted[w] THEN "mark" ELSE "publish")
    /\ UNCHANGED <<req, persisted, decisions, llm, result, marked, recent>>

\* Fault: current_state is marked instead of the state of the result.
MarkTerminal_Current(w) ==
    /\ pc[w] = "mark"
    /\ mark_terminal(req[w].id, current[w])
    /\ marked' = [marked EXCEPT ![w] = TRUE]
    /\ GoTo(w, "publish")
    /\ UNCHANGED <<req, current, persisted, decisions, llm, result, recent>>

\* _mark_terminal_safe commits the state of the result ...
MarkTerminal(w) ==
    /\ pc[w] = "mark"
    /\ mark_terminal(req[w].id, result[w].state)
    /\ marked' = [marked EXCEPT ![w] = TRUE]
    /\ GoTo(w, "publish")
    /\ UNCHANGED <<req, current, persisted, decisions, llm, result, recent>>

\* ... or swallows the exception: the caller still gets the result.
MarkTerminalFails(w) ==
    /\ pc[w] = "mark"
    /\ StoreMayFail \/ state[req[w].id] = Absent
    /\ StoreDown
    /\ GoTo(w, "publish")
    /\ UNCHANGED <<req, current, persisted, decisions, llm, result, marked,
                   recent>>

\* The publisher's channels and the return to the caller.
Publish(w) ==
    /\ pc[w] = "publish"
    /\ GoTo(w, "returned")
    /\ UNCHANGED <<store, req, current, persisted, decisions, llm, result,
                   marked, recent>>

Running(w) == pc[w] \notin {"idle", "returned", "crashed"}

\* A process dies with all its runs; its debounce table dies with it.
Crash(p) ==
    /\ MayCrash
    /\ \E w \in Runs : ProcOf[w] = p /\ Running(w)
    /\ pc' = [w \in Runs |->
                IF ProcOf[w] = p /\ Running(w) THEN "crashed" ELSE pc[w]]
    /\ recent' = [recent EXCEPT ![p] = {}]
    /\ UNCHANGED <<store, req, current, persisted, decisions, llm, result,
                   marked>>

Step(w) ==
    \/ CreateRequest(w) \/ handle_duplicate_request(w) \/ CreateRaises(w)
    \/ allow_new_job(w) \/ ResourceReject(w)
    \/ PolicyReject(w) \/ PolicyAccept(w) \/ BuildContext(w)
    \/ RunAgent(w) \/ CollectDecisions(w)
    \/ TransitionFails(w) \/ CollaboratorRaises(w)
    \/ Decide(w) \/ LlmReview(w) \/ ProposePatch(w)
    \/ AutoFix(w) \/ AutoFixUnbound(w)
    \/ record_failure_transition(w) \/ FailureNotRecorded(w)
    \/ MarkTerminal(w) \/ MarkTerminalFails(w) \/ Publish(w)

Next ==
    \/ \E w \in Runs : Submit(w) \/ Step(w)
    \/ \E p \in Procs : Crash(p) \/ \E f \in Files : WindowExpires(p, f)

Spec == Init /\ [][Next]_vars

\* A thread that can run does run: every call run_once makes is bounded by a
\* timeout or by its input.  Nothing obliges a caller to submit, or a process
\* to die.
FairSpec == Spec /\ \A w \in Runs : WF_vars(Step(w))
=============================================================================
