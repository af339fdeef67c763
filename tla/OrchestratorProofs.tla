------------------------- MODULE OrchestratorProofs -------------------------
(***************************************************************************)
(* Proofs about the orchestrator for every number of runs, processes,      *)
(* requests, ids and keys.                                                 *)
(***************************************************************************)
EXTENDS OrchestratorProps, TLAPS

-----------------------------------------------------------------------------
(* The transactions of the store preserve its types.                       *)

\* A request's fields, read off the assumptions on the requests.
LEMMA RequestFields ==
    ASSUME NEW r \in Requests
    PROVE  r.id \in Ids /\ r.key \in Keys /\ r.intent \in Intents /\ r.file \in Files
BY RequestsAssumption

\* An event with a known state extends a trail of events.
LEMMA AppendEventType ==
    ASSUME events \in [Ids -> Seq(Event)], NEW id \in Ids,
           NEW type \in EventTypes, NEW s \in ReviewState,
           append_event(id, type, s)
    PROVE  events' \in [Ids -> Seq(Event)]
<1>1. [type |-> type, state |-> s] \in Event
  BY DEF Event
<1>2. Append(events[id], [type |-> type, state |-> s]) \in Seq(Event)
  BY <1>1
<1> QED
  BY <1>2 DEF append_event

\* create_request keeps the types of the store.
LEMMA CreateInsertsType ==
    ASSUME StoreTypeOK, NEW r \in Requests, CreateInserts(r)
    PROVE  StoreTypeOK'
<1>1. events' \in [Ids -> Seq(Event)]
  BY RequestFields, AppendEventType
     DEF StoreTypeOK, CreateInserts, EventTypes, ReviewState
<1> QED
  BY <1>1, RequestFields DEF StoreTypeOK, CreateInserts, ReviewState

\* A duplicate is recorded under a key, and a row with a key has a state.
LEMMA CreateFindsDuplicateType ==
    ASSUME StoreTypeOK, KeyUnique, NEW r \in Requests, CreateFindsDuplicate(r)
    PROVE  StoreTypeOK'
<1>1. ASSUME NEW i \in Ids, keyOf[i] = r.key
      PROVE  Append(events[i], [type |-> "duplicate_ignored", state |-> state[i]])
                \in Seq(Event)
  <2>1. state[i] \in ReviewState
    BY <1>1, RequestFields, NoKeyAssumption DEF StoreTypeOK, KeyUnique
  <2>2. [type |-> "duplicate_ignored", state |-> state[i]] \in Event
    BY <2>1 DEF Event, EventTypes
  <2> QED
    BY <2>2 DEF StoreTypeOK
<1> QED
  BY <1>1 DEF StoreTypeOK, CreateFindsDuplicate

\* transition_state keeps the types of the store.
LEMMA TransitionType ==
    ASSUME StoreTypeOK, NEW id \in Ids, NEW from, NEW to \in ReviewState,
           transition_state(id, from, to)
    PROVE  StoreTypeOK'
<1>1. events' \in [Ids -> Seq(Event)]
  BY AppendEventType DEF StoreTypeOK, transition_state, EventTypes
<1> QED
  BY <1>1 DEF StoreTypeOK, transition_state

\* mark_terminal keeps the types of the store.
LEMMA MarkTerminalType ==
    ASSUME StoreTypeOK, NEW id \in Ids, NEW final \in ReviewState,
           mark_terminal(id, final)
    PROVE  StoreTypeOK'
<1>1. events' \in [Ids -> Seq(Event)]
  BY AppendEventType DEF StoreTypeOK, mark_terminal, EventTypes
<1> QED
  BY <1>1 DEF StoreTypeOK, mark_terminal

-----------------------------------------------------------------------------
(* Steps that touch one run, or one run and its row, leave the rest of the  *)
(* invariant alone.                                                         *)

\* What the invariant says of a run depends on that run and, if it owns one,
\* on its row.
LEMMA RunInvFrame ==
    ASSUME NEW v \in Runs, RunInv(v),
           pc'[v] = pc[v], req'[v] = req[v], current'[v] = current[v],
           persisted'[v] = persisted[v], result'[v] = result[v],
           marked'[v] = marked[v],
           persisted[v] => /\ state'[req[v].id] = state[req[v].id]
                           /\ keyOf'[req[v].id] = keyOf[req[v].id]
    PROVE  RunInv(v)'
BY DEF RunInv, ControlInv, ProgressInv, RowInv

\* A step of one run that leaves the table alone preserves the invariant if it
\* preserves the types and what the invariant says of that run.
LEMMA LocalStep ==
    ASSUME IInv, TypeOK', NEW w \in Runs, RunInv(w)',
           state' = state, keyOf' = keyOf, req' = req, persisted' = persisted,
           marked' = marked,
           \A v \in Runs \ {w} : /\ pc'[v] = pc[v]
                                 /\ current'[v] = current[v]
                                 /\ result'[v] = result[v]
    PROVE  IInv'
<1> USE DEF IInv
<1>1. KeyUnique'
  BY DEF KeyUnique
<1>2. OneRunPerChange'
  BY DEF OneRunPerChange
<1>3. ASSUME NEW i \in Ids PROVE HasOwner(i)'
  BY DEF HasOwner
<1>4. ASSUME NEW v \in Runs PROVE RunInv(v)'
  <2>1. CASE v = w
    BY <2>1
  <2>2. CASE v # w
    BY <2>2, RunInvFrame
  <2> QED
    BY <2>1, <2>2
<1> QED
  BY <1>1, <1>2, <1>3, <1>4

\* The same for a step of a run that owns a row and changes its state column.
LEMMA RowStep ==
    ASSUME IInv, TypeOK', NEW w \in Runs, persisted[w], RunInv(w)',
           NEW s \in ReviewState,
           state' = [state EXCEPT ![req[w].id] = s],
           keyOf' = keyOf, req' = req, persisted' = persisted,
           \A v \in Runs \ {w} : /\ pc'[v] = pc[v]
                                 /\ current'[v] = current[v]
                                 /\ result'[v] = result[v]
                                 /\ marked'[v] = marked[v]
    PROVE  IInv'
<1> USE DEF IInv
<1>0. /\ req[w].id \in Ids /\ s # Absent
      /\ state[req[w].id] # Absent
      /\ state \in [Ids -> ReviewState \cup {Absent}]
  BY RequestFields DEF TypeOK, StoreTypeOK, RunInv, RowInv, ReviewState, Absent
<1>1. KeyUnique'
  BY <1>0 DEF KeyUnique
<1>2. OneRunPerChange'
  BY DEF OneRunPerChange
<1>3. ASSUME NEW i \in Ids PROVE HasOwner(i)'
  BY <1>0, <1>3 DEF HasOwner
<1>4. ASSUME NEW v \in Runs PROVE RunInv(v)'
  <2>1. CASE v = w
    BY <2>1
  <2>2. CASE v # w
    <3>1. persisted[v] => req[v].id # req[w].id
      BY <2>2 DEF OneRunPerChange
    <3>2. req[v].id \in Ids
      BY RequestFields DEF TypeOK
    <3> QED
      BY <2>2, <3>1, <3>2, <1>0, RunInvFrame
  <2> QED
    BY <2>1, <2>2
<1> QED
  BY <1>1, <1>2, <1>3, <1>4
-----------------------------------------------------------------------------
(* Building blocks of the actions.                                         *)

\* run_once moves to its next statement: the types of its variables.
LEMMA GoToType ==
    ASSUME TypeOK, NEW w \in Runs, NEW label \in PcValues, GoTo(w, label)
    PROVE  /\ pc' \in [Runs -> PcValues]
           /\ pc'[w] = label
           /\ \A v \in Runs \ {w} : pc'[v] = pc[v]
BY DEF TypeOK, GoTo

\* run_once returns: the types of its variables.
LEMMA ReturnsType ==
    ASSUME TypeOK, NEW w \in Runs, NEW r \in Result, Returns(w, r)
    PROVE  /\ result' \in [Runs -> Result]
           /\ result'[w] = r
           /\ \A v \in Runs \ {w} : result'[v] = result[v]
BY DEF TypeOK, Returns

\* _build_result builds a ReviewResult with the fields it was given.
LEMMA BuildResultType ==
    ASSUME NEW s \in ReviewState, NEW st \in ResultStatus, NEW c \in ResultCodes
    PROVE  /\ build_result(s, st, c) \in Result
           /\ build_result(s, st, c).state = s
           /\ build_result(s, st, c).status = st
           /\ build_result(s, st, c).code = c
BY DEF build_result, Result, Said

\* _classify_failure answers FAILED or DEGRADED, and never a passing result.
LEMMA ClassifyFailure ==
    ASSUME NEW code \in FailureCodes
    PROVE  /\ classify_failure(code) \in Result
           /\ classify_failure(code).state \in {"FAILED", "DEGRADED"}
           /\ classify_failure(code).status \in {"failed", "degraded"}
           /\ classify_failure(code).code # "REVIEW_PASSED"
<1>1. /\ FailureState(code) \in ReviewState
      /\ FailureStatus(code) \in ResultStatus
      /\ code \in ResultCodes
  BY DEF FailureState, FailureStatus, ReviewState, ResultStatus, ResultCodes,
         FailureCodes
<1>2. /\ FailureState(code) \in {"FAILED", "DEGRADED"}
      /\ FailureStatus(code) \in {"failed", "degraded"}
      /\ code # "REVIEW_PASSED"
  BY DEF FailureState, FailureStatus, FailureCodes
<1> QED
  BY <1>1, <1>2, BuildResultType DEF classify_failure

\* An exception takes the run to the except block with a failure result.
LEMMA RaiseType ==
    ASSUME TypeOK, NEW w \in Runs, NEW code \in FailureCodes, Raise(w, code)
    PROVE  /\ pc' \in [Runs -> PcValues] /\ result' \in [Runs -> Result]
           /\ pc'[w] = "fail" /\ result'[w] = classify_failure(code)
           /\ result'[w].state \in {"FAILED", "DEGRADED"}
           /\ \A v \in Runs \ {w} : pc'[v] = pc[v] /\ result'[v] = result[v]
<1>1. GoTo(w, "fail") /\ Returns(w, classify_failure(code))
  BY DEF Raise
<1>2. "fail" \in PcValues
  BY DEF PcValues
<1> QED
  BY <1>1, <1>2, GoToType, ReturnsType, ClassifyFailure

\* A committed transition of the run's own row.
LEMMA AdvanceType ==
    ASSUME TypeOK, NEW w \in Runs, NEW from, NEW to \in ReviewState,
           NEW label \in PcValues, Advance(w, from, to, label)
    PROVE  /\ StoreTypeOK'
           /\ state[req[w].id] = from
           /\ can_transition(from, to)
           /\ state' = [state EXCEPT ![req[w].id] = to]
           /\ state'[req[w].id] = to
           /\ keyOf' = keyOf
           /\ current' \in [Runs -> ReviewState]
           /\ current'[w] = to
           /\ \A v \in Runs \ {w} : current'[v] = current[v]
           /\ pc' \in [Runs -> PcValues]
           /\ pc'[w] = label
           /\ \A v \in Runs \ {w} : pc'[v] = pc[v]
<1>1. req[w].id \in Ids
  BY RequestFields DEF TypeOK
<1>2. StoreTypeOK'
  BY <1>1, TransitionType DEF TypeOK, Advance
<1>3. /\ state[req[w].id] = from /\ can_transition(from, to)
      /\ state' = [state EXCEPT ![req[w].id] = to]
      /\ keyOf' = keyOf
  BY DEF Advance, transition_state, TransitionRaises
<1>4. state'[req[w].id] = to
  BY <1>1, <1>3 DEF TypeOK, StoreTypeOK
<1>5. GoTo(w, label) /\ current' = [current EXCEPT ![w] = to]
  BY DEF Advance
<1> QED
  BY <1>2, <1>3, <1>4, <1>5, GoToType DEF TypeOK

-----------------------------------------------------------------------------
(* One lemma per action: it preserves the invariant.                       *)

\* Submit.
LEMMA SubmitInv ==
    ASSUME IInv, NEW w \in Runs, Submit(w)
    PROVE  IInv'
<1>1. /\ pc[w] = "idle" /\ GoTo(w, "create") /\ "create" \in PcValues
      /\ UNCHANGED <<state, keyOf, events, req, current, persisted, decisions, llm,
                     result, marked, recent>>
  BY DEF Submit, store, PcValues
<1>2. /\ TypeOK' /\ pc'[w] = "create"
      /\ \A v \in Runs \ {w} : pc'[v] = pc[v]
  BY <1>1, GoToType DEF IInv, TypeOK, StoreTypeOK
<1>3. RunInv(w)'
  BY <1>1, <1>2
     DEF IInv, RunInv, ControlInv, ProgressInv, RowInv, Pipeline, StateAt
<1> QED
  BY <1>1, <1>2, <1>3, LocalStep

\* CreateRaises: the run ends in the except block without a row.
LEMMA CreateRaisesInv ==
    ASSUME IInv, NEW w \in Runs, CreateRaises(w)
    PROVE  IInv'
<1>1. /\ pc[w] = "create" /\ Raise(w, "SYSTEM_FAILED")
      /\ UNCHANGED <<state, keyOf, events, req, current, persisted, decisions, llm,
                     marked, recent>>
  BY DEF CreateRaises, StoreRaises, StoreDown, store
<1>2. "SYSTEM_FAILED" \in FailureCodes
  BY DEF FailureCodes
<1>3. /\ TypeOK' /\ pc'[w] = "fail"
      /\ result'[w].state \in {"FAILED", "DEGRADED"}
      /\ \A v \in Runs \ {w} : pc'[v] = pc[v] /\ result'[v] = result[v]
  BY <1>1, <1>2, RaiseType DEF IInv, TypeOK, StoreTypeOK
<1>4. RunInv(w)'
  BY <1>1, <1>3
     DEF IInv, RunInv, ControlInv, ProgressInv, RowInv, Pipeline, StateAt,
         WorkingStates
<1> QED
  BY <1>1, <1>3, <1>4, LocalStep

\* allow_new_job.
LEMMA AllowNewJobInv ==
    ASSUME IInv, NEW w \in Runs, allow_new_job(w)
    PROVE  IInv'
<1>1. /\ pc[w] = "admit" /\ GoTo(w, "policy") /\ "policy" \in PcValues
      /\ UNCHANGED <<state, keyOf, events, req, current, persisted, decisions, llm,
                     result, marked>>
  BY DEF allow_new_job, store, PcValues
<1>2. recent' \in [Procs -> SUBSET Files]
  <2>1. req[w].file \in Files
    BY RequestFields DEF IInv, TypeOK
  <2> QED
    BY <2>1 DEF allow_new_job, IInv, TypeOK
<1>3. /\ TypeOK' /\ pc'[w] = "policy"
      /\ \A v \in Runs \ {w} : pc'[v] = pc[v]
  BY <1>1, <1>2, GoToType DEF IInv, TypeOK, StoreTypeOK
<1>4. RunInv(w)'
  BY <1>1, <1>3
     DEF IInv, RunInv, ControlInv, ProgressInv, RowInv, Pipeline, StateAt
<1> QED
  BY <1>1, <1>3, <1>4, LocalStep

\* A debounced save is answered with DEGRADED, which mark_terminal will write.
LEMMA ResourceRejectInv ==
    ASSUME IInv, NEW w \in Runs, ResourceReject(w)
    PROVE  IInv'
<1> DEFINE r == build_result("DEGRADED", "degraded", "RESOURCE_REJECTED")
<1>1. /\ pc[w] = "admit" /\ GoTo(w, "mark") /\ Returns(w, r)
      /\ UNCHANGED <<state, keyOf, events, req, current, persisted, decisions, llm,
                     marked, recent>>
  BY DEF ResourceReject, store
<1>2. r \in Result /\ r.state = "DEGRADED" /\ "mark" \in PcValues
  BY BuildResultType DEF ReviewState, ResultStatus, ResultCodes, PcValues
<1> HIDE DEF r
<1>3. /\ TypeOK' /\ pc'[w] = "mark" /\ result'[w].state = "DEGRADED"
      /\ \A v \in Runs \ {w} : pc'[v] = pc[v] /\ result'[v] = result[v]
  BY <1>1, <1>2, GoToType, ReturnsType DEF IInv, TypeOK, StoreTypeOK
<1>4. RunInv(w)'
  BY <1>1, <1>3
     DEF IInv, RunInv, ControlInv, ProgressInv, RowInv, Pipeline, StateAt,
         LegalChange, WorkingStates, TerminalStates
<1> QED
  BY <1>1, <1>3, <1>4, LocalStep

\* An exception inside the pipeline keeps the row and current_state together.
LEMMA PipelineRaises ==
    ASSUME IInv, NEW w \in Runs, pc[w] \in Pipeline,
           NEW code \in FailureCodes, Raise(w, code),
           UNCHANGED <<state, keyOf, events, req, current, persisted, decisions,
                       llm, marked, recent>>
    PROVE  IInv'
<1>1. /\ TypeOK' /\ pc'[w] = "fail"
      /\ result'[w].state \in {"FAILED", "DEGRADED"}
      /\ \A v \in Runs \ {w} : pc'[v] = pc[v] /\ result'[v] = result[v]
  BY RaiseType DEF IInv, TypeOK, StoreTypeOK
<1>2. current[w] \in WorkingStates /\ persisted[w]
  BY DEF IInv, RunInv, ControlInv, ProgressInv, Pipeline, StateAt, WorkingStates
<1>3. RunInv(w)'
  BY <1>1, <1>2 DEF IInv, RunInv, ControlInv, ProgressInv, RowInv, Pipeline
<1> QED
  BY <1>1, <1>3, LocalStep

\* A collaborator raises and run_once enters its except block.
LEMMA CollaboratorRaisesInv ==
    ASSUME IInv, NEW w \in Runs, CollaboratorRaises(w)
    PROVE  IInv'
<1>1. PICK code \in FailureCodes : Raise(w, code)
  BY DEF CollaboratorRaises
<1>2. /\ pc[w] \in Pipeline
      /\ UNCHANGED <<state, keyOf, events, req, current, persisted, decisions,
                     llm, marked, recent>>
  BY DEF CollaboratorRaises, store, Pipeline
<1> QED
  BY <1>1, <1>2, PipelineRaises

\* _transition_state raises and run_once enters its except block.
LEMMA TransitionFailsInv ==
    ASSUME IInv, NEW w \in Runs, TransitionFails(w)
    PROVE  IInv'
<1>1. /\ pc[w] \in Pipeline /\ Raise(w, "SYSTEM_FAILED")
      /\ UNCHANGED <<state, keyOf, events, req, current, persisted, decisions,
                     llm, marked, recent>>
  BY DEF TransitionFails, AdvanceRaises, StoreDown, store, Pipeline
<1>2. "SYSTEM_FAILED" \in FailureCodes
  BY DEF FailureCodes
<1> QED
  BY <1>1, <1>2, PipelineRaises

\* The auto-fix step reads llm_result before it is assigned and raises.
LEMMA AutoFixUnboundInv ==
    ASSUME IInv, NEW w \in Runs, AutoFixUnbound(w)
    PROVE  IInv'
<1>1. /\ pc[w] \in Pipeline /\ Raise(w, "SYSTEM_FAILED")
      /\ UNCHANGED <<state, keyOf, events, req, current, persisted, decisions,
                     llm, marked, recent>>
  BY DEF AutoFixUnbound, store, Pipeline
<1>2. "SYSTEM_FAILED" \in FailureCodes
  BY DEF FailureCodes
<1> QED
  BY <1>1, <1>2, PipelineRaises

\* An agent's answer touches nothing but the list of decisions.
LEMMA RunAgentInv ==
    ASSUME IInv, NEW w \in Runs, RunAgent(w)
    PROVE  IInv'
<1>1. UNCHANGED <<state, keyOf, events, pc, req, current, persisted, llm, result,
                  marked, recent>>
  BY DEF RunAgent, store
<1>2. PICK s \in AgentStatus : decisions' = [decisions EXCEPT ![w] = Append(@, s)]
  BY DEF RunAgent
<1>3. decisions' \in [Runs -> Seq(AgentStatus)]
  <2>1. Append(decisions[w], s) \in Seq(AgentStatus)
    BY DEF IInv, TypeOK
  <2> QED
    BY <1>2, <2>1 DEF IInv, TypeOK
<1>4. TypeOK'
  BY <1>1, <1>3 DEF IInv, TypeOK, StoreTypeOK
<1>5. RunInv(w)'
  BY <1>1, RunInvFrame DEF IInv
<1> QED
  BY <1>1, <1>4, <1>5, LocalStep

-----------------------------------------------------------------------------
(* The verdict: every step after the consensus carries a DELIVERED result.  *)

\* A step from the consensus on, to another of these steps or to the final
\* write, with a DELIVERED result.
LEMMA VerdictStep ==
    ASSUME IInv, NEW w \in Runs, pc[w] \in {"decide", "l3", "patch", "autofix"},
           NEW label \in {"l3", "patch", "autofix", "mark"}, GoTo(w, label),
           NEW r \in Result, r.state = "DELIVERED", Returns(w, r),
           llm' \in [Runs -> LlmResult],
           UNCHANGED <<state, keyOf, events, req, current, persisted, decisions,
                       marked, recent>>
    PROVE  IInv'
<1>1. label \in PcValues
  BY DEF PcValues
<1>2. /\ TypeOK' /\ pc'[w] = label /\ result'[w].state = "DELIVERED"
      /\ \A v \in Runs \ {w} : pc'[v] = pc[v] /\ result'[v] = result[v]
  BY <1>1, GoToType, ReturnsType DEF IInv, TypeOK, StoreTypeOK
<1>3. /\ persisted[w] /\ ~marked[w]
      /\ current[w] = "CONSENSUS_REACHED" /\ state[req[w].id] = "CONSENSUS_REACHED"
  BY DEF IInv, RunInv, ControlInv, ProgressInv, RowInv, Pipeline, StateAt
<1>4. LegalChange("CONSENSUS_REACHED", "DELIVERED")
  BY DEF LegalChange, can_transition, ALLOWED_TRANSITIONS
<1>5. RunInv(w)'
  BY <1>2, <1>3, <1>4
     DEF IInv, RunInv, ControlInv, ProgressInv, RowInv, Pipeline, StateAt,
         WorkingStates, TerminalStates
<1> QED
  BY <1>2, <1>5, LocalStep

\* The results of the pipeline after the consensus.
LEMMA DeliveredType ==
    ASSUME NEW st \in ResultStatus, NEW c \in ResultCodes
    PROVE  /\ build_result("DELIVERED", st, c) \in Result
           /\ build_result("DELIVERED", st, c).state = "DELIVERED"
           /\ build_result("DELIVERED", st, c).status = st
           /\ build_result("DELIVERED", st, c).code = c
BY BuildResultType DEF ReviewState

\* The consensus engine decides.
LEMMA DecideInv ==
    ASSUME IInv, NEW w \in Runs, Decide(w)
    PROVE  IInv'
<1> DEFINE r(c) == IF c = "pass"
                   THEN build_result("DELIVERED", "pass", "REVIEW_PASSED")
                   ELSE build_result("DELIVERED", "rejected", "REVIEW_REJECTED")
           l(c) == CASE c = "pass" /\ Has(w, "gate") -> "l3"
                     [] c = "patch" -> "patch"
                     [] OTHER -> "mark"
<1>1. /\ pc[w] = "decide"
      /\ UNCHANGED <<state, keyOf, events, req, current, persisted, decisions, llm,
                     marked, recent>>
  BY DEF Decide, store
<1>2. PICK c \in consensus_statuses(w) : Returns(w, r(c)) /\ GoTo(w, l(c))
  BY DEF Decide
<1>3. r(c) \in Result /\ r(c).state = "DELIVERED"
  BY DeliveredType DEF ResultStatus, ResultCodes, L3Codes
<1>4. l(c) \in {"l3", "patch", "autofix", "mark"}
  OBVIOUS
<1>5. llm' \in [Runs -> LlmResult]
  BY <1>1 DEF IInv, TypeOK
<1> HIDE DEF r, l
<1> QED
  BY <1>1, <1>2, <1>3, <1>4, <1>5, VerdictStep

\* The L3 gate upholds or overrules the decision.
LEMMA LlmReviewInv ==
    ASSUME IInv, NEW w \in Runs, LlmReview(w)
    PROVE  IInv'
<1> DEFINE r(c) == build_result("DELIVERED",
                        IF c = "REVIEW_PASSED" THEN "pass" ELSE "rejected", c)
<1>1. /\ pc[w] = "l3"
      /\ UNCHANGED <<state, keyOf, events, req, current, persisted, decisions,
                     marked, recent>>
  BY DEF LlmReview, store
<1>2. PICK c \in L3Codes, patch \in BOOLEAN :
          /\ llm' = [llm EXCEPT ![w] = [code |-> c, patch |-> patch]]
          /\ Returns(w, r(c))
          /\ GoTo(w, AfterVerdict(w, c))
  BY DEF LlmReview
<1>3. r(c) \in Result /\ r(c).state = "DELIVERED"
  <2>1. /\ (IF c = "REVIEW_PASSED" THEN "pass" ELSE "rejected") \in ResultStatus
        /\ c \in ResultCodes
    BY DEF ResultStatus, ResultCodes
  <2> QED
    BY <2>1, DeliveredType
<1>4. AfterVerdict(w, c) \in {"l3", "patch", "autofix", "mark"}
  BY DEF AfterVerdict
<1>5. llm' \in [Runs -> LlmResult]
  <2>1. [code |-> c, patch |-> patch] \in LlmResult
    BY DEF LlmResult
  <2> QED
    BY <1>2, <2>1 DEF IInv, TypeOK
<1> HIDE DEF r
<1> QED
  BY <1>1, <1>2, <1>3, <1>4, <1>5, VerdictStep

\* The patch service proposes and verifies a patch, or not.
LEMMA ProposePatchInv ==
    ASSUME IInv, NEW w \in Runs, ProposePatch(w)
    PROVE  IInv'
<1>1. /\ pc[w] = "patch"
      /\ UNCHANGED <<state, keyOf, events, req, current, persisted, decisions, llm,
                     marked, recent>>
  BY DEF ProposePatch, store
<1>2. PICK r \in PatchResults(w) : Returns(w, r) /\ GoTo(w, AfterVerdict(w, r.code))
  BY DEF ProposePatch
<1>3. r \in Result /\ r.state = "DELIVERED"
  BY DeliveredType DEF PatchResults, ResultStatus, ResultCodes, L3Codes
<1>4. AfterVerdict(w, r.code) \in {"l3", "patch", "autofix", "mark"}
  BY DEF AfterVerdict
<1>5. llm' \in [Runs -> LlmResult]
  BY <1>1 DEF IInv, TypeOK
<1> QED
  BY <1>1, <1>2, <1>3, <1>4, <1>5, VerdictStep

\* The auto-fix step changes only what is published.
LEMMA AutoFixInv ==
    ASSUME IInv, NEW w \in Runs, AutoFix(w)
    PROVE  IInv'
<1>1. /\ pc[w] = "autofix" /\ GoTo(w, "mark")
      /\ UNCHANGED <<state, keyOf, events, req, current, persisted, decisions, llm,
                     marked, recent>>
  BY DEF AutoFix, store
<1>2. PICK applied, verify_failed \in BOOLEAN :
          Returns(w, AutofixResult(result[w], applied, verify_failed))
  BY DEF AutoFix
<1>3. /\ result[w] \in Result /\ result[w].state = "DELIVERED"
      /\ result[w].status \in ResultStatus
  BY <1>1 DEF IInv, TypeOK, RunInv, ProgressInv, Result
<1>4. /\ AutofixResult(result[w], applied, verify_failed) \in Result
      /\ AutofixResult(result[w], applied, verify_failed).state = "DELIVERED"
  <2>1. /\ "rejected" \in ResultStatus
        /\ {"PATCH_ROLLBACK", "PATCH_APPLIED"} \subseteq ResultCodes
    BY DEF ResultStatus, ResultCodes
  <2> QED
    BY <1>3, <2>1, DeliveredType DEF AutofixResult
<1>5. llm' \in [Runs -> LlmResult]
  BY <1>1 DEF IInv, TypeOK
<1> QED
  BY <1>1, <1>2, <1>4, <1>5, VerdictStep

-----------------------------------------------------------------------------
(* The transactions.                                                       *)

\* A committed transition that takes the run to the next step of the pipeline.
LEMMA AdvanceInPipeline ==
    ASSUME IInv, NEW w \in Runs, persisted[w], ~marked[w],
           NEW from, NEW to \in WorkingStates,
           NEW label \in Pipeline \ {"l3", "patch", "autofix"},
           to = StateAt(label), Advance(w, from, to, label),
           UNCHANGED <<req, persisted, decisions, llm, result, marked, recent>>
    PROVE  IInv'
<1>1. to \in ReviewState /\ label \in PcValues /\ to \notin TerminalStates /\ to # Absent
  BY DEF WorkingStates, ReviewState, Pipeline, PcValues, TerminalStates, Absent
<1>2. /\ StoreTypeOK'
      /\ state' = [state EXCEPT ![req[w].id] = to]
      /\ state'[req[w].id] = to
      /\ keyOf' = keyOf
      /\ current' \in [Runs -> ReviewState]
      /\ current'[w] = to
      /\ \A v \in Runs \ {w} : current'[v] = current[v]
      /\ pc' \in [Runs -> PcValues]
      /\ pc'[w] = label
      /\ \A v \in Runs \ {w} : pc'[v] = pc[v]
  BY <1>1, AdvanceType DEF IInv
<1>3. TypeOK'
  BY <1>2 DEF IInv, TypeOK
<1>4. RunInv(w)'
  BY <1>1, <1>2 DEF IInv, RunInv, ControlInv, ProgressInv, RowInv, Pipeline
<1> QED
  BY <1>1, <1>2, <1>3, <1>4, RowStep

\* Inside the pipeline a run owns its row and has not written its final state.
LEMMA PipelineFacts ==
    ASSUME IInv, NEW w \in Runs, pc[w] \in Pipeline
    PROVE  persisted[w] /\ ~marked[w]
BY DEF IInv, RunInv, ControlInv, Pipeline

\* An accepted request moves to POLICY_ACCEPTED.
LEMMA PolicyAcceptInv ==
    ASSUME IInv, NEW w \in Runs, PolicyAccept(w)
    PROVE  IInv'
<1>1. /\ pc[w] \in Pipeline /\ "CONTEXT_READY" \in WorkingStates
      /\ "context" \in Pipeline \ {"l3", "patch", "autofix"}
      /\ StateAt("context") = "CONTEXT_READY"
  BY DEF PolicyAccept, Pipeline, WorkingStates, StateAt
<1> QED
  BY <1>1, PipelineFacts, AdvanceInPipeline DEF PolicyAccept

\* The context is built and the run moves to ANALYZING.
LEMMA BuildContextInv ==
    ASSUME IInv, NEW w \in Runs, BuildContext(w)
    PROVE  IInv'
<1>1. /\ pc[w] \in Pipeline /\ "ANALYZING" \in WorkingStates
      /\ "agents" \in Pipeline \ {"l3", "patch", "autofix"}
      /\ StateAt("agents") = "ANALYZING"
  BY DEF BuildContext, Pipeline, WorkingStates, StateAt
<1> QED
  BY <1>1, PipelineFacts, AdvanceInPipeline DEF BuildContext

\* The decisions are collected and the run moves to CONSENSUS_REACHED.
LEMMA CollectDecisionsInv ==
    ASSUME IInv, NEW w \in Runs, CollectDecisions(w)
    PROVE  IInv'
<1>1. /\ pc[w] \in Pipeline /\ "CONSENSUS_REACHED" \in WorkingStates
      /\ "decide" \in Pipeline \ {"l3", "patch", "autofix"}
      /\ StateAt("decide") = "CONSENSUS_REACHED"
  BY DEF CollectDecisions, Pipeline, WorkingStates, StateAt
<1> QED
  BY <1>1, PipelineFacts, AdvanceInPipeline DEF CollectDecisions

\* A rejected request ends DEGRADED, past the state machine.
LEMMA PolicyRejectInv ==
    ASSUME IInv, NEW w \in Runs, PolicyReject(w)
    PROVE  IInv'
<1> DEFINE r == build_result("PRECHECK_FAILED", "rejected", "POLICY_REJECTED")
<1>1. /\ pc[w] = "policy" /\ Returns(w, r)
      /\ Advance(w, "QUEUED", "PRECHECK_FAILED", "mark")
      /\ UNCHANGED <<req, persisted, decisions, llm, marked, recent>>
  BY DEF PolicyReject
<1>2. /\ r \in Result /\ r.state = "PRECHECK_FAILED"
      /\ "mark" \in PcValues /\ "PRECHECK_FAILED" \in ReviewState
  BY BuildResultType DEF ReviewState, ResultStatus, ResultCodes, PcValues
<1> HIDE DEF r
<1>3. /\ StoreTypeOK'
      /\ state' = [state EXCEPT ![req[w].id] = "PRECHECK_FAILED"]
      /\ state'[req[w].id] = "PRECHECK_FAILED"
      /\ keyOf' = keyOf
      /\ current' \in [Runs -> ReviewState]
      /\ \A v \in Runs \ {w} : current'[v] = current[v]
      /\ pc' \in [Runs -> PcValues]
      /\ pc'[w] = "mark"
      /\ \A v \in Runs \ {w} : pc'[v] = pc[v]
  BY <1>1, <1>2, AdvanceType DEF IInv
<1>4. /\ result' \in [Runs -> Result] /\ result'[w].state = "PRECHECK_FAILED"
      /\ \A v \in Runs \ {w} : result'[v] = result[v]
  BY <1>1, <1>2, ReturnsType DEF IInv
<1>5. TypeOK'
  BY <1>1, <1>3, <1>4 DEF IInv, TypeOK
<1>6. persisted[w] /\ ~marked[w]
  BY <1>1, PipelineFacts DEF Pipeline
<1>7. RunInv(w)'
  BY <1>1, <1>3, <1>4, <1>6
     DEF IInv, RunInv, ControlInv, ProgressInv, RowInv, Pipeline,
         TerminalStates, Absent
<1> QED
  BY <1>1, <1>2, <1>3, <1>4, <1>5, <1>6, <1>7, RowStep

\* create_request inserts a row only for a new id and a new key, so the run
\* becomes the only owner of both.
LEMMA CreateRequestInv ==
    ASSUME IInv, NEW w \in Runs, CreateRequest(w)
    PROVE  IInv'
<1> DEFINE id == req[w].id
           key == req[w].key
<1>1. /\ pc[w] = "create" /\ CreateInserts(req[w])
      /\ persisted' = [persisted EXCEPT ![w] = TRUE]
      /\ GoTo(w, "admit") /\ "admit" \in PcValues
      /\ UNCHANGED <<req, current, decisions, llm, result, marked, recent>>
  BY DEF CreateRequest, PcValues
<1>2. req[w] \in Requests /\ id \in Ids /\ key \in Keys
  BY RequestFields DEF IInv, TypeOK
<1>3. /\ state[id] = Absent /\ \A i \in Ids : keyOf[i] # key
      /\ state' = [state EXCEPT ![id] = "QUEUED"]
      /\ keyOf' = [keyOf EXCEPT ![id] = key]
  BY <1>1 DEF CreateInserts, InsertIgnored
<1>4. /\ pc' \in [Runs -> PcValues] /\ pc'[w] = "admit"
      /\ \A v \in Runs \ {w} : pc'[v] = pc[v]
  BY <1>1, GoToType DEF IInv
<1>5. TypeOK'
  <2>1. StoreTypeOK'
    BY <1>1, <1>2, CreateInsertsType DEF IInv, TypeOK
  <2>2. persisted' \in [Runs -> BOOLEAN]
    BY <1>1 DEF IInv, TypeOK
  <2> QED
    BY <1>1, <1>4, <2>1, <2>2 DEF IInv, TypeOK
<1>6. KeyUnique'
  BY <1>2, <1>3, NoKeyAssumption DEF IInv, TypeOK, StoreTypeOK, KeyUnique, Absent
<1>7. /\ \A v \in Runs : persisted'[v] <=> (v = w \/ persisted[v])
      /\ \A v \in Runs \ {w} : persisted'[v] = persisted[v]
  BY <1>1 DEF IInv, TypeOK
<1>8. ASSUME NEW v \in Runs, persisted[v]
      PROVE  /\ req[v].id # id /\ req[v].key # key
             /\ req[v].id \in Ids
  BY <1>3, <1>8, RequestFields DEF IInv, RunInv, RowInv, TypeOK
<1>9. OneRunPerChange'
  <2> SUFFICES ASSUME NEW u \in Runs, NEW v \in Runs,
                      persisted'[u], persisted'[v], u # v
               PROVE  req[u].id # req[v].id /\ req[u].key # req[v].key
    BY <1>1 DEF OneRunPerChange
  <2> QED
    BY <1>7, <1>8 DEF IInv, OneRunPerChange
<1>10. ASSUME NEW i \in Ids PROVE HasOwner(i)'
  <2>1. CASE i = id
    BY <1>1, <1>7, <2>1 DEF HasOwner
  <2>2. CASE i # id
    <3>1. state'[i] = state[i]
      BY <1>3, <2>2
    <3> QED
      BY <1>1, <1>7, <3>1 DEF IInv, HasOwner
  <2> QED
    BY <2>1, <2>2
<1>11. ASSUME NEW v \in Runs PROVE RunInv(v)'
  <2>1. CASE v = w
    <3>1. /\ state'[id] = "QUEUED" /\ keyOf'[id] = key /\ persisted'[w] = TRUE
      BY <1>2, <1>3, <1>7 DEF IInv, TypeOK, StoreTypeOK
    <3>2. current[w] = "QUEUED" /\ ~marked[w]
      BY <1>1 DEF IInv, RunInv, ControlInv, ProgressInv, StateAt
    <3> QED
      BY <1>1, <1>4, <2>1, <3>1, <3>2
         DEF RunInv, ControlInv, ProgressInv, RowInv, Pipeline, StateAt, Absent
  <2>2. CASE v # w
    <3>1. persisted[v] => /\ state'[req[v].id] = state[req[v].id]
                          /\ keyOf'[req[v].id] = keyOf[req[v].id]
      BY <1>3, <1>8 DEF IInv, TypeOK, StoreTypeOK
    <3> QED
      BY <1>1, <1>4, <1>7, <2>2, <3>1, RunInvFrame DEF IInv
  <2> QED
    BY <2>1, <2>2
<1> QED
  BY <1>5, <1>6, <1>9, <1>10, <1>11 DEF IInv

\* A duplicate only adds to the audit trail.
LEMMA DuplicateInv ==
    ASSUME IInv, NEW w \in Runs, handle_duplicate_request(w)
    PROVE  IInv'
<1> DEFINE r == duplicate_result(req[w])
<1>1. /\ pc[w] = "create" /\ CreateFindsDuplicate(req[w])
      /\ Returns(w, r) /\ GoTo(w, "publish") /\ "publish" \in PcValues
      /\ UNCHANGED <<state, keyOf, req, current, persisted, decisions, llm, marked,
                     recent>>
  BY DEF handle_duplicate_request, CreateFindsDuplicate, PcValues
<1>2. r \in Result
  BY DEF duplicate_result, Result, ReviewState, ResultStatus, ResultCodes, Said
<1> HIDE DEF r
<1>3. StoreTypeOK'
  BY <1>1, CreateFindsDuplicateType DEF IInv, TypeOK
<1>4. /\ TypeOK' /\ pc'[w] = "publish"
      /\ \A v \in Runs \ {w} : pc'[v] = pc[v] /\ result'[v] = result[v]
  BY <1>1, <1>2, <1>3, GoToType, ReturnsType DEF IInv, TypeOK
<1>5. RunInv(w)'
  BY <1>1, <1>4 DEF IInv, RunInv, ControlInv, ProgressInv, RowInv, Pipeline
<1> QED
  BY <1>1, <1>4, <1>5, LocalStep

\* The except block moves the row to the state of the failure result.
LEMMA RecordFailureInv ==
    ASSUME IInv, NEW w \in Runs, record_failure_transition(w)
    PROVE  IInv'
<1> DEFINE s == result[w].state
<1>1. /\ pc[w] = "fail" /\ persisted[w]
      /\ transition_state(req[w].id, current[w], s)
      /\ current' = [current EXCEPT ![w] = s]
      /\ GoTo(w, "mark") /\ "mark" \in PcValues
      /\ UNCHANGED <<req, persisted, decisions, llm, result, marked, recent>>
  BY DEF record_failure_transition, RecordsFailure, PcValues
<1>2. s \in {"FAILED", "DEGRADED"} /\ ~marked[w]
  BY <1>1 DEF IInv, RunInv, ControlInv, ProgressInv
<1>3. s \in ReviewState /\ s \in TerminalStates /\ s # Absent
  BY <1>2 DEF ReviewState, TerminalStates, Absent
<1>4. req[w].id \in Ids
  BY RequestFields DEF IInv, TypeOK
<1>5. /\ StoreTypeOK' /\ keyOf' = keyOf
      /\ state' = [state EXCEPT ![req[w].id] = s] /\ state'[req[w].id] = s
  BY <1>1, <1>3, <1>4, TransitionType DEF IInv, TypeOK, StoreTypeOK, transition_state
<1>6. /\ TypeOK' /\ pc'[w] = "mark"
      /\ \A v \in Runs \ {w} : pc'[v] = pc[v] /\ current'[v] = current[v]
  BY <1>1, <1>3, <1>5, GoToType DEF IInv, TypeOK
<1>7. RunInv(w)'
  BY <1>1, <1>2, <1>3, <1>5, <1>6
     DEF IInv, RunInv, ControlInv, ProgressInv, RowInv, Pipeline
<1> QED
  BY <1>1, <1>3, <1>5, <1>6, <1>7, RowStep

\* If that transition is skipped or fails, the final write is still legal: it
\* changes a working state to FAILED or DEGRADED.
LEMMA FailureNotRecordedInv ==
    ASSUME IInv, NEW w \in Runs, FailureNotRecorded(w)
    PROVE  IInv'
<1> DEFINE l == IF persisted[w] THEN "mark" ELSE "publish"
<1>1. /\ pc[w] = "fail" /\ GoTo(w, l)
      /\ UNCHANGED <<state, keyOf, events, req, persisted, decisions, llm, result,
                     marked, recent>>
      /\ current' = IF RecordsFailure(w)
                    THEN [current EXCEPT ![w] = result[w].state] ELSE current
  BY DEF FailureNotRecorded, StoreDown, store
<1>2. result[w].state \in {"FAILED", "DEGRADED"} /\ ~marked[w]
  BY <1>1 DEF IInv, RunInv, ControlInv, ProgressInv
<1>3. /\ current' \in [Runs -> ReviewState]
      /\ \A v \in Runs \ {w} : current'[v] = current[v]
  BY <1>1, <1>2 DEF IInv, TypeOK, ReviewState
<1>4. l \in PcValues
  BY DEF PcValues
<1>5. /\ TypeOK' /\ pc'[w] = l
      /\ \A v \in Runs \ {w} : pc'[v] = pc[v]
  BY <1>1, <1>3, <1>4, GoToType DEF IInv, TypeOK, StoreTypeOK
<1>6. RunInv(w)'
  <2>1. CASE persisted[w]
    <3>1. state[req[w].id] = current[w] /\ current[w] \in WorkingStates
      BY <1>1, <2>1 DEF IInv, RunInv, ProgressInv, RowInv
    <3>2. LegalChange(state[req[w].id], result[w].state)
      BY <1>2, <3>1
         DEF WorkingStates, LegalChange, can_transition, ALLOWED_TRANSITIONS
    <3> QED
      BY <1>1, <1>2, <1>5, <2>1, <3>1, <3>2
         DEF IInv, RunInv, ControlInv, ProgressInv, RowInv, Pipeline, TerminalStates
  <2>2. CASE ~persisted[w]
    BY <1>1, <1>2, <1>5, <2>2
       DEF IInv, RunInv, ControlInv, ProgressInv, RowInv, Pipeline
  <2> QED
    BY <2>1, <2>2
<1> QED
  BY <1>1, <1>3, <1>5, <1>6, LocalStep

\* mark_terminal writes the state of the result.
LEMMA MarkTerminalInv ==
    ASSUME IInv, NEW w \in Runs, MarkTerminal(w)
    PROVE  IInv'
<1> DEFINE s == result[w].state
<1>1. /\ pc[w] = "mark" /\ mark_terminal(req[w].id, s)
      /\ marked' = [marked EXCEPT ![w] = TRUE]
      /\ GoTo(w, "publish") /\ "publish" \in PcValues
      /\ UNCHANGED <<req, current, persisted, decisions, llm, result, recent>>
  BY DEF MarkTerminal, PcValues
<1>2. persisted[w] /\ s \in TerminalStates
  BY <1>1 DEF IInv, RunInv, ControlInv, ProgressInv
<1>3. s \in ReviewState /\ s # Absent
  BY <1>2 DEF ReviewState, TerminalStates, Absent
<1>4. req[w].id \in Ids
  BY RequestFields DEF IInv, TypeOK
<1>5. /\ StoreTypeOK' /\ keyOf' = keyOf
      /\ state' = [state EXCEPT ![req[w].id] = s] /\ state'[req[w].id] = s
  BY <1>1, <1>3, <1>4, MarkTerminalType DEF IInv, TypeOK, StoreTypeOK, mark_terminal
<1>6. /\ TypeOK' /\ pc'[w] = "publish" /\ marked'[w]
      /\ \A v \in Runs \ {w} : pc'[v] = pc[v] /\ marked'[v] = marked[v]
  BY <1>1, <1>5, GoToType DEF IInv, TypeOK
<1>7. RunInv(w)'
  BY <1>1, <1>2, <1>3, <1>5, <1>6
     DEF IInv, RunInv, ControlInv, ProgressInv, RowInv, Pipeline
<1> QED
  BY <1>1, <1>2, <1>3, <1>5, <1>6, <1>7, RowStep

\* A final write that fails is swallowed: only a store that may fail, or a
\* missing row, which the invariant excludes, leads here.
LEMMA MarkTerminalFailsInv ==
    ASSUME IInv, NEW w \in Runs, MarkTerminalFails(w)
    PROVE  IInv'
<1>1. /\ pc[w] = "mark" /\ GoTo(w, "publish") /\ "publish" \in PcValues
      /\ UNCHANGED <<state, keyOf, events, req, current, persisted, decisions, llm,
                     result, marked, recent>>
  BY DEF MarkTerminalFails, StoreDown, store, PcValues
<1>2. StoreMayFail
  BY <1>1 DEF MarkTerminalFails, IInv, RunInv, ControlInv, RowInv
<1>3. /\ TypeOK' /\ pc'[w] = "publish"
      /\ \A v \in Runs \ {w} : pc'[v] = pc[v]
  BY <1>1, GoToType DEF IInv, TypeOK, StoreTypeOK
<1>4. RunInv(w)'
  BY <1>1, <1>2, <1>3 DEF IInv, RunInv, ControlInv, ProgressInv, RowInv, Pipeline
<1> QED
  BY <1>1, <1>3, <1>4, LocalStep

\* The result is published and run_once returns.
LEMMA PublishInv ==
    ASSUME IInv, NEW w \in Runs, Publish(w)
    PROVE  IInv'
<1>1. /\ pc[w] = "publish" /\ GoTo(w, "returned") /\ "returned" \in PcValues
      /\ UNCHANGED <<state, keyOf, events, req, current, persisted, decisions, llm,
                     result, marked, recent>>
  BY DEF Publish, store, PcValues
<1>2. /\ TypeOK' /\ pc'[w] = "returned"
      /\ \A v \in Runs \ {w} : pc'[v] = pc[v]
  BY <1>1, GoToType DEF IInv, TypeOK, StoreTypeOK
<1>3. RunInv(w)'
  BY <1>1, <1>2 DEF IInv, RunInv, ControlInv, ProgressInv, RowInv, Pipeline
<1> QED
  BY <1>1, <1>2, <1>3, LocalStep

\* A crash stops runs and leaves the table as it is.
LEMMA CrashInv ==
    ASSUME IInv, NEW p \in Procs, Crash(p)
    PROVE  IInv'
<1>1. /\ UNCHANGED <<state, keyOf, events, req, current, persisted, decisions, llm,
                     result, marked>>
      /\ pc' = [w \in Runs |->
                  IF ProcOf[w] = p /\ Running(w) THEN "crashed" ELSE pc[w]]
      /\ recent' = [recent EXCEPT ![p] = {}]
  BY DEF Crash, store
<1>2. TypeOK'
  <2>1. pc' \in [Runs -> PcValues]
    BY <1>1 DEF IInv, TypeOK, PcValues
  <2>2. recent' \in [Procs -> SUBSET Files]
    BY <1>1 DEF IInv, TypeOK
  <2> QED
    BY <1>1, <2>1, <2>2 DEF IInv, TypeOK, StoreTypeOK
<1>3. ASSUME NEW w \in Runs PROVE RunInv(w)'
  <2>1. CASE pc'[w] = pc[w]
    BY <1>1, <2>1, RunInvFrame DEF IInv
  <2>2. CASE pc'[w] # pc[w]
    <3>1. pc'[w] = "crashed"
      BY <1>1, <2>2
    <3> QED
      BY <1>1, <3>1 DEF IInv, RunInv, ControlInv, ProgressInv, RowInv, Pipeline
  <2> QED
    BY <2>1, <2>2
<1>4. KeyUnique' /\ OneRunPerChange' /\ \A i \in Ids : HasOwner(i)'
  BY <1>1 DEF IInv, KeyUnique, OneRunPerChange, HasOwner
<1> QED
  BY <1>2, <1>3, <1>4 DEF IInv

\* Steps that change nothing but the debounce table, and stuttering.
LEMMA WindowInv ==
    ASSUME IInv, recent' \in [Procs -> SUBSET Files], UNCHANGED <<store, locals>>
    PROVE  IInv'
<1>1. UNCHANGED <<state, keyOf, events, pc, req, current, persisted, decisions, llm,
                  result, marked>>
  BY DEF store, locals
<1>2. TypeOK'
  BY <1>1 DEF IInv, TypeOK, StoreTypeOK
<1>3. \A w \in Runs : RunInv(w)'
  BY <1>1, RunInvFrame DEF IInv
<1>4. KeyUnique' /\ OneRunPerChange' /\ \A i \in Ids : HasOwner(i)'
  BY <1>1 DEF IInv, KeyUnique, OneRunPerChange, HasOwner
<1> QED
  BY <1>2, <1>3, <1>4 DEF IInv

-----------------------------------------------------------------------------
(* The theorems.                                                           *)

\* The spool database starts empty and no process has called run_once.
LEMMA InitInv == Init => IInv
<1> SUFFICES ASSUME Init PROVE IInv
  OBVIOUS
<1>1. TypeOK
  <2>1. StoreTypeOK
    <3>1. <<>> \in Seq(Event)
      OBVIOUS
    <3> QED
      BY <3>1 DEF Init, StoreInit, StoreTypeOK
  <2>2. NoResult \in Result /\ Unbound \in LlmResult
    BY DEF NoResult, build_result, Result, ResultStatus, ResultCodes, Said,
           Unbound, LlmResult
  <2>3. decisions \in [Runs -> Seq(AgentStatus)]
    BY DEF Init
  <2>4. pc \in [Runs -> PcValues] /\ current \in [Runs -> ReviewState]
    BY DEF Init, PcValues, ReviewState
  <2> QED
    BY <2>1, <2>2, <2>3, <2>4 DEF Init, TypeOK
<1>2. KeyUnique
  BY NoKeyAssumption DEF Init, StoreInit, KeyUnique
<1>3. OneRunPerChange /\ \A i \in Ids : HasOwner(i)
  BY DEF Init, StoreInit, OneRunPerChange, HasOwner
<1>4. ASSUME NEW w \in Runs PROVE RunInv(w)
  BY DEF Init, RunInv, ControlInv, ProgressInv, RowInv, Pipeline, StateAt
<1> QED
  BY <1>1, <1>2, <1>3, <1>4 DEF IInv

\* Every step of one run_once preserves the invariant.
LEMMA StepInv ==
    ASSUME IInv, NEW w \in Runs, Step(w)
    PROVE  IInv'
BY CreateRequestInv, DuplicateInv, CreateRaisesInv, AllowNewJobInv,
   ResourceRejectInv, PolicyRejectInv, PolicyAcceptInv, BuildContextInv,
   RunAgentInv, CollectDecisionsInv, TransitionFailsInv, CollaboratorRaisesInv,
   DecideInv, LlmReviewInv, ProposePatchInv, AutoFixInv, AutoFixUnboundInv,
   RecordFailureInv, FailureNotRecordedInv, MarkTerminalInv,
   MarkTerminalFailsInv, PublishInv
   DEF Step

\* Every step, a crash and a restart included, preserves the invariant.
LEMMA NextInv == IInv /\ [Next]_vars => IInv'
<1> SUFFICES ASSUME IInv, [Next]_vars PROVE IInv'
  OBVIOUS
<1>1. ASSUME NEW w \in Runs, Submit(w) PROVE IInv'
  BY <1>1, SubmitInv
<1>2. ASSUME NEW w \in Runs, Step(w) PROVE IInv'
  BY <1>2, StepInv
<1>3. ASSUME NEW p \in Procs, Crash(p) PROVE IInv'
  BY <1>3, CrashInv
<1>4. ASSUME NEW p \in Procs, NEW f \in Files, WindowExpires(p, f) PROVE IInv'
  <2>1. recent' \in [Procs -> SUBSET Files]
    BY <1>4 DEF WindowExpires, IInv, TypeOK
  <2> QED
    BY <1>4, <2>1, WindowInv DEF WindowExpires
<1>5. CASE UNCHANGED vars
  <2>1. UNCHANGED <<store, locals>> /\ recent' = recent
    BY <1>5 DEF vars, locals
  <2> QED
    BY <2>1, WindowInv DEF IInv, TypeOK
<1> QED
  BY <1>1, <1>2, <1>3, <1>4, <1>5 DEF Next

\* The inductive invariant holds in every behaviour of every instance.
THEOREM InvariantHolds == Spec => []IInv
BY InitInv, NextInv, PTL DEF Spec

\* Every variable keeps its type.
THEOREM TypeCorrect == Spec => []TypeOK
<1>1. IInv => TypeOK
  BY DEF IInv
<1> QED
  BY <1>1, InvariantHolds, PTL

\* At most one run ever owns a change or a request id.
THEOREM Idempotency == Spec => []OneRunPerChange
<1>1. IInv => OneRunPerChange
  BY DEF IInv
<1> QED
  BY <1>1, InvariantHolds, PTL

\* current_state and the row never drift apart before the final write.
THEOREM RowTracking == Spec => []RowTracksRun
<1>1. IInv => RowTracksRun
  BY DEF IInv, RowTracksRun, RunInv, ProgressInv, RowInv, Pipeline, StateAt,
         WorkingStates, TerminalStates
<1> QED
  BY <1>1, InvariantHolds, PTL

\* The reply and the row agree for ever once the final write committed.
THEOREM ReplyConsistency == Spec => []ReplyMatchesRow
<1>1. IInv => ReplyMatchesRow
  BY DEF IInv, ReplyMatchesRow, RunInv, RowInv
<1> QED
  BY <1>1, InvariantHolds, PTL

\* Only a live run, a dead process or a refused final write leaves a job
\* unfinished.
THEOREM OrphanReason == Spec => []OrphanHasReason
<1>1. IInv => OrphanHasReason
  <2> SUFFICES ASSUME IInv, NEW i \in Ids,
                      state[i] \notin TerminalStates \cup {Absent}
               PROVE  \E w \in Runs :
                        /\ persisted[w] /\ req[w].id = i /\ keyOf[i] = req[w].key
                        /\ \/ Running(w) \/ pc[w] = "crashed"
                           \/ StoreMayFail /\ pc[w] = "returned" /\ ~marked[w]
    BY DEF OrphanHasReason
  <2>1. PICK w \in Runs : persisted[w] /\ req[w].id = i
    BY DEF IInv, HasOwner
  <2>2. keyOf[i] = req[w].key /\ pc[w] # "idle"
    BY <2>1 DEF IInv, RunInv, ControlInv, RowInv
  <2>3. pc[w] = "returned" => ~marked[w] /\ StoreMayFail
    BY <2>1 DEF IInv, RunInv, ControlInv, ProgressInv, RowInv
  <2> QED
    BY <2>1, <2>2, <2>3 DEF Running
<1> QED
  BY <1>1, InvariantHolds, PTL

-----------------------------------------------------------------------------
(* How a step changes the table.                                           *)

\* A step leaves the store alone or runs one of its four transactions; a
\* transition starts from a working state.
LEMMA StoreSteps ==
    ASSUME IInv, [Next]_vars
    PROVE  \/ UNCHANGED store
           \/ \E w \in Runs : CreateInserts(req[w])
           \/ \E w \in Runs : CreateFindsDuplicate(req[w])
           \/ \E w \in Runs, from \in WorkingStates, to \in ReviewState :
                 transition_state(req[w].id, from, to)
           \/ \E w \in Runs : pc[w] = "mark" /\ mark_terminal(req[w].id, result[w].state)
<1>1. ASSUME NEW w \in Runs, Submit(w) PROVE UNCHANGED store
  BY <1>1 DEF Submit
<1>2. ASSUME NEW w \in Runs, Step(w)
      PROVE  \/ UNCHANGED store
             \/ CreateInserts(req[w]) \/ CreateFindsDuplicate(req[w])
             \/ \E from \in WorkingStates, to \in ReviewState :
                   transition_state(req[w].id, from, to)
             \/ pc[w] = "mark" /\ mark_terminal(req[w].id, result[w].state)
  <2>1. CASE CreateRequest(w)
    BY <2>1 DEF CreateRequest
  <2>2. CASE handle_duplicate_request(w)
    BY <2>2 DEF handle_duplicate_request
  <2>3. CASE PolicyReject(w) \/ PolicyAccept(w) \/ BuildContext(w) \/ CollectDecisions(w)
    BY <2>3 DEF PolicyReject, PolicyAccept, BuildContext, CollectDecisions, Advance,
                WorkingStates, ReviewState
  <2>4. CASE record_failure_transition(w)
    <3>1. /\ pc[w] = "fail"
          /\ transition_state(req[w].id, current[w], result[w].state)
      BY <2>4 DEF record_failure_transition
    <3>2. current[w] \in WorkingStates /\ result[w].state \in ReviewState
      BY <3>1 DEF IInv, RunInv, ProgressInv, ReviewState
    <3> QED
      BY <3>1, <3>2
  <2>5. CASE MarkTerminal(w)
    BY <2>5 DEF MarkTerminal
  <2>6. CASE \/ CreateRaises(w) \/ allow_new_job(w) \/ ResourceReject(w)
             \/ RunAgent(w) \/ TransitionFails(w) \/ CollaboratorRaises(w)
    BY <2>6 DEF CreateRaises, StoreRaises, StoreDown, allow_new_job, ResourceReject,
                RunAgent, TransitionFails, AdvanceRaises, CollaboratorRaises
  <2>7. CASE \/ Decide(w) \/ LlmReview(w) \/ ProposePatch(w) \/ AutoFix(w)
             \/ AutoFixUnbound(w) \/ FailureNotRecorded(w)
             \/ MarkTerminalFails(w) \/ Publish(w)
    BY <2>7 DEF Decide, LlmReview, ProposePatch, AutoFix, AutoFixUnbound,
                FailureNotRecorded, MarkTerminalFails, StoreDown, Publish
  <2> QED
    BY <1>2, <2>1, <2>2, <2>3, <2>4, <2>5, <2>6, <2>7 DEF Step
<1>3. ASSUME NEW p \in Procs, Crash(p) PROVE UNCHANGED store
  BY <1>3 DEF Crash
<1>4. ASSUME NEW p \in Procs, NEW f \in Files, WindowExpires(p, f) PROVE UNCHANGED store
  BY <1>4 DEF WindowExpires
<1>5. CASE UNCHANGED vars
  BY <1>5 DEF vars
<1> QED
  BY <1>1, <1>2, <1>3, <1>4, <1>5 DEF Next

\* A row is inserted as QUEUED, or leaves a working state by a legal change,
\* or stays as it is.
LEMMA RowChanges ==
    ASSUME IInv, [Next]_vars, NEW i \in Ids
    PROVE  \/ state'[i] = state[i]
           \/ state[i] = Absent /\ state'[i] = "QUEUED"
           \/ state[i] \in WorkingStates /\ LegalChange(state[i], state'[i])
<1>0. /\ state \in [Ids -> ReviewState \cup {Absent}]
      /\ \A w \in Runs : req[w].id \in Ids
  BY RequestFields DEF IInv, TypeOK, StoreTypeOK
<1>1. CASE UNCHANGED store
  BY <1>1 DEF store
<1>2. ASSUME NEW w \in Runs, CreateInserts(req[w])
      PROVE  \/ state'[i] = state[i]
             \/ state[i] = Absent /\ state'[i] = "QUEUED"
  BY <1>0, <1>2 DEF CreateInserts, InsertIgnored
<1>3. ASSUME NEW w \in Runs, CreateFindsDuplicate(req[w]) PROVE state'[i] = state[i]
  BY <1>3 DEF CreateFindsDuplicate
<1>4. ASSUME NEW w \in Runs, NEW from \in WorkingStates, NEW to \in ReviewState,
             transition_state(req[w].id, from, to)
      PROVE  \/ state'[i] = state[i]
             \/ state[i] \in WorkingStates /\ LegalChange(state[i], state'[i])
  BY <1>0, <1>4 DEF transition_state, TransitionRaises, LegalChange
<1>5. ASSUME NEW w \in Runs, pc[w] = "mark", mark_terminal(req[w].id, result[w].state)
      PROVE  \/ state'[i] = state[i]
             \/ state[i] \in WorkingStates /\ LegalChange(state[i], state'[i])
  BY <1>0, <1>5 DEF mark_terminal, IInv, RunInv, ControlInv, RowInv
<1> QED
  BY <1>1, <1>2, <1>3, <1>4, <1>5, StoreSteps

\* No step changes a job that has reached a terminal state.
THEOREM TerminalForEver == Spec => TerminalIsFinal
<1>1. IInv /\ [Next]_vars =>
        \A i \in Ids : state[i] \in TerminalStates => state'[i] = state[i]
  <2> SUFFICES ASSUME IInv, [Next]_vars, NEW i \in Ids, state[i] \in TerminalStates
               PROVE  state'[i] = state[i]
    OBVIOUS
  <2> QED
    BY RowChanges DEF TerminalStates, WorkingStates, Absent
<1> QED
  BY <1>1, InvariantHolds, PTL DEF Spec, TerminalIsFinal

\* The only changes outside the state machine's table degrade a job.
THEOREM BypassBound == Spec => BypassOnlyToDegraded
<1>1. IInv /\ [Next]_vars =>
        \A i \in Ids :
          state[i] # Absent /\ state'[i] # state[i] =>
              \/ can_transition(state[i], state'[i])
              \/ /\ state[i] \in {"QUEUED", "CONSENSUS_REACHED"}
                 /\ state'[i] = "DEGRADED"
  BY RowChanges DEF LegalChange
<1> QED
  BY <1>1, InvariantHolds, PTL DEF Spec, BypassOnlyToDegraded

-----------------------------------------------------------------------------
\* An event appended to the trail of a job names the state of the job, so the
\* newest event of a row names its state.
LEMMA AuditStep ==
    ASSUME IInv, AuditAgreesWithRow, [Next]_vars
    PROVE  AuditAgreesWithRow'
<1>0. /\ state \in [Ids -> ReviewState \cup {Absent}]
      /\ events \in [Ids -> Seq(Event)]
      /\ \A w \in Runs : req[w].id \in Ids /\ req[w].key \in Keys
      /\ Absent \notin ReviewState
  BY RequestFields DEF IInv, TypeOK, StoreTypeOK, Absent, ReviewState
<1>a. ASSUME NEW sq \in Seq(Event), NEW e \in Event
      PROVE  /\ Len(Append(sq, e)) > 0
             /\ Append(sq, e)[Len(Append(sq, e))] = e
  OBVIOUS
<1>b. ASSUME NEW id \in Ids, NEW type \in EventTypes, NEW s \in ReviewState,
             state' = [state EXCEPT ![id] = s], append_event(id, type, s)
      PROVE  AuditAgreesWithRow'
  <2>1. [type |-> type, state |-> s] \in Event
    BY DEF Event
  <2>2. events' = [events EXCEPT ![id] = Append(events[id], [type |-> type, state |-> s])]
    BY <1>b DEF append_event
  <2>3. ASSUME NEW i \in Ids
        PROVE  IF state'[i] = Absent THEN events'[i] = <<>>
               ELSE /\ Len(events'[i]) > 0
                    /\ events'[i][Len(events'[i])].state = state'[i]
    <3>1. CASE i = id
      <4>1. state'[i] = s /\ events'[i] = Append(events[id], [type |-> type, state |-> s])
        BY <1>0, <1>b, <2>2, <3>1
      <4> QED
        BY <1>0, <1>a, <2>1, <4>1
    <3>2. CASE i # id
      BY <1>0, <1>b, <2>2, <3>2 DEF AuditAgreesWithRow
    <3> QED
      BY <3>1, <3>2
  <2> QED
    BY <2>3 DEF AuditAgreesWithRow
<1>1. CASE UNCHANGED store
  BY <1>1 DEF store, AuditAgreesWithRow
<1>2. ASSUME NEW w \in Runs, CreateInserts(req[w]) PROVE AuditAgreesWithRow'
  BY <1>0, <1>2, <1>b DEF CreateInserts, EventTypes, ReviewState
<1>3. ASSUME NEW w \in Runs, CreateFindsDuplicate(req[w]) PROVE AuditAgreesWithRow'
  <2> DEFINE e(i) == [type |-> "duplicate_ignored", state |-> state[i]]
  <2>1. /\ state' = state
        /\ events' = [i \in Ids |-> IF keyOf[i] = req[w].key
                                    THEN Append(events[i], e(i)) ELSE events[i]]
    BY <1>3 DEF CreateFindsDuplicate
  <2>2. ASSUME NEW i \in Ids
        PROVE  IF state'[i] = Absent THEN events'[i] = <<>>
               ELSE /\ Len(events'[i]) > 0
                    /\ events'[i][Len(events'[i])].state = state'[i]
    <3>1. CASE keyOf[i] = req[w].key
      <4>1. state[i] # Absent /\ state[i] \in ReviewState
        BY <1>0, <3>1, NoKeyAssumption DEF IInv, KeyUnique
      <4>2. e(i) \in Event /\ e(i).state = state[i]
        BY <4>1 DEF Event, EventTypes
      <4>3. events'[i] = Append(events[i], e(i))
        BY <2>1, <3>1
      <4> HIDE DEF e
      <4> QED
        BY <1>0, <1>a, <2>1, <4>1, <4>2, <4>3
    <3>2. CASE keyOf[i] # req[w].key
      BY <2>1, <3>2 DEF AuditAgreesWithRow
    <3> QED
      BY <3>1, <3>2
  <2> QED
    BY <2>2 DEF AuditAgreesWithRow
<1>4. ASSUME NEW w \in Runs, NEW from \in WorkingStates, NEW to \in ReviewState,
             transition_state(req[w].id, from, to)
      PROVE  AuditAgreesWithRow'
  BY <1>0, <1>4, <1>b DEF transition_state, EventTypes
<1>5. ASSUME NEW w \in Runs, pc[w] = "mark", mark_terminal(req[w].id, result[w].state)
      PROVE  AuditAgreesWithRow'
  <2>1. result[w].state \in ReviewState
    BY <1>5 DEF IInv, RunInv, ControlInv, ProgressInv, TerminalStates, ReviewState
  <2> QED
    BY <1>0, <1>5, <1>b, <2>1 DEF mark_terminal, EventTypes
<1> QED
  BY <1>1, <1>2, <1>3, <1>4, <1>5, StoreSteps

\* The newest lifecycle event of a job always names the state of its row.
THEOREM AuditTrail == Spec => []AuditAgreesWithRow
<1>1. Init => AuditAgreesWithRow
  <2> SUFFICES ASSUME Init, NEW i \in Ids
               PROVE  state[i] = Absent /\ events[i] = <<>>
    BY DEF AuditAgreesWithRow
  <2> QED
    BY DEF Init, StoreInit
<1>2. IInv /\ AuditAgreesWithRow /\ [Next]_vars => AuditAgreesWithRow'
  BY AuditStep
<1> QED
  BY <1>1, <1>2, InvariantHolds, PTL DEF Spec

-----------------------------------------------------------------------------
(* Fail closed.                                                            *)

\* The verdict of a run depends on that run alone.
LEMMA VerdictFrame ==
    ASSUME NEW v \in Runs, VerdictInv(v),
           pc'[v] = pc[v], req'[v] = req[v], persisted'[v] = persisted[v],
           decisions'[v] = decisions[v], llm'[v] = llm[v], result'[v] = result[v]
    PROVE  VerdictInv(v)'
BY DEF VerdictInv, Earned, total_agents, Statuses

\* A run that moves on with the result it has.
LEMMA VerdictKept ==
    ASSUME TypeOK, NEW w \in Runs, VerdictInv(w), NEW label \in PcValues,
           GoTo(w, label),
           \/ label \in {"create", "admit", "policy", "context", "agents"}
           \/ pc[w] = "fail" /\ label \in {"mark", "publish"}
           \/ pc[w] = "mark" /\ label = "publish"
           \/ pc[w] = "publish" /\ label = "returned",
           req' = req, persisted' = persisted, decisions' = decisions,
           llm' = llm, result' = result
    PROVE  VerdictInv(w)'
<1>1. pc'[w] = label
  BY GoToType
<1> QED
  BY <1>1 DEF VerdictInv, Earned, total_agents, Statuses

\* A result that is not a pass is earned by anybody.
LEMMA NoPassIsEarned ==
    ASSUME NEW w \in Runs, result'[w].status # "pass",
           result'[w].code # "REVIEW_PASSED",
           pc'[w] \in {"fail", "mark", "publish", "returned"}
    PROVE  VerdictInv(w)'
BY DEF VerdictInv, Earned

\* An exception never leaves a run with an unearned REVIEW_PASSED.
LEMMA RaiseVerdict ==
    ASSUME TypeOK, NEW w \in Runs, NEW code \in FailureCodes, Raise(w, code)
    PROVE  VerdictInv(w)'
<1>1. /\ pc'[w] = "fail" /\ result'[w] = classify_failure(code)
      /\ classify_failure(code).status # "pass"
      /\ classify_failure(code).code # "REVIEW_PASSED"
  BY RaiseType, ClassifyFailure
<1> QED
  BY <1>1, NoPassIsEarned

\* Every step of the run preserves its verdict invariant.
LEMMA VerdictStepInv ==
    ASSUME IInv, NEW w \in Runs, VerdictInv(w), Submit(w) \/ Step(w)
    PROVE  VerdictInv(w)'
<1> USE DEF IInv
<1>0. "SYSTEM_FAILED" \in FailureCodes
  BY DEF FailureCodes
<1>1. CASE Submit(w) \/ allow_new_job(w) \/ PolicyAccept(w) \/ BuildContext(w)
  BY <1>1, VerdictKept
     DEF Submit, allow_new_job, PolicyAccept, BuildContext, Advance, PcValues
<1>2. CASE FailureNotRecorded(w) \/ record_failure_transition(w)
  BY <1>2, VerdictKept
     DEF FailureNotRecorded, record_failure_transition, PcValues
<1>3. CASE MarkTerminal(w) \/ MarkTerminalFails(w) \/ Publish(w)
  BY <1>3, VerdictKept DEF MarkTerminal, MarkTerminalFails, Publish, PcValues
<1>4. CASE CreateRequest(w)
  <2>1. pc'[w] = "admit"
    BY <1>4, GoToType DEF CreateRequest, PcValues
  <2> QED
    BY <2>1 DEF VerdictInv
<1>5. CASE handle_duplicate_request(w)
  <2>1. duplicate_result(req[w]) \in Result
    BY DEF duplicate_result, Result, ReviewState, ResultStatus, ResultCodes, Said
  <2>2. result'[w] = duplicate_result(req[w]) /\ pc'[w] = "publish"
    BY <1>5, <2>1, ReturnsType, GoToType DEF handle_duplicate_request, PcValues
  <2>3. result'[w].status # "pass" /\ result'[w].code # "REVIEW_PASSED"
    BY <2>2 DEF duplicate_result
  <2> QED
    BY <2>2, <2>3, NoPassIsEarned
<1>6. CASE CreateRaises(w) \/ AutoFixUnbound(w) \/ TransitionFails(w)
  BY <1>0, <1>6, RaiseVerdict
     DEF CreateRaises, StoreRaises, AutoFixUnbound, TransitionFails, AdvanceRaises
<1>7. CASE CollaboratorRaises(w)
  BY <1>7, RaiseVerdict DEF CollaboratorRaises
<1>8. CASE ResourceReject(w)
  <2> DEFINE r == build_result("DEGRADED", "degraded", "RESOURCE_REJECTED")
  <2>1. /\ r \in Result /\ r.status # "pass" /\ r.code # "REVIEW_PASSED"
        /\ "mark" \in PcValues
    BY BuildResultType DEF ReviewState, ResultStatus, ResultCodes, PcValues
  <2>2. Returns(w, r) /\ GoTo(w, "mark")
    BY <1>8 DEF ResourceReject
  <2> HIDE DEF r
  <2> QED
    BY <2>1, <2>2, GoToType, ReturnsType, NoPassIsEarned
<1>9. CASE PolicyReject(w)
  <2> DEFINE r == build_result("PRECHECK_FAILED", "rejected", "POLICY_REJECTED")
  <2>1. /\ r \in Result /\ r.status # "pass" /\ r.code # "REVIEW_PASSED"
        /\ "mark" \in PcValues
    BY BuildResultType DEF ReviewState, ResultStatus, ResultCodes, PcValues
  <2>2. Returns(w, r) /\ GoTo(w, "mark")
    BY <1>9 DEF PolicyReject, Advance
  <2> HIDE DEF r
  <2> QED
    BY <2>1, <2>2, GoToType, ReturnsType, NoPassIsEarned
<1>10. CASE RunAgent(w)
  BY <1>10 DEF RunAgent, VerdictInv
<1>11. CASE CollectDecisions(w)
  <2>1. /\ pc'[w] = "decide" /\ UNCHANGED <<req, persisted, decisions>>
        /\ pc[w] = "agents" /\ Len(decisions[w]) = total_agents(w)
    BY <1>11, GoToType DEF CollectDecisions, Advance, PcValues
  <2>2. persisted[w]
    BY <2>1, PipelineFacts DEF Pipeline
  <2> QED
    BY <2>1, <2>2 DEF VerdictInv, total_agents
<1>12. CASE Decide(w)
  <2> DEFINE r(c) == IF c = "pass"
                     THEN build_result("DELIVERED", "pass", "REVIEW_PASSED")
                     ELSE build_result("DELIVERED", "rejected", "REVIEW_REJECTED")
             l(c) == CASE c = "pass" /\ Has(w, "gate") -> "l3"
                       [] c = "patch" -> "patch"
                       [] OTHER -> "mark"
  <2>1. pc[w] = "decide" /\ UNCHANGED <<req, persisted, decisions, llm>>
    BY <1>12 DEF Decide
  <2>2. PICK c \in consensus_statuses(w) : Returns(w, r(c)) /\ GoTo(w, l(c))
    BY <1>12 DEF Decide
  <2>3. /\ r(c) \in Result /\ r(c).state = "DELIVERED"
        /\ c = "pass" => r(c).status = "pass" /\ r(c).code = "REVIEW_PASSED"
        /\ c # "pass" => r(c).status # "pass" /\ r(c).code # "REVIEW_PASSED"
    BY DeliveredType DEF ResultStatus, ResultCodes, L3Codes
  <2>4. /\ l(c) \in {"l3", "patch", "mark"} /\ l(c) \in PcValues
        /\ l(c) = "patch" => c # "pass"
        /\ l(c) = "l3" => c = "pass"
        /\ c = "pass" /\ Has(w, "gate") => l(c) = "l3"
    BY DEF PcValues
  <2>5. c = "pass" => "reject" \notin Statuses(decisions[w])
    BY DEF consensus_statuses
  <2> HIDE DEF r, l
  <2>6. pc'[w] = l(c) /\ result'[w] = r(c)
    BY <2>2, <2>3, <2>4, GoToType, ReturnsType
  <2>7. persisted[w] /\ Len(decisions[w]) = total_agents(w)
    BY <2>1 DEF VerdictInv
  <2> QED
    BY <2>1, <2>3, <2>4, <2>5, <2>6, <2>7
       DEF VerdictInv, Earned, total_agents, Statuses
<1>13. CASE LlmReview(w)
  <2> DEFINE r(c) == build_result("DELIVERED",
                          IF c = "REVIEW_PASSED" THEN "pass" ELSE "rejected", c)
  <2>1. pc[w] = "l3" /\ UNCHANGED <<req, persisted, decisions>>
    BY <1>13 DEF LlmReview
  <2>2. PICK c \in L3Codes, patch \in BOOLEAN :
            /\ llm' = [llm EXCEPT ![w] = [code |-> c, patch |-> patch]]
            /\ Returns(w, r(c))
            /\ GoTo(w, AfterVerdict(w, c))
    BY <1>13 DEF LlmReview
  <2>3. /\ r(c) \in Result /\ r(c).state = "DELIVERED" /\ r(c).code = c
        /\ r(c).status = "pass" <=> c = "REVIEW_PASSED"
    <3>1. /\ (IF c = "REVIEW_PASSED" THEN "pass" ELSE "rejected") \in ResultStatus
          /\ c \in ResultCodes
      BY DEF ResultStatus, ResultCodes
    <3> QED
      BY <3>1, DeliveredType
  <2>4. /\ AfterVerdict(w, c) \in {"autofix", "mark"} /\ AfterVerdict(w, c) \in PcValues
        /\ AfterVerdict(w, c) = "autofix" => c # "REVIEW_PASSED"
    BY DEF AfterVerdict, PcValues
  <2> HIDE DEF r
  <2>5. pc'[w] = AfterVerdict(w, c) /\ result'[w] = r(c)
    BY <2>2, <2>3, <2>4, GoToType, ReturnsType
  <2>6. llm'[w].code = c
    BY <2>2 DEF TypeOK
  <2>7. /\ persisted[w] /\ Len(decisions[w]) = total_agents(w)
        /\ "reject" \notin Statuses(decisions[w])
    BY <2>1 DEF VerdictInv
  <2> QED
    BY <2>1, <2>3, <2>4, <2>5, <2>6, <2>7
       DEF VerdictInv, Earned, total_agents, Statuses
<1>14. CASE ProposePatch(w)
  <2>1. pc[w] = "patch" /\ UNCHANGED <<req, persisted, decisions, llm>>
    BY <1>14 DEF ProposePatch
  <2>2. PICK r \in PatchResults(w) : Returns(w, r) /\ GoTo(w, AfterVerdict(w, r.code))
    BY <1>14 DEF ProposePatch
  <2>3. r \in Result /\ r.status # "pass" /\ r.code # "REVIEW_PASSED"
    BY DeliveredType DEF PatchResults, ResultStatus, ResultCodes, L3Codes
  <2>4. AfterVerdict(w, r.code) \in {"autofix", "mark"} /\ AfterVerdict(w, r.code) \in PcValues
    BY DEF AfterVerdict, PcValues
  <2>5. pc'[w] = AfterVerdict(w, r.code) /\ result'[w] = r
    BY <2>2, <2>3, <2>4, GoToType, ReturnsType
  <2>6. persisted[w] /\ Len(decisions[w]) = total_agents(w)
    BY <2>1 DEF VerdictInv
  <2> QED
    BY <2>1, <2>3, <2>4, <2>5, <2>6 DEF VerdictInv, Earned, total_agents
<1>15. CASE AutoFix(w)
  <2>1. pc[w] = "autofix" /\ GoTo(w, "mark") /\ "mark" \in PcValues
    BY <1>15 DEF AutoFix, PcValues
  <2>2. PICK applied, verify_failed \in BOOLEAN :
            Returns(w, AutofixResult(result[w], applied, verify_failed))
    BY <1>15 DEF AutoFix
  <2>3. /\ result[w] \in Result /\ result[w].status \in ResultStatus
        /\ result[w].status # "pass" /\ result[w].code # "REVIEW_PASSED"
    BY <2>1 DEF TypeOK, VerdictInv, Result
  <2> DEFINE r == AutofixResult(result[w], applied, verify_failed)
  <2>4. r \in Result /\ r.status # "pass" /\ r.code # "REVIEW_PASSED"
    <3>1. /\ "rejected" \in ResultStatus
          /\ {"PATCH_ROLLBACK", "PATCH_APPLIED"} \subseteq ResultCodes
      BY DEF ResultStatus, ResultCodes
    <3> QED
      BY <2>3, <3>1, DeliveredType DEF AutofixResult
  <2> HIDE DEF r
  <2> QED
    BY <2>1, <2>2, <2>4, GoToType, ReturnsType, NoPassIsEarned DEF r
<1> QED
  BY <1>1, <1>2, <1>3, <1>4, <1>5, <1>6, <1>7, <1>8, <1>9, <1>10, <1>11, <1>12,
     <1>13, <1>14, <1>15 DEF Step

\* A step of one run leaves the local variables of every other run alone, and
\* no step changes an argument.
LEMMA StepFrame ==
    ASSUME TypeOK, NEW w \in Runs, Submit(w) \/ Step(w)
    PROVE  /\ req' = req
           /\ \A v \in Runs \ {w} :
                /\ pc'[v] = pc[v] /\ persisted'[v] = persisted[v]
                /\ decisions'[v] = decisions[v] /\ llm'[v] = llm[v]
                /\ result'[v] = result[v] /\ marked'[v] = marked[v]
<1> USE DEF TypeOK, GoTo, Returns, Raise, Advance
<1>1. CASE Submit(w) \/ CreateRequest(w) \/ handle_duplicate_request(w)
  BY <1>1 DEF Submit, CreateRequest, handle_duplicate_request
<1>2. CASE CreateRaises(w) \/ TransitionFails(w) \/ CollaboratorRaises(w)
  BY <1>2 DEF CreateRaises, StoreRaises, TransitionFails, AdvanceRaises,
              CollaboratorRaises
<1>3. CASE allow_new_job(w) \/ ResourceReject(w) \/ PolicyReject(w) \/ PolicyAccept(w)
  BY <1>3 DEF allow_new_job, ResourceReject, PolicyReject, PolicyAccept
<1>4. CASE BuildContext(w) \/ RunAgent(w) \/ CollectDecisions(w) \/ Decide(w)
  BY <1>4 DEF BuildContext, RunAgent, CollectDecisions, Decide
<1>5. CASE LlmReview(w) \/ ProposePatch(w) \/ AutoFix(w) \/ AutoFixUnbound(w)
  BY <1>5 DEF LlmReview, ProposePatch, AutoFix, AutoFixUnbound
<1>6. CASE \/ record_failure_transition(w) \/ FailureNotRecorded(w)
           \/ MarkTerminal(w) \/ MarkTerminalFails(w) \/ Publish(w)
  BY <1>6 DEF record_failure_transition, FailureNotRecorded, MarkTerminal,
              MarkTerminalFails, Publish
<1> QED
  BY <1>1, <1>2, <1>3, <1>4, <1>5, <1>6 DEF Step

\* Every step keeps every REVIEW_PASSED earned.
LEMMA VerdictNext ==
    ASSUME IInv, \A w \in Runs : VerdictInv(w), [Next]_vars
    PROVE  \A w \in Runs : VerdictInv(w)'
<1>1. ASSUME NEW w \in Runs, Submit(w) \/ Step(w), NEW v \in Runs
      PROVE  VerdictInv(v)'
  <2>1. CASE v = w
    BY <1>1, <2>1, VerdictStepInv
  <2>2. CASE v # w
    BY <1>1, <2>2, StepFrame, VerdictFrame DEF IInv
  <2> QED
    BY <2>1, <2>2
<1>2. ASSUME NEW p \in Procs, Crash(p), NEW v \in Runs
      PROVE  VerdictInv(v)'
  <2>1. UNCHANGED <<req, persisted, decisions, llm, result>>
    BY <1>2 DEF Crash
  <2>2. pc'[v] = pc[v] \/ pc'[v] = "crashed"
    BY <1>2 DEF Crash
  <2>3. CASE pc'[v] = "crashed"
    BY <2>3 DEF VerdictInv
  <2> QED
    BY <2>1, <2>2, <2>3, VerdictFrame
<1>3. ASSUME UNCHANGED <<store, locals>>, NEW v \in Runs
      PROVE  VerdictInv(v)'
  BY <1>3, VerdictFrame DEF locals
<1>4. ASSUME NEW p \in Procs, NEW f \in Files, WindowExpires(p, f)
      PROVE  UNCHANGED <<store, locals>>
  BY <1>4 DEF WindowExpires
<1>5. CASE UNCHANGED vars
  BY <1>3, <1>5 DEF vars, locals
<1> QED
  BY <1>1, <1>2, <1>3, <1>4, <1>5 DEF Next

\* A passing result rests on a complete review without a reject.
THEOREM FailClosed == Spec => []PassIsEarned
<1> DEFINE V == \A w \in Runs : VerdictInv(w)
<1>1. Init => V
  BY DEF Init, VerdictInv
<1>2. IInv /\ V /\ [Next]_vars => V'
  BY VerdictNext
<1>3. V => PassIsEarned
  BY DEF VerdictInv, PassIsEarned
<1> HIDE DEF V
<1> QED
  BY <1>1, <1>2, <1>3, InvariantHolds, PTL DEF Spec

-----------------------------------------------------------------------------
(* The orchestrator implements ReviewLedger: every step of Orchestrator is *)
(* a step of the ledger or leaves the ledger alone.                        *)

\* Only Publish returns, and it is the last step of a run.
LEMMA NotReturned ==
    ASSUME TypeOK, NEW w \in Runs, Submit(w) \/ Step(w), ~Publish(w)
    PROVE  pc[w] # "returned" /\ pc'[w] # "returned"
<1> USE DEF TypeOK, GoTo, Raise, Advance
<1>1. CASE Submit(w) \/ CreateRequest(w) \/ handle_duplicate_request(w)
  BY <1>1 DEF Submit, CreateRequest, handle_duplicate_request
<1>2. CASE CreateRaises(w) \/ TransitionFails(w) \/ CollaboratorRaises(w)
  BY <1>2 DEF CreateRaises, StoreRaises, TransitionFails, AdvanceRaises,
              CollaboratorRaises
<1>3. CASE allow_new_job(w) \/ ResourceReject(w) \/ PolicyReject(w) \/ PolicyAccept(w)
  BY <1>3 DEF allow_new_job, ResourceReject, PolicyReject, PolicyAccept
<1>4. CASE BuildContext(w) \/ RunAgent(w) \/ CollectDecisions(w) \/ Decide(w)
  BY <1>4 DEF BuildContext, RunAgent, CollectDecisions, Decide
<1>5. CASE LlmReview(w) \/ ProposePatch(w) \/ AutoFix(w) \/ AutoFixUnbound(w)
  BY <1>5 DEF LlmReview, ProposePatch, AutoFix, AutoFixUnbound, AfterVerdict
<1>6. CASE \/ record_failure_transition(w) \/ FailureNotRecorded(w)
           \/ MarkTerminal(w) \/ MarkTerminalFails(w)
  BY <1>6 DEF record_failure_transition, FailureNotRecorded, MarkTerminal,
              MarkTerminalFails
<1> QED
  BY <1>1, <1>2, <1>3, <1>4, <1>5, <1>6 DEF Step

\* Once a row is inserted, a step changes the state of no row but the one its
\* run owns.
LEMMA OwnRowOnly ==
    ASSUME IInv, NEW w \in Runs, Submit(w) \/ Step(w), ~CreateRequest(w)
    PROVE  /\ persisted' = persisted
           /\ \/ state' = state
              \/ /\ persisted[w]
                 /\ \E s \in ReviewState : state' = [state EXCEPT ![req[w].id] = s]
<1>1. CASE Submit(w) \/ handle_duplicate_request(w) \/ CreateRaises(w)
  BY <1>1 DEF Submit, handle_duplicate_request, CreateFindsDuplicate, CreateRaises,
              StoreRaises, StoreDown, store
<1>2. CASE \/ allow_new_job(w) \/ ResourceReject(w) \/ RunAgent(w)
           \/ TransitionFails(w) \/ CollaboratorRaises(w)
  BY <1>2 DEF allow_new_job, ResourceReject, RunAgent, TransitionFails,
              AdvanceRaises, CollaboratorRaises, StoreDown, store
<1>3. CASE \/ Decide(w) \/ LlmReview(w) \/ ProposePatch(w) \/ AutoFix(w)
           \/ AutoFixUnbound(w) \/ FailureNotRecorded(w)
           \/ MarkTerminalFails(w) \/ Publish(w)
  BY <1>3 DEF Decide, LlmReview, ProposePatch, AutoFix, AutoFixUnbound,
              FailureNotRecorded, MarkTerminalFails, StoreDown, Publish, store
<1>4. CASE PolicyReject(w) \/ PolicyAccept(w) \/ BuildContext(w) \/ CollectDecisions(w)
  <2>1. pc[w] \in Pipeline
    BY <1>4 DEF PolicyReject, PolicyAccept, BuildContext, CollectDecisions, Pipeline
  <2>2. persisted[w]
    BY <2>1, PipelineFacts
  <2> QED
    BY <1>4, <2>2 DEF PolicyReject, PolicyAccept, BuildContext, CollectDecisions,
                      Advance, transition_state, ReviewState
<1>5. CASE record_failure_transition(w)
  <2>1. result[w].state \in ReviewState /\ persisted[w]
    BY <1>5 DEF record_failure_transition, RecordsFailure, IInv, RunInv, ProgressInv,
                ReviewState
  <2> QED
    BY <1>5, <2>1 DEF record_failure_transition, transition_state
<1>6. CASE MarkTerminal(w)
  <2>1. result[w].state \in ReviewState /\ persisted[w]
    BY <1>6 DEF MarkTerminal, IInv, RunInv, ControlInv, ProgressInv, TerminalStates,
                ReviewState
  <2> QED
    BY <1>6, <2>1 DEF MarkTerminal, mark_terminal
<1> QED
  BY <1>1, <1>2, <1>3, <1>4, <1>5, <1>6 DEF Step

-----------------------------------------------------------------------------
(* A run is turned away only for a change that somebody owns.              *)

\* An ignored INSERT means that a run owns the request id or the key.
LEMMA IgnoredHasOwner ==
    ASSUME IInv, NEW w \in Runs, InsertIgnored(req[w])
    PROVE  \E v \in Runs :
              /\ persisted[v]
              /\ req[v].id = req[w].id \/ req[v].key = req[w].key
<1>0. req[w].id \in Ids /\ req[w].key \in Keys
  BY RequestFields DEF IInv, TypeOK
<1>1. CASE state[req[w].id] # Absent
  BY <1>0, <1>1 DEF IInv, HasOwner
<1>2. ASSUME NEW i \in Ids, keyOf[i] = req[w].key
      PROVE  \E v \in Runs : persisted[v] /\ req[v].key = req[w].key
  <2>1. state[i] # Absent
    BY <1>0, <1>2, NoKeyAssumption DEF IInv, KeyUnique
  <2>2. PICK v \in Runs : persisted[v] /\ req[v].id = i
    BY <2>1 DEF IInv, HasOwner
  <2>3. req[v].key = keyOf[i]
    BY <2>2 DEF IInv, RunInv, RowInv
  <2> QED
    BY <1>2, <2>2, <2>3
<1> QED
  BY <1>1, <1>2 DEF InsertIgnored

\* A run that owns a row keeps owning it.
LEMMA PersistedGrows ==
    ASSUME IInv, [Next]_vars
    PROVE  req' = req /\ \A v \in Runs : persisted[v] => persisted'[v]
<1>1. ASSUME NEW w \in Runs, Submit(w) \/ Step(w)
      PROVE  req' = req /\ \A v \in Runs : persisted[v] => persisted'[v]
  <2>1. CASE CreateRequest(w)
    BY <2>1 DEF CreateRequest, IInv, TypeOK
  <2>2. CASE ~CreateRequest(w)
    BY <1>1, <2>2, OwnRowOnly, StepFrame DEF IInv
  <2> QED
    BY <2>1, <2>2
<1>2. ASSUME NEW p \in Procs, Crash(p) PROVE UNCHANGED <<req, persisted>>
  BY <1>2 DEF Crash
<1>3. ASSUME NEW p \in Procs, NEW f \in Files, WindowExpires(p, f)
      PROVE  UNCHANGED <<req, persisted>>
  BY <1>3 DEF WindowExpires, locals
<1>4. CASE UNCHANGED vars
  BY <1>4 DEF vars
<1> QED
  BY <1>1, <1>2, <1>3, <1>4 DEF Next

\* The steps of the run itself.
LEMMA TurnAwayStep ==
    ASSUME IInv, NEW w \in Runs, TurnAwayInv(w), Submit(w) \/ Step(w),
           req' = req, \A v \in Runs : persisted[v] => persisted'[v]
    PROVE  TurnAwayInv(w)'
<1>1. CASE pc'[w] \notin {"fail", "publish"}
  BY <1>1 DEF TurnAwayInv
<1>2. ASSUME NEW code \in FailureCodes, Raise(w, code) PROVE TurnAwayInv(w)'
  BY <1>2, RaiseType, ClassifyFailure DEF IInv, TurnAwayInv
<1>3. CASE CreateRaises(w) \/ TransitionFails(w) \/ AutoFixUnbound(w)
  BY <1>2, <1>3
     DEF CreateRaises, StoreRaises, TransitionFails, AdvanceRaises, AutoFixUnbound,
         FailureCodes
<1>4. CASE CollaboratorRaises(w)
  BY <1>2, <1>4 DEF CollaboratorRaises
<1>5. CASE handle_duplicate_request(w)
  <2>1. InsertIgnored(req[w])
    BY <1>5 DEF handle_duplicate_request, CreateFindsDuplicate
  <2>2. pc'[w] = "publish"
    BY <1>5, GoToType DEF handle_duplicate_request, IInv, PcValues
  <2> QED
    BY <2>1, <2>2, IgnoredHasOwner DEF TurnAwayInv
<1>6. CASE FailureNotRecorded(w)
  <2>1. pc[w] = "fail" /\ result' = result
    BY <1>6 DEF FailureNotRecorded
  <2> QED
    BY <2>1 DEF TurnAwayInv
<1>7. CASE MarkTerminal(w) \/ MarkTerminalFails(w)
  <2>1. /\ pc[w] = "mark" /\ persisted' = persisted
        /\ GoTo(w, "publish") /\ "publish" \in PcValues
    BY <1>7 DEF MarkTerminal, MarkTerminalFails, PcValues
  <2>2. persisted[w] /\ pc'[w] = "publish"
    BY <2>1, GoToType DEF IInv, RunInv, ControlInv
  <2> QED
    BY <2>1, <2>2 DEF TurnAwayInv
<1>8. CASE Submit(w) \/ CreateRequest(w) \/ allow_new_job(w) \/ ResourceReject(w)
  BY <1>1, <1>8 DEF Submit, CreateRequest, allow_new_job, ResourceReject, GoTo,
                    IInv, TypeOK
<1>9. CASE \/ PolicyReject(w) \/ PolicyAccept(w) \/ BuildContext(w)
           \/ RunAgent(w) \/ CollectDecisions(w)
  BY <1>1, <1>9 DEF PolicyReject, PolicyAccept, BuildContext, RunAgent,
                    CollectDecisions, Advance, GoTo, IInv, TypeOK
<1>10. CASE \/ Decide(w) \/ LlmReview(w) \/ ProposePatch(w) \/ AutoFix(w)
            \/ record_failure_transition(w) \/ Publish(w)
  BY <1>1, <1>10 DEF Decide, LlmReview, ProposePatch, AutoFix, AfterVerdict,
                     record_failure_transition, Publish, GoTo, IInv, TypeOK
<1> QED
  BY <1>3, <1>4, <1>5, <1>6, <1>7, <1>8, <1>9, <1>10 DEF Step

\* Every step keeps what is known of runs turned away as duplicates.
LEMMA TurnAwayNext ==
    ASSUME IInv, \A w \in Runs : TurnAwayInv(w), [Next]_vars
    PROVE  \A w \in Runs : TurnAwayInv(w)'
<1>0. req' = req /\ \A v \in Runs : persisted[v] => persisted'[v]
  BY PersistedGrows
<1>a. ASSUME NEW v \in Runs, pc'[v] = pc[v] \/ pc'[v] = "crashed",
             persisted'[v] = persisted[v], result'[v] = result[v]
      PROVE  TurnAwayInv(v)'
  BY <1>0, <1>a DEF TurnAwayInv
<1>1. ASSUME NEW w \in Runs, Submit(w) \/ Step(w), NEW v \in Runs
      PROVE  TurnAwayInv(v)'
  <2>1. CASE v = w
    BY <1>0, <1>1, <2>1, TurnAwayStep
  <2>2. CASE v # w
    BY <1>1, <1>a, <2>2, StepFrame DEF IInv
  <2> QED
    BY <2>1, <2>2
<1>2. ASSUME NEW p \in Procs, Crash(p), NEW v \in Runs PROVE TurnAwayInv(v)'
  BY <1>2, <1>a DEF Crash
<1>3. ASSUME NEW p \in Procs, NEW f \in Files, WindowExpires(p, f), NEW v \in Runs
      PROVE  TurnAwayInv(v)'
  BY <1>3, <1>a DEF WindowExpires, locals
<1>4. ASSUME UNCHANGED vars, NEW v \in Runs PROVE TurnAwayInv(v)'
  BY <1>4, <1>a DEF vars
<1> QED
  BY <1>1, <1>2, <1>3, <1>4 DEF Next

-----------------------------------------------------------------------------
(* The steps of the ledger.                                                *)

\* What a run settled depends on its row; what it answered on its return.
LEMMA LedgerFrame ==
    ASSUME NEW v \in Runs, req' = req, persisted'[v] = persisted[v],
           persisted[v] => state'[req[v].id] = state[req[v].id]
    PROVE  /\ LedgerSettled'[v] = LedgerSettled[v]
           /\ /\ pc'[v] = "returned" <=> pc[v] = "returned"
              /\ pc[v] = "returned" => result'[v] = result[v]
              => LedgerAnswer'[v] = LedgerAnswer[v]
<1>1. LedgerSettled'[v] = LedgerSettled[v]
  BY DEF LedgerSettled
<1>2. ASSUME pc'[v] = "returned" <=> pc[v] = "returned",
             pc[v] = "returned" => result'[v] = result[v]
      PROVE  LedgerAnswer'[v] = LedgerAnswer[v]
  BY <1>2 DEF LedgerAnswer
<1> QED
  BY <1>1, <1>2

\* Functions over the runs that agree everywhere are equal.
LEMMA LedgerFunctions ==
    /\ LedgerSettled = [w \in Runs |-> LedgerSettled[w]]
    /\ LedgerSettled' = [w \in Runs |-> LedgerSettled'[w]]
    /\ LedgerAnswer = [w \in Runs |-> LedgerAnswer[w]]
    /\ LedgerAnswer' = [w \in Runs |-> LedgerAnswer'[w]]
BY DEF LedgerSettled, LedgerAnswer

\* create_request claims the change.
LEMMA ClaimStep ==
    ASSUME IInv, NEW w \in Runs, CreateRequest(w)
    PROVE  Ledger!Claim(w)
<1>1. /\ pc[w] = "create" /\ ~persisted[w] /\ req' = req /\ result' = result
      /\ persisted' = [persisted EXCEPT ![w] = TRUE]
      /\ pc'[w] = "admit"
      /\ \A v \in Runs \ {w} : pc'[v] = pc[v]
  BY GoToType DEF CreateRequest, IInv, RunInv, ControlInv, PcValues
<1>2. /\ req[w].id \in Ids /\ state[req[w].id] = Absent
      /\ \A i \in Ids : keyOf[i] # req[w].key
      /\ state' = [state EXCEPT ![req[w].id] = "QUEUED"]
  BY RequestFields DEF CreateRequest, CreateInserts, InsertIgnored, IInv, TypeOK
<1>3. ASSUME NEW v \in Runs, persisted[v]
      PROVE  /\ req[v].id # req[w].id /\ req[v].key # req[w].key
             /\ state'[req[v].id] = state[req[v].id]
  <2>1. req[v].id \in Ids /\ req[v].id # req[w].id /\ req[v].key # req[w].key
    BY <1>2, <1>3, RequestFields DEF IInv, RunInv, RowInv, TypeOK
  <2> QED
    BY <1>2, <2>1 DEF IInv, TypeOK, StoreTypeOK
<1>4. \A v \in LedgerHolders : ~Ledger!Clash(v, w)
  BY <1>3 DEF LedgerHolders, Ledger!Clash
<1>5. LedgerHolders' = LedgerHolders \cup {w}
  BY <1>1 DEF LedgerHolders, IInv, TypeOK
<1>6. LedgerAnswer[w] = "none" /\ LedgerAnswer'[w] = "none"
  BY <1>1 DEF LedgerAnswer
<1>7. LedgerSettled[w] = "none" /\ LedgerSettled'[w] = "none"
  <2>1. state'[req'[w].id] = "QUEUED"
    BY <1>1, <1>2 DEF IInv, TypeOK, StoreTypeOK
  <2> QED
    BY <1>1, <2>1 DEF LedgerSettled, TerminalStates
<1>8. ASSUME NEW v \in Runs
      PROVE  LedgerSettled'[v] = LedgerSettled[v] /\ LedgerAnswer'[v] = LedgerAnswer[v]
  <2>1. CASE v = w
    BY <1>6, <1>7, <2>1
  <2>2. CASE v # w
    <3>1. persisted'[v] = persisted[v]
      BY <1>1, <2>2 DEF IInv, TypeOK
    <3> QED
      BY <1>1, <1>3, <2>2, <3>1, LedgerFrame
  <2> QED
    BY <2>1, <2>2
<1>9. LedgerSettled' = LedgerSettled /\ LedgerAnswer' = LedgerAnswer
  BY <1>8, LedgerFunctions
<1> QED
  BY <1>1, <1>4, <1>5, <1>6, <1>9 DEF Ledger!Claim

\* The return of run_once answers the caller.
LEMMA AnswerStep ==
    ASSUME IInv, NEW w \in Runs, TurnAwayInv(w), Publish(w)
    PROVE  Ledger!Next
<1>1. /\ pc[w] = "publish" /\ pc'[w] = "returned"
      /\ \A v \in Runs \ {w} : pc'[v] = pc[v]
      /\ UNCHANGED <<state, req, persisted, result>>
  BY GoToType DEF Publish, store, IInv, PcValues
<1>2. LedgerHolders' = LedgerHolders
  BY <1>1 DEF LedgerHolders
<1>3. LedgerSettled' = LedgerSettled
  BY <1>1 DEF LedgerSettled
<1>4. LedgerAnswer[w] = "none"
  BY <1>1 DEF LedgerAnswer
<1>5. ASSUME NEW a, LedgerAnswer'[w] = a
      PROVE  LedgerAnswer' = [LedgerAnswer EXCEPT ![w] = a]
  <2>1. \A v \in Runs \ {w} : LedgerAnswer'[v] = LedgerAnswer[v]
    BY <1>1, LedgerFrame
  <2>2. LedgerAnswer' = [v \in Runs |-> IF v = w THEN a ELSE LedgerAnswer[v]]
    BY <1>5, <2>1, LedgerFunctions
  <2> QED
    BY <2>2 DEF LedgerAnswer
<1>6. CASE persisted[w]
  <2> DEFINE s == result[w].state
  <2>1. s \in TerminalStates
    BY <1>1, <1>6 DEF IInv, RunInv, ProgressInv
  <2>2. LedgerSettled[w] \in {s, "none"}
    <3>1. \/ state[req[w].id] = s
          \/ state[req[w].id] \in WorkingStates
      BY <1>1, <1>6 DEF IInv, RunInv, RowInv
    <3> QED
      BY <3>1 DEF LedgerSettled, WorkingStates, TerminalStates
  <2>3. LedgerAnswer'[w] = s
    BY <1>1, <1>6 DEF LedgerAnswer
  <2>4. w \in LedgerHolders
    BY <1>6 DEF LedgerHolders
  <2>5. Ledger!Reply(w, s)
    BY <1>1, <1>2, <1>3, <1>4, <1>5, <2>2, <2>3, <2>4 DEF Ledger!Reply
  <2> QED
    BY <2>1, <2>5 DEF Ledger!Next
<1>7. CASE ~persisted[w] /\ result[w].status = "ignored"
  <2>1. w \notin LedgerHolders
    BY <1>7 DEF LedgerHolders
  <2>2. LedgerAnswer'[w] = "ignored"
    BY <1>1, <1>7 DEF LedgerAnswer
  <2>3. \E v \in LedgerHolders : Ledger!Clash(v, w)
    <3>1. PICK v \in Runs :
            /\ persisted[v]
            /\ req[v].id = req[w].id \/ req[v].key = req[w].key
      BY <1>1, <1>7 DEF TurnAwayInv
    <3>2. v \in LedgerHolders
      BY <3>1 DEF LedgerHolders
    <3>3. Ledger!Clash(v, w)
      BY <3>1 DEF Ledger!Clash
    <3> QED
      BY <3>2, <3>3
  <2>4. Ledger!TurnAway(w)
    BY <1>1, <1>2, <1>3, <1>4, <1>5, <2>1, <2>2, <2>3 DEF Ledger!TurnAway
  <2> QED
    BY <2>4 DEF Ledger!Next
<1>8. CASE ~persisted[w] /\ result[w].status # "ignored"
  <2>1. w \notin LedgerHolders
    BY <1>8 DEF LedgerHolders
  <2>2. LedgerAnswer'[w] = "broken"
    BY <1>1, <1>8 DEF LedgerAnswer
  <2>3. Ledger!Break(w)
    BY <1>1, <1>2, <1>3, <1>4, <1>5, <2>1, <2>2 DEF Ledger!Break
  <2> QED
    BY <2>3 DEF Ledger!Next
<1> QED
  BY <1>6, <1>7, <1>8

\* Every other step of a run settles its own change or changes nothing the
\* ledger sees.
LEMMA SettleStep ==
    ASSUME IInv, [Next]_vars, NEW w \in Runs, Submit(w) \/ Step(w),
           ~CreateRequest(w), ~Publish(w)
    PROVE  [Ledger!Next]_(Ledger!ledger)
<1> DEFINE id == req[w].id
<1>1. /\ req' = req /\ persisted' = persisted
      /\ \/ state' = state
         \/ /\ persisted[w]
            /\ \E s \in ReviewState : state' = [state EXCEPT ![id] = s]
  BY StepFrame, OwnRowOnly DEF IInv
<1>2. /\ pc[w] # "returned" /\ pc'[w] # "returned"
      /\ \A v \in Runs \ {w} : pc'[v] = pc[v] /\ result'[v] = result[v]
  BY NotReturned, StepFrame DEF IInv
<1>3. LedgerHolders' = LedgerHolders
  BY <1>1 DEF LedgerHolders
<1>4. ASSUME NEW v \in Runs, v # w, persisted[v]
      PROVE  state'[req[v].id] = state[req[v].id]
  <2>1. CASE state' = state
    BY <2>1
  <2>2. CASE persisted[w] /\ \E s \in ReviewState : state' = [state EXCEPT ![id] = s]
    <3>1. req[v].id # id /\ req[v].id \in Ids
      BY <1>4, <2>2, RequestFields DEF IInv, OneRunPerChange, TypeOK
    <3> QED
      BY <2>2, <3>1 DEF IInv, TypeOK, StoreTypeOK
  <2> QED
    BY <1>1, <2>1, <2>2
<1>5. LedgerAnswer[w] = "none" /\ LedgerAnswer'[w] = "none"
  BY <1>2 DEF LedgerAnswer
<1>6. ASSUME NEW v \in Runs, v # w
      PROVE  LedgerSettled'[v] = LedgerSettled[v] /\ LedgerAnswer'[v] = LedgerAnswer[v]
  BY <1>1, <1>2, <1>4, <1>6, LedgerFrame
<1>7. LedgerAnswer' = LedgerAnswer
  BY <1>5, <1>6, LedgerFunctions
<1>8. CASE LedgerSettled'[w] = LedgerSettled[w]
  <2>1. LedgerSettled' = LedgerSettled
    BY <1>6, <1>8, LedgerFunctions
  <2> QED
    BY <1>1, <1>3, <1>7, <2>1 DEF Ledger!ledger
<1>9. CASE LedgerSettled'[w] # LedgerSettled[w]
  <2> DEFINE s == LedgerSettled'[w]
  <2>1. id \in Ids
    BY RequestFields DEF IInv, TypeOK
  <2>2. persisted[w]
    BY <1>1, <1>9 DEF LedgerSettled
  <2>3. state[id] \in TerminalStates => state'[id] = state[id]
    BY <2>1, RowChanges DEF TerminalStates, WorkingStates, Absent
  <2>4. LedgerSettled[w] = "none" /\ s \in TerminalStates
    BY <1>1, <1>9, <2>2, <2>3 DEF LedgerSettled
  <2>5. LedgerSettled' = [LedgerSettled EXCEPT ![w] = s]
    <3>1. LedgerSettled' = [v \in Runs |-> IF v = w THEN s ELSE LedgerSettled[v]]
      BY <1>6, LedgerFunctions
    <3> QED
      BY <3>1 DEF LedgerSettled
  <2>6. w \in LedgerHolders
    BY <2>2 DEF LedgerHolders
  <2>7. Ledger!Settle(w, s)
    BY <1>1, <1>3, <1>5, <1>7, <2>4, <2>5, <2>6 DEF Ledger!Settle
  <2> QED
    BY <2>4, <2>7 DEF Ledger!Next
<1> QED
  BY <1>8, <1>9

\* Every step of the orchestrator is a step of the ledger or a stutter.
LEMMA LedgerStep ==
    ASSUME IInv, \A w \in Runs : TurnAwayInv(w), [Next]_vars
    PROVE  [Ledger!Next]_(Ledger!ledger)
<1>1. ASSUME NEW w \in Runs, Submit(w) \/ Step(w)
      PROVE  [Ledger!Next]_(Ledger!ledger)
  <2>1. CASE CreateRequest(w)
    BY <2>1, ClaimStep DEF Ledger!Next
  <2>2. CASE Publish(w)
    BY <2>2, AnswerStep
  <2>3. CASE ~CreateRequest(w) /\ ~Publish(w)
    BY <1>1, <2>3, SettleStep
  <2> QED
    BY <2>1, <2>2, <2>3
<1>2. ASSUME UNCHANGED <<state, req, persisted, result>>,
             \A v \in Runs : pc'[v] = "returned" <=> pc[v] = "returned"
      PROVE  UNCHANGED Ledger!ledger
  <2>1. \A v \in Runs : /\ LedgerSettled'[v] = LedgerSettled[v]
                        /\ LedgerAnswer'[v] = LedgerAnswer[v]
    BY <1>2, LedgerFrame
  <2>2. LedgerSettled' = LedgerSettled /\ LedgerAnswer' = LedgerAnswer
    BY <2>1, LedgerFunctions
  <2> QED
    BY <1>2, <2>2 DEF Ledger!ledger, LedgerHolders
<1>3. ASSUME NEW p \in Procs, Crash(p) PROVE UNCHANGED Ledger!ledger
  BY <1>2, <1>3 DEF Crash, Running, store
<1>4. ASSUME NEW p \in Procs, NEW f \in Files, WindowExpires(p, f)
      PROVE  UNCHANGED Ledger!ledger
  BY <1>2, <1>4 DEF WindowExpires, locals, store
<1>5. CASE UNCHANGED vars
  BY <1>2, <1>5 DEF vars, store
<1> QED
  BY <1>1, <1>3, <1>4, <1>5 DEF Next

\* The pipeline, with all its interleavings, failures and crashes, implements
\* the ledger.
THEOREM ImplementsLedger == Spec => LedgerSpec
<1> DEFINE T == \A w \in Runs : TurnAwayInv(w)
<1>1. Init => T
  BY DEF Init, TurnAwayInv
<1>2. IInv /\ T /\ [Next]_vars => T'
  BY TurnAwayNext
<1>3. Init => Ledger!Init
  <2> SUFFICES ASSUME Init PROVE Ledger!Init
    OBVIOUS
  <2>1. LedgerHolders = {}
    BY DEF Init, LedgerHolders
  <2>2. LedgerSettled = [w \in Runs |-> "none"] /\ LedgerAnswer = [w \in Runs |-> "none"]
    BY DEF Init, LedgerSettled, LedgerAnswer
  <2> QED
    BY <2>1, <2>2 DEF Init, Ledger!Init
<1>4. IInv /\ T /\ [Next]_vars => [Ledger!Next]_(Ledger!ledger)
  BY LedgerStep
<1> HIDE DEF T
<1> QED
  BY <1>1, <1>2, <1>3, <1>4, InvariantHolds, PTL DEF Spec, LedgerSpec, Ledger!Spec

-----------------------------------------------------------------------------
(* run_once has no loop but the one over the agents.                       *)

\* The steps a run has left at most: of the code after the agents, and before.
StepsAfter ==
    [label \in PcValues |->
        CASE label \in {"returned", "crashed"} -> 0
          [] label = "publish" -> 1
          [] label = "mark"    -> 2
          [] label = "fail"    -> 3
          [] label = "autofix" -> 4
          [] label \in {"l3", "patch"} -> 5
          [] label = "decide"  -> 6
          [] label = "agents"  -> 7
          [] label = "context" -> 8
          [] label = "policy"  -> 9
          [] label = "admit"   -> 10
          [] label = "create"  -> 11
          [] label = "idle"    -> 12]
BeforeVerdict == {"idle", "create", "admit", "policy", "context", "agents"}
StepsLeft(w) ==
    StepsAfter[pc[w]]
    + IF pc[w] \in BeforeVerdict THEN total_agents(w) - Len(decisions[w]) ELSE 0

\* No agent is asked twice.
AgentBound == \A w \in Runs : Len(decisions[w]) <= total_agents(w)

\* A step that moves a run brings it closer to its end.
MovesOn ==
    \A w \in Runs : pc'[w] # pc[w] \/ decisions'[w] # decisions[w]
                        => StepsLeft(w)' < StepsLeft(w)

\* The numbers of agents.
LEMMA AgentNumbers ==
    ASSUME TypeOK, NEW w \in Runs
    PROVE  total_agents(w) \in Nat /\ Len(decisions[w]) \in Nat /\ pc[w] \in PcValues
BY RequestFields, ParametersAssumption DEF TypeOK, total_agents

\* The table of steps, label by label.
LEMMA StepsAfterIs ==
    /\ StepsAfter["returned"] = 0 /\ StepsAfter["crashed"] = 0
    /\ StepsAfter["publish"] = 1 /\ StepsAfter["mark"] = 2 /\ StepsAfter["fail"] = 3
    /\ StepsAfter["autofix"] = 4 /\ StepsAfter["l3"] = 5 /\ StepsAfter["patch"] = 5
    /\ StepsAfter["decide"] = 6 /\ StepsAfter["agents"] = 7 /\ StepsAfter["context"] = 8
    /\ StepsAfter["policy"] = 9 /\ StepsAfter["admit"] = 10 /\ StepsAfter["create"] = 11
    /\ StepsAfter["idle"] = 12
BY DEF StepsAfter, PcValues

\* How a step moves the run that makes it: along the code, or to the next agent.
Along(from, to) ==
    /\ StepsAfter[to] < StepsAfter[from]
    /\ to \in BeforeVerdict => from \in BeforeVerdict

LEMMA StepMoves ==
    ASSUME TypeOK, TypeOK', NEW w \in Runs, Submit(w) \/ Step(w)
    PROVE  /\ UNCHANGED req
           /\ \A v \in Runs \ {w} : pc'[v] = pc[v] /\ decisions'[v] = decisions[v]
           /\ \/ Along(pc[w], pc'[w]) /\ decisions'[w] = decisions[w]
              \/ /\ pc[w] = "agents" /\ pc'[w] = "agents"
                 /\ Len(decisions[w]) < total_agents(w)
                 /\ Len(decisions'[w]) = Len(decisions[w]) + 1
<1> USE DEF TypeOK, GoTo, Raise, Advance
<1> DEFINE Moves(to) == /\ pc' = [pc EXCEPT ![w] = to] /\ Along(pc[w], to)
                        /\ UNCHANGED <<req, decisions>>
<1>0. SUFFICES \/ \E to \in PcValues : Moves(to)
               \/ RunAgent(w)
  <2>1. CASE \E to \in PcValues : Moves(to)
    BY <2>1
  <2>2. CASE RunAgent(w)
    <3>1. PICK s \in AgentStatus : decisions' = [decisions EXCEPT ![w] = Append(@, s)]
      BY <2>2 DEF RunAgent
    <3>2. decisions[w] \in Seq(AgentStatus)
      OBVIOUS
    <3>3. Len(Append(decisions[w], s)) = Len(decisions[w]) + 1
      BY <3>2
    <3> QED
      BY <2>2, <3>1, <3>3 DEF RunAgent
  <2> QED
    BY <2>1, <2>2
<1>1. CASE Submit(w)
  BY <1>1, StepsAfterIs DEF Submit, Along, BeforeVerdict, PcValues
<1>2. CASE CreateRequest(w) \/ handle_duplicate_request(w) \/ CreateRaises(w)
  BY <1>2, StepsAfterIs DEF CreateRequest, handle_duplicate_request, CreateRaises,
     StoreRaises, Along, BeforeVerdict, PcValues
<1>3. CASE allow_new_job(w) \/ ResourceReject(w)
  BY <1>3, StepsAfterIs DEF allow_new_job, ResourceReject, Along, BeforeVerdict, PcValues
<1>4. CASE PolicyReject(w) \/ PolicyAccept(w) \/ BuildContext(w) \/ CollectDecisions(w)
  BY <1>4, StepsAfterIs DEF PolicyReject, PolicyAccept, BuildContext, CollectDecisions,
     Along, BeforeVerdict, PcValues
<1>5. CASE TransitionFails(w)
  BY <1>5, StepsAfterIs DEF TransitionFails, AdvanceRaises, Along, BeforeVerdict, PcValues
<1>6. CASE CollaboratorRaises(w)
  BY <1>6, StepsAfterIs DEF CollaboratorRaises, Along, BeforeVerdict, PcValues
<1>7. CASE Decide(w)
  <2>1. PICK to \in {"l3", "patch", "mark"} : pc' = [pc EXCEPT ![w] = to]
    BY <1>7 DEF Decide
  <2>2. pc[w] = "decide" /\ UNCHANGED <<req, decisions>>
    BY <1>7 DEF Decide
  <2>3. Along("decide", to)
    BY StepsAfterIs DEF Along, BeforeVerdict
  <2> QED
    BY <2>1, <2>2, <2>3 DEF PcValues
<1>8. CASE LlmReview(w) \/ ProposePatch(w)
  BY <1>8, StepsAfterIs DEF LlmReview, ProposePatch, AfterVerdict, Along, BeforeVerdict, PcValues
<1>9. CASE AutoFix(w) \/ AutoFixUnbound(w)
  BY <1>9, StepsAfterIs DEF AutoFix, AutoFixUnbound, Along, BeforeVerdict, PcValues
<1>10. CASE record_failure_transition(w) \/ FailureNotRecorded(w)
  BY <1>10, StepsAfterIs DEF record_failure_transition, FailureNotRecorded, Along,
     BeforeVerdict, PcValues
<1>11. CASE MarkTerminal(w) \/ MarkTerminalFails(w) \/ Publish(w)
  BY <1>11, StepsAfterIs DEF MarkTerminal, MarkTerminalFails, Publish, Along, BeforeVerdict,
     PcValues
<1> QED
  BY <1>1, <1>2, <1>3, <1>4, <1>5, <1>6, <1>7, <1>8, <1>9, <1>10, <1>11 DEF Step

\* Every step moves on, and asks no more agents than were selected.
LEMMA StepsShrink == TypeOK /\ TypeOK' /\ AgentBound /\ [Next]_vars => AgentBound' /\ MovesOn
<1> SUFFICES ASSUME TypeOK, TypeOK', AgentBound, [Next]_vars PROVE AgentBound' /\ MovesOn
  OBVIOUS
<1>1. \A v \in Runs : /\ total_agents(v) \in Nat /\ Len(decisions[v]) \in Nat
                      /\ pc[v] \in PcValues /\ Len(decisions[v]) <= total_agents(v)
  BY AgentNumbers DEF AgentBound
<1>2. UNCHANGED req => \A v \in Runs : total_agents(v)' = total_agents(v)
  BY DEF total_agents
<1>3. ASSUME NEW w \in Runs, Submit(w) \/ Step(w) PROVE AgentBound' /\ MovesOn
  <2>1. /\ UNCHANGED req
        /\ \A v \in Runs \ {w} : pc'[v] = pc[v] /\ decisions'[v] = decisions[v]
        /\ \/ Along(pc[w], pc'[w]) /\ decisions'[w] = decisions[w]
           \/ /\ pc[w] = "agents" /\ pc'[w] = "agents"
              /\ Len(decisions[w]) < total_agents(w)
              /\ Len(decisions'[w]) = Len(decisions[w]) + 1
    BY <1>3, StepMoves
  <2>2. AgentBound'
    BY <1>1, <1>2, <2>1 DEF AgentBound
  <2>3. StepsLeft(w)' < StepsLeft(w)
    <3> DEFINE n == total_agents(w) - Len(decisions[w])
    <3>1. n \in Nat
      BY <1>1
    <3>2. \A l \in PcValues : StepsAfter[l] \in Nat
      BY StepsAfterIs DEF PcValues
    <3>3. pc[w] \in PcValues /\ pc'[w] \in PcValues
      BY DEF TypeOK
    <3>4. CASE Along(pc[w], pc'[w]) /\ decisions'[w] = decisions[w]
      <4>1. StepsLeft(w)' = StepsAfter[pc'[w]] + IF pc'[w] \in BeforeVerdict THEN n ELSE 0
        BY <1>2, <2>1, <3>4 DEF StepsLeft
      <4>2. StepsLeft(w) = StepsAfter[pc[w]] + IF pc[w] \in BeforeVerdict THEN n ELSE 0
        BY DEF StepsLeft
      <4> HIDE DEF n
      <4> QED
        BY <3>1, <3>2, <3>3, <3>4, <4>1, <4>2 DEF Along
    <3>5. CASE /\ pc[w] = "agents" /\ pc'[w] = "agents"
               /\ Len(decisions[w]) < total_agents(w)
               /\ Len(decisions'[w]) = Len(decisions[w]) + 1
      BY <1>1, <1>2, <2>1, <3>2, <3>3, <3>5 DEF StepsLeft, BeforeVerdict
    <3> QED
      BY <2>1, <3>4, <3>5
  <2> QED
    BY <2>1, <2>2, <2>3 DEF MovesOn
<1>4. ASSUME NEW p \in Procs, Crash(p) PROVE AgentBound' /\ MovesOn
  <2>1. /\ UNCHANGED <<req, decisions>>
        /\ \A v \in Runs : pc'[v] # pc[v] =>
              pc'[v] = "crashed" /\ pc[v] \notin {"idle", "returned", "crashed"}
    BY <1>4 DEF Crash, Running
  <2>2. AgentBound'
    BY <1>1, <1>2, <2>1 DEF AgentBound
  <2>3. ASSUME NEW v \in Runs, pc'[v] # pc[v] PROVE StepsLeft(v)' < StepsLeft(v)
    <3>1. StepsLeft(v)' = 0
      BY <2>1, <2>3, StepsAfterIs DEF StepsLeft, BeforeVerdict
    <3>2. StepsAfter[pc[v]] \in Nat /\ StepsAfter[pc[v]] > 0
      <4>1. \A l \in PcValues \ {"idle", "returned", "crashed"} : StepsAfter[l] \in 1 .. 12
        BY StepsAfterIs DEF PcValues
      <4>2. pc[v] \in PcValues \ {"idle", "returned", "crashed"}
        BY <1>1, <2>1, <2>3
      <4>3. StepsAfter[pc[v]] \in 1 .. 12
        BY <4>1, <4>2, Zenon
      <4> QED
        BY <4>3
    <3>3. StepsLeft(v) > 0
      BY <1>1, <3>2 DEF StepsLeft
    <3> QED
      BY <3>1, <3>3
  <2> QED
    BY <2>1, <2>2, <2>3 DEF MovesOn
<1>5. CASE UNCHANGED <<pc, req, decisions>>
  BY <1>5 DEF MovesOn, AgentBound, total_agents
<1> QED
  BY <1>3, <1>4, <1>5 DEF Next, WindowExpires, locals, vars

\* A call of run_once is short: every step it makes brings it closer to its
\* return, no exception leads back, and no agent is asked twice.  With this,
\* EveryRunReturns fails only if a run can get stuck.
THEOREM RunsAreShort ==
    Spec => /\ [](\A w \in Runs : StepsLeft(w) \in 0 .. 12 + total_agents(w))
            /\ [][MovesOn]_vars
<1>1. Init => AgentBound
  <2> SUFFICES ASSUME Init, NEW w \in Runs PROVE Len(decisions[w]) <= total_agents(w)
    BY DEF AgentBound
  <2>1. total_agents(w) \in Nat
    BY RequestFields, ParametersAssumption DEF Init, total_agents
  <2> QED
    BY <2>1 DEF Init
<1>2. TypeOK /\ AgentBound => \A w \in Runs : StepsLeft(w) \in 0 .. 12 + total_agents(w)
  <2> SUFFICES ASSUME TypeOK, AgentBound, NEW w \in Runs
               PROVE  StepsLeft(w) \in 0 .. 12 + total_agents(w)
    OBVIOUS
  <2>1. \A l \in PcValues : StepsAfter[l] \in 0 .. 12
    BY StepsAfterIs DEF PcValues
  <2>2. /\ total_agents(w) \in Nat /\ Len(decisions[w]) \in Nat /\ pc[w] \in PcValues
        /\ Len(decisions[w]) <= total_agents(w)
    BY AgentNumbers DEF AgentBound
  <2>3. StepsAfter[pc[w]] \in 0 .. 12
    BY <2>1, <2>2, Zenon
  <2>4. StepsLeft(w) = StepsAfter[pc[w]]
          \/ StepsLeft(w) = StepsAfter[pc[w]] + (total_agents(w) - Len(decisions[w]))
    <3>1. StepsAfter[pc[w]] + 0 = StepsAfter[pc[w]]
      BY <2>3
    <3> QED
      BY <3>1 DEF StepsLeft
  <2> DEFINE a == StepsAfter[pc[w]]
             m == total_agents(w)
             l == Len(decisions[w])
             x == StepsLeft(w)
  <2>5. a \in 0 .. 12 /\ m \in Nat /\ l \in Nat /\ l <= m /\ (x = a \/ x = a + (m - l))
    BY <2>2, <2>3, <2>4
  <2>6. x \in 0 .. 12 + m
    <3> HIDE DEF a, m, l, x
    <3> QED
      BY <2>5
  <2> QED
    BY <2>6
<1> QED
  BY <1>1, <1>2, StepsShrink, TypeCorrect, PTL DEF Spec
=============================================================================
