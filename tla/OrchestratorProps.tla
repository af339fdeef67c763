-------------------------- MODULE OrchestratorProps -------------------------
(***************************************************************************)
(* What the concurrent runs of run_once guarantee, and the refinement of   *)
(* ReviewLedger.                                                           *)
(***************************************************************************)
EXTENDS Orchestrator

\* The steps of run_once that are still inside its try block.
Pipeline ==
    {"admit", "policy", "context", "agents", "decide", "l3", "patch", "autofix"}

\* Idempotency: of all runs ever started, at most one gets past create_request
\* for a change (idempotency_key) and at most one for a request_id, however
\* the INSERT OR IGNOREs of different threads and processes interleave, for as
\* long as the database lives (jemmin_cli --staged deletes it: StagedReview).
OneRunPerChange ==
    \A v, w \in Runs :
        persisted[v] /\ persisted[w] /\ v # w
            => req[v].id # req[w].id /\ req[v].key # req[w].key

\* The run's idea of the job (current_state) and the row agree as long as the
\* run is in the pipeline or about to handle an exception: no other run, no
\* failed transaction and no swallowed error makes them drift apart.
RowTracksRun ==
    \A w \in Runs :
        persisted[w] /\ (pc[w] \in Pipeline \/ pc[w] = "fail")
            => /\ keyOf[req[w].id] = req[w].key
               /\ state[req[w].id] = current[w]
               /\ current[w] \notin TerminalStates

\* What the caller was told is what the row says, and stays so: a run whose
\* mark_terminal committed returns the state its row is in, for ever.
ReplyMatchesRow ==
    \A w \in Runs :
        persisted[w] /\ marked[w] => state[req[w].id] = result[w].state

\* A job left in a non-terminal state always has a reason: its run is still
\* going, its process died, or the store refused the final write.
OrphanHasReason ==
    \A i \in Ids :
        state[i] \notin TerminalStates \cup {Absent} =>
            \E w \in Runs :
                /\ persisted[w] /\ req[w].id = i /\ keyOf[i] = req[w].key
                /\ \/ Running(w) \/ pc[w] = "crashed"
                   \/ StoreMayFail /\ pc[w] = "returned" /\ ~marked[w]

\* A passing result of w rests on a complete review.
Earned(w) ==
    /\ result[w].status = "pass" <=> result[w].code = "REVIEW_PASSED"
    /\ result[w].code = "REVIEW_PASSED" =>
          /\ persisted[w]
          /\ result[w].state = "DELIVERED"
          /\ Len(decisions[w]) = total_agents(w)
          /\ "reject" \notin Statuses(decisions[w])
          /\ Has(w, "gate") => llm[w].code = "REVIEW_PASSED"

\* Fail closed: a result that opens the gate (REVIEW_PASSED, the only code
\* jemmin_cli turns into exit status 0) is returned only by a run that owns
\* its change, ran every selected agent, saw no reject and, where there is an
\* LLM gate, had its REVIEW_PASSED.  Status "pass" goes with it and with
\* nothing else.
PassIsEarned ==
    \A w \in Runs : pc[w] \in {"mark", "publish", "returned"} => Earned(w)

\* mark_terminal writes unconditionally, yet no step ever changes the state
\* of a job that has reached a terminal state.
TerminalIsFinal ==
    [][\A i \in Ids : state[i] \in TerminalStates => state'[i] = state[i]]_vars

\* The state machine is bypassed in one way only: mark_terminal may degrade a
\* job that is still QUEUED or already past consensus.  Every other change of
\* a row is one that can_transition allows.
BypassOnlyToDegraded ==
    [][\A i \in Ids :
          state[i] # Absent /\ state'[i] # state[i] =>
              \/ can_transition(state[i], state'[i])
              \/ /\ state[i] \in {"QUEUED", "CONSENSUS_REACHED"}
                 /\ state'[i] = "DEGRADED"]_vars

-----------------------------------------------------------------------------
\* Under fairness every call of run_once that is not cut short by the death
\* of its process returns, whatever its collaborators and the store do.
EveryRunReturns ==
    \A w \in Runs : pc[w] = "create" ~> pc[w] \in {"returned", "crashed"}

\* Every job reaches a terminal state unless its process dies or the final
\* write fails.
EveryJobSettles ==
    \A w \in Runs :
        persisted[w] ~> \/ state[req[w].id] \in TerminalStates
                        \/ pc[w] = "crashed"
                        \/ pc[w] = "returned" /\ ~marked[w]

-----------------------------------------------------------------------------
(* The inductive invariant behind the safety properties.                   *)

\* current_state at each step up to the verdict.
StateAt(label) ==
    CASE label \in {"idle", "create", "admit", "policy"} -> "QUEUED"
      [] label = "context" -> "CONTEXT_READY"
      [] label = "agents"  -> "ANALYZING"
      [] OTHER             -> "CONSENSUS_REACHED"

WorkingStates == {"QUEUED", "CONTEXT_READY", "ANALYZING", "CONSENSUS_REACHED"}

\* A change of a row that run_once may make.
LegalChange(from, to) ==
    \/ can_transition(from, to)
    \/ from \in {"QUEUED", "CONSENSUS_REACHED"} /\ to = "DEGRADED"

\* Whether the run owns a row, and whether it wrote the final state.
ControlInv(w) ==
    /\ pc[w] \in {"idle", "create"} => ~persisted[w]
    /\ pc[w] \in Pipeline \cup {"mark"} => persisted[w]
    /\ marked[w] => persisted[w] /\ pc[w] \in {"publish", "returned", "crashed"}
    /\ persisted[w] /\ pc[w] \in {"publish", "returned"} /\ ~marked[w]
          => StoreMayFail

\* current_state follows the program counter, and so does the result.
ProgressInv(w) ==
    /\ pc[w] \in Pipeline \cup {"idle", "create"} => current[w] = StateAt(pc[w])
    /\ pc[w] = "fail" => /\ current[w] \in WorkingStates
                         /\ result[w].state \in {"FAILED", "DEGRADED"}
    /\ pc[w] \in {"l3", "patch", "autofix"} => result[w].state = "DELIVERED"
    /\ persisted[w] /\ (marked[w] \/ pc[w] \in {"mark", "publish", "returned"})
          => result[w].state \in TerminalStates

\* The row of a run that owns one: it has the run's key, it is in the run's
\* current_state until the result is known; from then on it holds the state of
\* the result or a state that may still legally change to it, and after the
\* final write it holds the state of the result.
RowInv(w) ==
    persisted[w] =>
        /\ state[req[w].id] # Absent
        /\ keyOf[req[w].id] = req[w].key
        /\ pc[w] \in Pipeline \cup {"fail"} => state[req[w].id] = current[w]
        /\ pc[w] \in {"mark", "publish", "returned"} =>
              \/ state[req[w].id] = result[w].state
              \/ /\ state[req[w].id] \in WorkingStates
                 /\ LegalChange(state[req[w].id], result[w].state)
        /\ marked[w] => state[req[w].id] = result[w].state

RunInv(w) == ControlInv(w) /\ ProgressInv(w) /\ RowInv(w)

\* Every row was inserted by a run.
HasOwner(i) ==
    state[i] # Absent => \E w \in Runs : persisted[w] /\ req[w].id = i

\* The invariant that every step preserves.
IInv ==
    /\ TypeOK
    /\ KeyUnique
    /\ OneRunPerChange
    /\ \A i \in Ids : HasOwner(i)
    /\ \A w \in Runs : RunInv(w)

\* The strengthening of PassIsEarned: how a passing verdict comes about.
VerdictInv(w) ==
    /\ pc[w] \in {"decide", "l3", "patch", "autofix"}
          => persisted[w] /\ Len(decisions[w]) = total_agents(w)
    /\ pc[w] = "l3" => "reject" \notin Statuses(decisions[w])
    /\ pc[w] \in {"patch", "autofix", "fail"}
          => result[w].status # "pass" /\ result[w].code # "REVIEW_PASSED"
    /\ pc[w] \in {"mark", "publish", "returned"} => Earned(w)

\* The strengthening of LedgerSpec: a run is turned away only for a row that
\* another run owns.
TurnAwayInv(w) ==
    /\ pc[w] = "fail" => result[w].status # "ignored"
    /\ pc[w] = "publish" /\ ~persisted[w] /\ result[w].status = "ignored"
          => \E v \in Runs :
                /\ persisted[v]
                /\ req[v].id = req[w].id \/ req[v].key = req[w].key

-----------------------------------------------------------------------------
\* The ledger this pipeline keeps: a row is a claim, its terminal state settles
\* it, and the return of run_once is the answer.
LedgerHolders == {w \in Runs : persisted[w]}

LedgerSettled ==
    [w \in Runs |-> IF persisted[w] /\ state[req[w].id] \in TerminalStates
                    THEN state[req[w].id] ELSE "none"]

LedgerAnswer ==
    [w \in Runs |-> CASE pc[w] # "returned" -> "none"
                      [] pc[w] = "returned" /\ persisted[w] -> result[w].state
                      [] pc[w] = "returned" /\ ~persisted[w]
                            /\ result[w].status = "ignored" -> "ignored"
                      [] OTHER -> "broken"]

Ledger == INSTANCE ReviewLedger WITH
    Asks     <- Requests,
    Terminal <- TerminalStates,
    None     <- "none",
    ask      <- req,
    holders  <- LedgerHolders,
    settled  <- LedgerSettled,
    answer   <- LedgerAnswer

\* The concurrent pipeline implements the ledger: a change is claimed once,
\* settled once and by its claimant only, and answered with what was settled.
LedgerSpec == Ledger!Spec
=============================================================================
