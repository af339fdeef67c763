------------------------------ MODULE JobStore ------------------------------
(***************************************************************************)
(* The spool database that every review run shares: the review_requests    *)
(* table and the lifecycle part of the review_events table of              *)
(* SQLiteJobStore, with the state machine of state/statemachine.py.        *)
(*                                                                         *)
(* Each operation below is one SQLite transaction (the "with connection"   *)
(* block of _connection), so each is one atomic action.  A transaction     *)
(* that loses the wait for the write lock (busy_timeout) raises and is     *)
(* rolled back: that is StoreDown, a step that changes nothing here.       *)
(*                                                                         *)
(* Left out: the columns no operation reads back (project, diff,           *)
(* metadata, time stamps) and the review.stage rows of append_event, which *)
(* carry no job state and which nothing in the program reads.              *)
(***************************************************************************)
EXTENDS Naturals, Sequences

CONSTANTS
    Ids,     \* request_id values
    Keys,    \* idempotency_key values
    NoKey    \* the key of an id that has no row

ASSUME NoKeyAssumption == NoKey \notin Keys

ReviewState ==
    {"QUEUED", "PRECHECK_FAILED", "CONTEXT_READY", "ANALYZING",
     "CONSENSUS_REACHED", "PATCH_PROPOSED", "VERIFIED", "DELIVERED",
     "DEGRADED", "FAILED"}

TerminalStates == {"PRECHECK_FAILED", "DELIVERED", "DEGRADED", "FAILED"}

\* The "state" of an id that has no row.
Absent == "ABSENT"

ALLOWED_TRANSITIONS ==
    [QUEUED            |-> {"PRECHECK_FAILED", "CONTEXT_READY", "FAILED"},
     PRECHECK_FAILED   |-> {},
     CONTEXT_READY     |-> {"ANALYZING", "DEGRADED", "FAILED"},
     ANALYZING         |-> {"CONSENSUS_REACHED", "DEGRADED", "FAILED"},
     CONSENSUS_REACHED |-> {"PATCH_PROPOSED", "DELIVERED", "FAILED"},
     PATCH_PROPOSED    |-> {"VERIFIED", "FAILED"},
     VERIFIED          |-> {"DELIVERED", "FAILED"},
     DELIVERED         |-> {},
     DEGRADED          |-> {"DELIVERED", "FAILED"},
     FAILED            |-> {}]

can_transition(from, to) == to \in ALLOWED_TRANSITIONS[from]

EventTypes == {"request", "duplicate_ignored", "state_changed", "terminal"}

\* Every lifecycle event names the state of the job after it.
Event == [type : EventTypes, state : ReviewState]

VARIABLES
    state,    \* request_id -> state column, Absent when there is no row
    keyOf,    \* request_id -> idempotency_key column
    events    \* request_id -> its lifecycle events, oldest first

store == <<state, keyOf, events>>

StoreTypeOK ==
    /\ state \in [Ids -> ReviewState \cup {Absent}]
    /\ keyOf \in [Ids -> Keys \cup {NoKey}]
    /\ events \in [Ids -> Seq(Event)]

StoreInit ==
    /\ state = [i \in Ids |-> Absent]
    /\ keyOf = [i \in Ids |-> NoKey]
    /\ events = [i \in Ids |-> <<>>]

-----------------------------------------------------------------------------
append_event(id, type, s) ==
    events' = [events EXCEPT ![id] = Append(@, [type |-> type, state |-> s])]

\* Fault: the table has no UNIQUE index on idempotency_key.
InsertIgnored_IdOnly(r) == state[r.id] # Absent

\* The row with the PRIMARY KEY or the UNIQUE idempotency_key of r exists, so
\* INSERT OR IGNORE leaves the table alone.
InsertIgnored(r) ==
    \/ state[r.id] # Absent
    \/ \E i \in Ids : keyOf[i] = r.key

\* create_request inserts the row: outcome created.
CreateInserts(r) ==
    /\ ~InsertIgnored(r)
    /\ state' = [state EXCEPT ![r.id] = "QUEUED"]
    /\ keyOf' = [keyOf EXCEPT ![r.id] = r.key]
    /\ append_event(r.id, "request", "QUEUED")

\* Fault: every request is taken for a duplicate.
CreateFindsDuplicate_Always(r) == UNCHANGED store

\* create_request finds a duplicate.  It looks the row up by idempotency_key
\* alone: an insert ignored for its request_id only finds nothing, records
\* no event, and reports existing_state = None.
CreateFindsDuplicate(r) ==
    /\ InsertIgnored(r)
    /\ events' = [i \in Ids |->
                    IF keyOf[i] = r.key
                    THEN Append(events[i], [type |-> "duplicate_ignored",
                                            state |-> state[i]])
                    ELSE events[i]]
    /\ UNCHANGED <<state, keyOf>>

\* existing_state of the outcome is one of the terminal state values.
ExistingIsTerminal(r) ==
    \E i \in Ids : keyOf[i] = r.key /\ state[i] \in TerminalStates

\* transition_state raises: the table forbids the change (ValueError), or the
\* UPDATE matched no row (KeyError, or ValueError on a state mismatch).
TransitionRaises(id, from, to) ==
    ~can_transition(from, to) \/ state[id] # from

transition_state(id, from, to) ==
    /\ ~TransitionRaises(id, from, to)
    /\ state' = [state EXCEPT ![id] = to]
    /\ append_event(id, "state_changed", to)
    /\ UNCHANGED keyOf

\* Fault: the final state is written without an event.
mark_terminal_Silent(id, final) ==
    /\ state[id] # Absent
    /\ state' = [state EXCEPT ![id] = final]
    /\ UNCHANGED <<keyOf, events>>

\* mark_terminal updates whatever state the row has; it raises only when
\* there is no row.
mark_terminal(id, final) ==
    /\ state[id] # Absent
    /\ state' = [state EXCEPT ![id] = final]
    /\ append_event(id, "terminal", final)
    /\ UNCHANGED keyOf

\* sqlite3.OperationalError: the transaction is rolled back.
StoreDown == UNCHANGED store

-----------------------------------------------------------------------------
\* Two rows never hold the same idempotency_key (the UNIQUE index), and a row
\* has a key.
KeyUnique ==
    /\ \A i, j \in Ids : keyOf[i] = keyOf[j] /\ keyOf[i] # NoKey => i = j
    /\ \A i \in Ids : keyOf[i] = NoKey <=> state[i] = Absent

\* The audit trail explains the row: the newest lifecycle event of a job
\* names the state its row is in, although the two are written by several
\* operations and duplicates of other runs append to the same trail.
AuditAgreesWithRow ==
    \A i \in Ids :
        IF state[i] = Absent
        THEN events[i] = <<>>
        ELSE /\ Len(events[i]) > 0
             /\ events[i][Len(events[i])].state = state[i]
=============================================================================
