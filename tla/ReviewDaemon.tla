---------------------------- MODULE ReviewDaemon ----------------------------
(***************************************************************************)
(* jemmin_daemon and its clients: the ZmqRouter event loop with its        *)
(* semaphore, background tasks and graceful shutdown; the run_once thread  *)
(* behind each task; and jemmin_cli, which falls back to a direct run when *)
(* the daemon does not answer in time.                                     *)
(*                                                                         *)
(* One action is what the event loop runs between two awaits.  Cancelling  *)
(* the task of asyncio.to_thread does not stop the thread: a run goes on   *)
(* after its task was cancelled.                                           *)
(*                                                                         *)
(* run_once appears only by what ReviewLedger promises: the first run of a *)
(* change claims it and ends with a result code, every other run of the    *)
(* change ends with DUPLICATE_REQUEST_IGNORED.                             *)
(***************************************************************************)
EXTENDS Naturals, FiniteSets

CONSTANTS
    Clients,    \* calls of ZmqClient.send, each with a socket of its own
    NoClient,
    Changes,    \* idempotency keys
    ChangeOf,   \* client -> the change it wants reviewed
    KindOf,     \* client -> what it sends
    MaxJobs,    \* max_concurrent_jobs
    MayStop     \* whether the daemon may be told to stop

\* "review" is the message of jemmin_cli; "unsupported" has a wrong schema
\* version or an unknown message_type; "garbled" has the wrong frames.
Kinds == {"review", "unsupported", "garbled"}

ASSUME ClientsAssumption ==
    /\ NoClient \notin Clients
    /\ IsFiniteSet(Clients)
    /\ ChangeOf \in [Clients -> Changes]
    /\ KindOf \in [Clients -> Kinds]

ASSUME JobsAssumption == MaxJobs \in Nat \ {0} /\ MayStop \in BOOLEAN

\* Where run_once runs for a client.
Places == {"daemon", "direct"}

\* REVIEW_REJECTED stands for every code but the two others.
Codes == {"REVIEW_PASSED", "REVIEW_REJECTED", "DUPLICATE_REQUEST_IGNORED"}

VARIABLES
    client,      \* client -> "idle", "waiting" for a reply, "direct", "ended"
    exit,        \* client -> exit status of jemmin_cli, or "none"
    inbox,       \* clients whose message is queued in the ROUTER socket
    loop,        \* where the coroutine of start() is
    held,        \* the message start() holds while it waits for the semaphore
    is_running,  \* _is_running
    permits,     \* value of _semaphore
    task,        \* client -> its background task
    run,         \* client -> place -> the progress of run_once
    code,        \* client -> place -> result_code of run_once
    claimed      \* changes that have a row in the spool database

vars == <<client, exit, inbox, loop, held, is_running, permits, task, run, code,
          claimed>>

clientVars == <<client, exit>>
runVars == <<run, code, claimed>>

\* "created": the task has not run yet; "calling": it awaits the handler;
\* "ended": it is done and _on_task_done is scheduled; "gone": that callback
\* has run.
TaskStates == {"none", "created", "calling", "ended", "gone"}
LoopStates == {"poll", "acquire", "drain", "gather", "closed", "aborted"}

TypeOK ==
    /\ client \in [Clients -> {"idle", "waiting", "direct", "ended"}]
    /\ exit \in [Clients -> {"none", "zero", "nonzero"}]
    /\ inbox \subseteq Clients
    /\ loop \in LoopStates
    /\ held \in Clients \cup {NoClient}
    /\ is_running \in BOOLEAN
    /\ permits \in Nat
    /\ task \in [Clients -> TaskStates]
    /\ run \in [Clients -> [Places -> {"none", "queued", "running", "finished"}]]
    /\ code \in [Clients -> [Places -> Codes \cup {"none"}]]
    /\ claimed \subseteq Changes

Init ==
    /\ client = [c \in Clients |-> "idle"]
    /\ exit = [c \in Clients |-> "none"]
    /\ inbox = {}
    /\ loop = "poll"
    /\ held = NoClient
    /\ is_running = TRUE
    /\ permits = MaxJobs
    /\ task = [c \in Clients |-> "none"]
    /\ run = [c \in Clients |-> [p \in Places |-> "none"]]
    /\ code = [c \in Clients |-> [p \in Places |-> "none"]]
    /\ claimed = {}

-----------------------------------------------------------------------------
(* The client: ZmqClient.send, _run_via_daemon and main of jemmin_cli.     *)

\* Fault: only a rejection closes the gate.
exit_code_from_result_code_Open(rc) ==
    IF rc = "REVIEW_REJECTED" THEN "nonzero" ELSE "zero"

exit_code_from_result_code(rc) == IF rc = "REVIEW_PASSED" THEN "zero" ELSE "nonzero"

Ends(c, status) ==
    /\ client' = [client EXCEPT ![c] = "ended"]
    /\ exit' = [exit EXCEPT ![c] = status]

SocketOpen == loop # "closed"

Send(c) ==
    /\ client[c] = "idle"
    /\ client' = [client EXCEPT ![c] = "waiting"]
    /\ inbox' = IF SocketOpen THEN inbox \cup {c} ELSE inbox
    /\ UNCHANGED <<exit, loop, held, is_running, permits, task, runVars>>

\* Fault: RCVTIMEO is not set.
ReceiveTimeout_Never(c) == UNCHANGED vars

\* No reply within timeout_ms: jemmin_cli falls back to a direct run, any
\* other client gives up.  The message stays where it is.
ReceiveTimeout(c) ==
    /\ client[c] = "waiting"
    /\ IF KindOf[c] = "review"
       THEN /\ client' = [client EXCEPT ![c] = "direct"]
            /\ run' = [run EXCEPT ![c]["direct"] = "queued"]
            /\ UNCHANGED exit
       ELSE Ends(c, "nonzero") /\ UNCHANGED run
    /\ UNCHANGED <<inbox, loop, held, is_running, permits, task, code, claimed>>

DirectEnds(c) ==
    /\ client[c] = "direct"
    /\ run[c]["direct"] = "finished"
    /\ Ends(c, exit_code_from_result_code(code[c]["direct"]))
    /\ UNCHANGED <<inbox, loop, held, is_running, permits, task, runVars>>

-----------------------------------------------------------------------------
(* run_once.                                                               *)

RunClaims(c, p) ==
    /\ run[c][p] = "queued"
    /\ ChangeOf[c] \notin claimed
    /\ claimed' = claimed \cup {ChangeOf[c]}
    /\ run' = [run EXCEPT ![c][p] = "running"]
    /\ UNCHANGED <<clientVars, inbox, loop, held, is_running, permits, task, code>>

RunIsDuplicate(c, p) ==
    /\ run[c][p] = "queued"
    /\ ChangeOf[c] \in claimed
    /\ run' = [run EXCEPT ![c][p] = "finished"]
    /\ code' = [code EXCEPT ![c][p] = "DUPLICATE_REQUEST_IGNORED"]
    /\ UNCHANGED <<clientVars, inbox, loop, held, is_running, permits, task, claimed>>

RunEnds(c, p) ==
    /\ run[c][p] = "running"
    /\ run' = [run EXCEPT ![c][p] = "finished"]
    /\ \E rc \in {"REVIEW_PASSED", "REVIEW_REJECTED"} :
          code' = [code EXCEPT ![c][p] = rc]
    /\ UNCHANGED <<clientVars, inbox, loop, held, is_running, permits, task, claimed>>

-----------------------------------------------------------------------------
(* The event loop of ZmqRouter.                                            *)

BackgroundTasks == {c \in Clients : task[c] \in {"created", "calling", "ended"}}
Pending == {c \in Clients : task[c] \in {"created", "calling"}}

\* The loop condition is tested; the finally clause enters _graceful_shutdown,
\* which closes the socket at once when there is no task to wait for.
Shutdown == IF BackgroundTasks = {} THEN "closed" ELSE "drain"

CreateTask(c) ==
    /\ permits > 0
    /\ permits' = permits - 1
    /\ task' = [task EXCEPT ![c] = "created"]
    /\ loop' = IF is_running THEN "poll" ELSE "drain"

\* poll reports a message and recv_multipart returns it.
Receive(c) ==
    /\ loop = "poll"
    /\ c \in inbox
    /\ KindOf[c] # "garbled"
    /\ inbox' = inbox \ {c}
    /\ IF permits > 0
       THEN CreateTask(c) /\ UNCHANGED held
       ELSE loop' = "acquire" /\ held' = c /\ UNCHANGED <<permits, task>>
    /\ UNCHANGED <<clientVars, is_running, runVars>>

\* Wrong frames are logged and dropped without a reply.
DropGarbled(c) ==
    /\ loop = "poll"
    /\ c \in inbox
    /\ KindOf[c] = "garbled"
    /\ inbox' = inbox \ {c}
    /\ loop' = IF is_running THEN "poll" ELSE Shutdown
    /\ UNCHANGED <<clientVars, held, is_running, permits, task, runVars>>

\* The semaphore is acquired after a wait.
Acquire ==
    /\ loop = "acquire"
    /\ CreateTask(held)
    /\ held' = NoClient
    /\ UNCHANGED <<clientVars, inbox, is_running, runVars>>

\* Fault: poll waits for the next message without a time-out.
PollTimeout_Never == UNCHANGED vars

\* The poll times out after stop().
PollTimeout ==
    /\ loop = "poll"
    /\ ~is_running
    /\ loop' = Shutdown
    /\ UNCHANGED <<clientVars, inbox, held, is_running, permits, task, runVars>>

stop ==
    /\ MayStop
    /\ is_running
    /\ is_running' = FALSE
    /\ UNCHANGED <<clientVars, inbox, loop, held, permits, task, runVars>>

\* SIGINT or SIGTERM cancels the router task.  In poll or in the wait for the
\* semaphore it starts the shutdown, and a message held there is lost; a
\* second one breaks off the shutdown itself.
on_signal ==
    /\ MayStop
    /\ \/ /\ loop \in {"poll", "acquire"}
          /\ loop' = Shutdown
          /\ held' = NoClient
          /\ is_running' = FALSE
       \/ /\ loop \in {"drain", "gather"}
          /\ loop' = "aborted"
          /\ UNCHANGED <<held, is_running>>
    /\ UNCHANGED <<clientVars, inbox, permits, task, runVars>>

-----------------------------------------------------------------------------
(* The background tasks: _process_and_reply_wrapper and _on_task_done.     *)

TaskCalls(c) ==
    /\ task[c] = "created"
    /\ KindOf[c] = "review"
    /\ task' = [task EXCEPT ![c] = "calling"]
    /\ run' = [run EXCEPT ![c]["daemon"] = "queued"]
    /\ UNCHANGED <<clientVars, inbox, loop, held, is_running, permits, code, claimed>>

\* Fault: a late reply is taken for the answer of the fallback.
Reply_Late(c, status) ==
    IF client[c] \in {"waiting", "direct"} /\ SocketOpen
    THEN Ends(c, status)
    ELSE UNCHANGED clientVars

\* A reply reaches a client that still waits; any other is dropped.
Reply(c, status) ==
    IF client[c] = "waiting" /\ SocketOpen
    THEN Ends(c, status)
    ELSE UNCHANGED clientVars

TaskReplies(c) ==
    /\ task[c] = "calling"
    /\ run[c]["daemon"] = "finished"
    /\ Reply(c, exit_code_from_result_code(code[c]["daemon"]))
    /\ task' = [task EXCEPT ![c] = "ended"]
    /\ UNCHANGED <<inbox, loop, held, is_running, permits, runVars>>

TaskRepliesError(c) ==
    /\ task[c] = "created"
    /\ KindOf[c] = "unsupported"
    /\ Reply(c, "nonzero")
    /\ task' = [task EXCEPT ![c] = "ended"]
    /\ UNCHANGED <<inbox, loop, held, is_running, permits, runVars>>

\* Fault: the permit of a task is not returned.
on_task_done_Leak(c) ==
    /\ task[c] = "ended"
    /\ task' = [task EXCEPT ![c] = "gone"]
    /\ UNCHANGED <<clientVars, inbox, loop, held, is_running, permits, runVars>>

on_task_done(c) ==
    /\ task[c] = "ended"
    /\ task' = [task EXCEPT ![c] = "gone"]
    /\ permits' = permits + 1
    /\ UNCHANGED <<clientVars, inbox, loop, held, is_running, runVars>>

\* Fault: a cancelled task is forgotten without its callback.
CancelPending_NoCallback ==
    task' = [c \in Clients |-> IF c \in Pending THEN "gone" ELSE task[c]]

CancelPending ==
    task' = [c \in Clients |-> IF c \in Pending THEN "ended" ELSE task[c]]

\* asyncio.wait returns: every task is done, the socket is closed ...
DrainDone ==
    /\ loop = "drain"
    /\ Pending = {}
    /\ loop' = "closed"
    /\ UNCHANGED <<clientVars, inbox, held, is_running, permits, task, runVars>>

\* ... or five seconds have passed and the rest is cancelled ...
DrainTimeout ==
    /\ loop = "drain"
    /\ Pending # {}
    /\ CancelPending
    /\ loop' = "gather"
    /\ UNCHANGED <<clientVars, inbox, held, is_running, permits, runVars>>

\* ... and gathered before the socket is closed.
GatherDone ==
    /\ loop = "gather"
    /\ loop' = "closed"
    /\ UNCHANGED <<clientVars, inbox, held, is_running, permits, task, runVars>>

\* asyncio.run cancels what the broken-off shutdown left behind; the process
\* ends when the executor's threads have ended.
RunnerCancels ==
    /\ loop = "aborted"
    /\ CancelPending
    /\ loop' = "closed"
    /\ UNCHANGED <<clientVars, inbox, held, is_running, permits, runVars>>

ClientStep(c) == Send(c) \/ ReceiveTimeout(c) \/ DirectEnds(c)
RunStep(c) == \E p \in Places : RunClaims(c, p) \/ RunIsDuplicate(c, p) \/ RunEnds(c, p)
TaskStep(c) == TaskCalls(c) \/ TaskReplies(c) \/ TaskRepliesError(c) \/ on_task_done(c)
LoopStep ==
    Acquire \/ PollTimeout \/ DrainDone \/ DrainTimeout \/ GatherDone \/ RunnerCancels

Next ==
    \/ \E c \in Clients :
          ClientStep(c) \/ RunStep(c) \/ TaskStep(c) \/ Receive(c) \/ DropGarbled(c)
    \/ LoopStep \/ stop \/ on_signal

Spec == Init /\ [][Next]_vars

\* The event loop, the threads and the timers run.  The ROUTER socket serves
\* its peers in turn, so a queued message is received if poll is reached
\* again and again.  Nothing obliges a client to call, or anybody to stop the
\* daemon.
Fairness ==
    /\ \A c \in Clients :
          /\ WF_vars(ReceiveTimeout(c) \/ DirectEnds(c))
          /\ WF_vars(RunStep(c))
          /\ WF_vars(TaskStep(c))
          /\ SF_vars(Receive(c) \/ DropGarbled(c))
    /\ WF_vars(LoopStep)

FairSpec == Spec /\ Fairness

-----------------------------------------------------------------------------
\* The semaphore counts the background tasks: no path through replies, errors,
\* cancellation and shutdown loses a permit or returns one twice, and there
\* are never more than max_concurrent_jobs tasks.
PermitsBalance == permits + Cardinality(BackgroundTasks) = MaxJobs

\* The gate is never false-green: exit status 0 means that a run of this very
\* call reviewed the change and passed it.  Neither a late reply, nor a
\* duplicate after a fallback, nor an error reply opens it.
NoFalseGreen ==
    \A c \in Clients :
        exit[c] = "zero" =>
            \E p \in Places : run[c][p] = "finished" /\ code[c][p] = "REVIEW_PASSED"

\* A call is answered once: a reply that comes after the time-out, while the
\* fallback runs or after it, changes nothing.
ExitIsFinal ==
    [][\A c \in Clients :
          client[c] \in {"direct", "ended"} /\ exit'[c] # exit[c] =>
              client[c] = "direct" /\ run[c]["direct"] = "finished"]_vars

\* Back-pressure starves nobody: a review request queued in the socket is
\* run, unless the daemon shuts down.
EveryRequestRuns ==
    \A c \in Clients :
        c \in inbox /\ KindOf[c] = "review" ~>
            run[c]["daemon"] = "finished" \/ loop \notin {"poll", "acquire"}

\* Every call ends, whatever the daemon does.
EveryCallEnds == \A c \in Clients : client[c] = "waiting" ~> client[c] = "ended"

\* A daemon that was told to stop closes its socket, and every permit is back.
ShutdownEnds == ~is_running ~> loop = "closed" /\ permits = MaxJobs

-----------------------------------------------------------------------------
(* The inductive invariant behind PermitsBalance and NoFalseGreen.         *)

\* A message is in one place: with its client, in the socket, held by the
\* loop, or with its task.
MessageInv ==
    /\ loop = "acquire" <=> held # NoClient
    /\ \A c \in Clients :
          /\ client[c] = "idle" => c \notin inbox /\ held # c /\ task[c] = "none"
          /\ c \in inbox => held # c /\ task[c] = "none"
          /\ held = c => task[c] = "none"

\* A call has an exit status when it has ended, and a run that finished stays
\* finished: its task, or the fallback of its client, is past the start.
AnswerInv ==
    \A c \in Clients :
        /\ exit[c] # "none" <=> client[c] = "ended"
        /\ run[c]["daemon"] # "none" => task[c] \notin {"none", "created"}
        /\ client[c] \in {"idle", "waiting"} => run[c]["direct"] = "none"

DaemonInv ==
    /\ TypeOK
    /\ MessageInv
    /\ AnswerInv
    /\ PermitsBalance
    /\ NoFalseGreen
=============================================================================
