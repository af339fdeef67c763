---------------------------- MODULE DaemonProofs ----------------------------
(***************************************************************************)
(* Proofs about the daemon for every number of clients and every limit on  *)
(* concurrent jobs.                                                        *)
(***************************************************************************)
EXTENDS ReviewDaemon, FiniteSetTheorems, TLAPS

-----------------------------------------------------------------------------
(* Counting the background tasks.                                          *)

\* The background tasks are finitely many.
LEMMA TasksFinite ==
    IsFiniteSet(BackgroundTasks) /\ Cardinality(BackgroundTasks) \in Nat
<1>1. IsFiniteSet(BackgroundTasks)
  BY ClientsAssumption, FS_Subset DEF BackgroundTasks
<1> QED
  BY <1>1, FS_CardinalityType

\* A step that keeps the set of background tasks and the semaphore keeps the
\* balance.
LEMMA BalanceKept ==
    ASSUME PermitsBalance, permits' = permits,
           \A c \in Clients : c \in BackgroundTasks' <=> c \in BackgroundTasks
    PROVE  PermitsBalance'
<1>1. BackgroundTasks' = BackgroundTasks
  BY DEF BackgroundTasks
<1> QED
  BY <1>1 DEF PermitsBalance

\* A new task takes one permit.
LEMMA BalanceCreate ==
    ASSUME TypeOK, PermitsBalance, NEW c \in Clients, task[c] = "none", CreateTask(c)
    PROVE  /\ PermitsBalance'
           /\ permits' \in Nat
           /\ task' \in [Clients -> TaskStates]
           /\ loop' \in {"poll", "drain"}
           /\ task'[c] = "created"
           /\ \A b \in Clients \ {c} : task'[b] = task[b]
<1>1. /\ permits \in Nat /\ permits > 0 /\ permits' = permits - 1
      /\ task' = [task EXCEPT ![c] = "created"]
      /\ loop' \in {"poll", "drain"}
  BY DEF CreateTask, TypeOK
<1>2. BackgroundTasks' = BackgroundTasks \cup {c} /\ c \notin BackgroundTasks
  BY <1>1 DEF BackgroundTasks, TypeOK
<1>3. Cardinality(BackgroundTasks') = Cardinality(BackgroundTasks) + 1
  BY <1>2, TasksFinite, FS_AddElement
<1>4. PermitsBalance'
  BY <1>1, <1>3, TasksFinite, JobsAssumption DEF PermitsBalance
<1> QED
  BY <1>1, <1>4 DEF TypeOK, TaskStates

\* _on_task_done returns it.
LEMMA BalanceDone ==
    ASSUME TypeOK, PermitsBalance, NEW c \in Clients, on_task_done(c)
    PROVE  PermitsBalance'
<1>1. /\ permits \in Nat /\ permits' = permits + 1 /\ task[c] = "ended"
      /\ task' = [task EXCEPT ![c] = "gone"]
  BY DEF on_task_done, TypeOK
<1>2. BackgroundTasks' = BackgroundTasks \ {c} /\ c \in BackgroundTasks
  BY <1>1 DEF BackgroundTasks, TypeOK
<1>3. Cardinality(BackgroundTasks') = Cardinality(BackgroundTasks) - 1
  BY <1>2, TasksFinite, FS_RemoveElement
<1> QED
  BY <1>1, <1>3, TasksFinite, JobsAssumption DEF PermitsBalance

-----------------------------------------------------------------------------
(* One lemma per kind of step: it preserves the invariant.                 *)

\* The daemon starts with no message, no task and every permit.
LEMMA InitInv == Init => DaemonInv
<1> SUFFICES ASSUME Init PROVE DaemonInv
  OBVIOUS
<1>1. TypeOK
  BY JobsAssumption DEF Init, TypeOK, LoopStates, TaskStates
<1>2. MessageInv /\ AnswerInv /\ NoFalseGreen
  BY ClientsAssumption DEF Init, MessageInv, AnswerInv, NoFalseGreen, Places
<1>3. PermitsBalance
  <2>1. BackgroundTasks = {}
    BY DEF Init, BackgroundTasks
  <2> QED
    BY <2>1, FS_EmptySet, JobsAssumption DEF Init, PermitsBalance
<1> QED
  BY <1>1, <1>2, <1>3 DEF DaemonInv

\* ZmqClient.send puts its message into the socket.
LEMMA SendInv ==
    ASSUME DaemonInv, NEW c \in Clients, Send(c)
    PROVE  DaemonInv'
<1> USE DEF DaemonInv
<1>1. TypeOK'
  BY DEF Send, TypeOK, runVars
<1>2. MessageInv'
  BY DEF Send, TypeOK, MessageInv, runVars
<1>3. AnswerInv' /\ NoFalseGreen'
  BY DEF Send, TypeOK, AnswerInv, NoFalseGreen, runVars, Places
<1>4. PermitsBalance'
  BY BalanceKept DEF Send, BackgroundTasks
<1> QED
  BY <1>1, <1>2, <1>3, <1>4

\* The time-out of a client: jemmin_cli starts its direct run, others give up.
LEMMA ReceiveTimeoutInv ==
    ASSUME DaemonInv, NEW c \in Clients, ReceiveTimeout(c)
    PROVE  DaemonInv'
<1> USE DEF DaemonInv
<1>0. UNCHANGED <<inbox, loop, held, is_running, permits, task, code, claimed>>
  BY DEF ReceiveTimeout
<1>1. client[c] = "waiting"
  BY DEF ReceiveTimeout
<1>2. PermitsBalance'
  BY <1>0, BalanceKept DEF BackgroundTasks
<1>3. CASE KindOf[c] = "review"
  <2>1. /\ client' = [client EXCEPT ![c] = "direct"]
        /\ run' = [run EXCEPT ![c]["direct"] = "queued"]
        /\ exit' = exit
    BY <1>3 DEF ReceiveTimeout
  <2>2. TypeOK'
    BY <1>0, <2>1 DEF TypeOK, Places
  <2>3. MessageInv'
    BY <1>0, <1>1, <2>1 DEF TypeOK, MessageInv
  <2>4. AnswerInv'
    BY <1>0, <1>1, <2>1 DEF TypeOK, AnswerInv, Places
  <2>5. NoFalseGreen'
    BY <1>0, <1>1, <2>1 DEF TypeOK, AnswerInv, NoFalseGreen, Places
  <2> QED
    BY <1>2, <2>2, <2>3, <2>4, <2>5
<1>4. CASE KindOf[c] # "review"
  <2>1. Ends(c, "nonzero") /\ run' = run
    BY <1>4 DEF ReceiveTimeout
  <2>2. TypeOK'
    BY <1>0, <2>1 DEF TypeOK, Ends
  <2>3. MessageInv'
    BY <1>0, <1>1, <2>1 DEF TypeOK, MessageInv, Ends
  <2>4. AnswerInv'
    BY <1>0, <1>1, <2>1 DEF TypeOK, AnswerInv, Ends
  <2>5. NoFalseGreen'
    BY <1>0, <1>1, <2>1 DEF TypeOK, NoFalseGreen, Ends
  <2> QED
    BY <1>2, <2>2, <2>3, <2>4, <2>5
<1> QED
  BY <1>3, <1>4

\* jemmin_cli exits with the status of its direct run.
LEMMA DirectEndsInv ==
    ASSUME DaemonInv, NEW c \in Clients, DirectEnds(c)
    PROVE  DaemonInv'
<1> USE DEF DaemonInv
<1>1. TypeOK'
  BY DEF DirectEnds, Ends, exit_code_from_result_code, TypeOK, runVars
<1>2. MessageInv'
  BY DEF DirectEnds, Ends, TypeOK, MessageInv
<1>3. AnswerInv'
  BY DEF DirectEnds, Ends, exit_code_from_result_code, TypeOK, AnswerInv, runVars
<1>4. NoFalseGreen'
  BY DEF DirectEnds, Ends, exit_code_from_result_code, TypeOK, NoFalseGreen,
         runVars, Places
<1>5. PermitsBalance'
  BY BalanceKept DEF DirectEnds, BackgroundTasks
<1> QED
  BY <1>1, <1>2, <1>3, <1>4, <1>5

\* run_once advances in the daemon's thread or in the client's process.
LEMMA RunStepInv ==
    ASSUME DaemonInv, NEW c \in Clients, RunStep(c)
    PROVE  DaemonInv'
<1> USE DEF DaemonInv
<1>1. PICK p \in Places : RunClaims(c, p) \/ RunIsDuplicate(c, p) \/ RunEnds(c, p)
  BY DEF RunStep
<1>2. /\ UNCHANGED <<client, exit, inbox, loop, held, is_running, permits, task>>
      /\ run[c][p] \in {"queued", "running"}
      /\ \E s \in {"running", "finished"} : run' = [run EXCEPT ![c][p] = s]
      /\ code' = code \/ \E rc \in Codes : code' = [code EXCEPT ![c][p] = rc]
      /\ claimed' \subseteq Changes
  <2>1. CASE RunClaims(c, p)
    <3>1. claimed' \subseteq Changes
      <4>1. ChangeOf[c] \in Changes
        BY ClientsAssumption
      <4>2. claimed \subseteq Changes
        BY DEF TypeOK
      <4>3. claimed' = claimed \cup {ChangeOf[c]}
        BY <2>1 DEF RunClaims
      <4> QED
        BY <4>1, <4>2, <4>3
    <3>2. run' = [run EXCEPT ![c][p] = "running"] /\ code' = code
      BY <2>1 DEF RunClaims
    <3> QED
      BY <2>1, <3>1, <3>2 DEF RunClaims, clientVars
  <2>2. CASE RunIsDuplicate(c, p)
    BY <2>2 DEF RunIsDuplicate, clientVars, Codes, TypeOK
  <2>3. CASE RunEnds(c, p)
    BY <2>3 DEF RunEnds, clientVars, Codes, TypeOK
  <2> QED
    BY <1>1, <2>1, <2>2, <2>3
<1>3. TypeOK'
  <2>1. run' \in [Clients -> [Places -> {"none", "queued", "running", "finished"}]]
    BY <1>2 DEF TypeOK
  <2>2. code' \in [Clients -> [Places -> Codes \cup {"none"}]]
    <3>1. code \in [Clients -> [Places -> Codes \cup {"none"}]]
      BY DEF TypeOK
    <3>2. CASE code' = code
      BY <3>1, <3>2
    <3>3. ASSUME NEW rc \in Codes, code' = [code EXCEPT ![c][p] = rc]
          PROVE  code' \in [Clients -> [Places -> Codes \cup {"none"}]]
      <4>1. [code[c] EXCEPT ![p] = rc] \in [Places -> Codes \cup {"none"}]
        BY <3>1, <3>3
      <4>2. code' = [code EXCEPT ![c] = [code[c] EXCEPT ![p] = rc]]
        BY <3>3
      <4> QED
        BY <3>1, <4>1, <4>2
    <3> QED
      BY <1>2, <3>2, <3>3
  <2> QED
    BY <1>2, <2>1, <2>2 DEF TypeOK
<1>4. MessageInv'
  BY <1>2 DEF MessageInv
<1>5. AnswerInv'
  BY <1>2 DEF AnswerInv, TypeOK, Places
<1>6. NoFalseGreen'
  <2> SUFFICES ASSUME NEW d \in Clients, exit[d] = "zero"
               PROVE  \E q \in Places : run'[d][q] = "finished" /\ code'[d][q] = "REVIEW_PASSED"
    BY <1>2 DEF NoFalseGreen
  <2>1. PICK q \in Places : run[d][q] = "finished" /\ code[d][q] = "REVIEW_PASSED"
    BY DEF NoFalseGreen
  <2>2. ~(d = c /\ q = p)
    BY <1>2, <2>1
  <2>3. run'[d][q] = run[d][q] /\ code'[d][q] = code[d][q]
    BY <1>2, <2>2 DEF TypeOK
  <2> QED
    BY <2>1, <2>3
<1>7. PermitsBalance'
  BY <1>2, BalanceKept DEF BackgroundTasks
<1> QED
  BY <1>3, <1>4, <1>5, <1>6, <1>7

\* What a step of a task leaves alone, and the answer it may send.
LEMMA ReplyInv ==
    ASSUME DaemonInv, NEW c \in Clients, NEW status \in {"zero", "nonzero"},
           Reply(c, status), run' = run, code' = code, task[c] # "none",
           status = "zero" => /\ run[c]["daemon"] = "finished"
                              /\ code[c]["daemon"] = "REVIEW_PASSED"
    PROVE  /\ client' \in [Clients -> {"idle", "waiting", "direct", "ended"}]
           /\ exit' \in [Clients -> {"none", "zero", "nonzero"}]
           /\ \A d \in Clients : client'[d] = "idle" <=> client[d] = "idle"
           /\ \A d \in Clients : exit'[d] # "none" <=> client'[d] = "ended"
           /\ \A d \in Clients :
                client'[d] \in {"idle", "waiting"} => run'[d]["direct"] = "none"
           /\ NoFalseGreen'
<1> USE DEF DaemonInv
<1>1. CASE client[c] = "waiting" /\ SocketOpen
  <2>1. Ends(c, status)
    BY <1>1 DEF Reply
  <2> QED
    BY <1>1, <2>1 DEF Ends, TypeOK, AnswerInv, NoFalseGreen, Places
<1>2. CASE ~(client[c] = "waiting" /\ SocketOpen)
  <2>1. UNCHANGED <<client, exit>>
    BY <1>2 DEF Reply, clientVars
  <2> QED
    BY <2>1 DEF TypeOK, AnswerInv, NoFalseGreen
<1> QED
  BY <1>1, <1>2

\* _process_and_reply_wrapper calls the handler.
LEMMA TaskCallsInv ==
    ASSUME DaemonInv, NEW c \in Clients, TaskCalls(c)
    PROVE  DaemonInv'
<1> USE DEF DaemonInv
<1>0. /\ UNCHANGED <<client, exit, inbox, loop, held, is_running, permits, code, claimed>>
      /\ task[c] = "created"
      /\ task' = [task EXCEPT ![c] = "calling"]
      /\ run' = [run EXCEPT ![c]["daemon"] = "queued"]
  BY DEF TaskCalls, clientVars
<1>1. TypeOK'
  BY <1>0 DEF TypeOK, TaskStates, Places
<1>2. MessageInv'
  BY <1>0 DEF MessageInv, TypeOK
<1>3. AnswerInv'
  BY <1>0 DEF AnswerInv, TypeOK, Places
<1>4. NoFalseGreen'
  BY <1>0 DEF AnswerInv, NoFalseGreen, TypeOK, Places
<1>5. PermitsBalance'
  BY <1>0, BalanceKept DEF BackgroundTasks, TypeOK
<1> QED
  BY <1>1, <1>2, <1>3, <1>4, <1>5

\* _process_and_reply_wrapper sends its reply, or drops it, and ends.
LEMMA TaskEndsInv ==
    ASSUME DaemonInv, NEW c \in Clients, TaskReplies(c) \/ TaskRepliesError(c)
    PROVE  DaemonInv'
<1> USE DEF DaemonInv
<1>0. /\ UNCHANGED <<inbox, loop, held, is_running, permits, run, code, claimed>>
      /\ task[c] \in {"created", "calling"}
      /\ task' = [task EXCEPT ![c] = "ended"]
  BY DEF TaskReplies, TaskRepliesError, runVars
<1>1. PICK status \in {"zero", "nonzero"} :
        /\ Reply(c, status)
        /\ status = "zero" => /\ run[c]["daemon"] = "finished"
                              /\ code[c]["daemon"] = "REVIEW_PASSED"
  <2>1. CASE TaskReplies(c)
    BY <2>1 DEF TaskReplies, exit_code_from_result_code
  <2>2. CASE TaskRepliesError(c)
    BY <2>2 DEF TaskRepliesError
  <2> QED
    BY <2>1, <2>2
<1>2. /\ client' \in [Clients -> {"idle", "waiting", "direct", "ended"}]
      /\ exit' \in [Clients -> {"none", "zero", "nonzero"}]
      /\ \A d \in Clients : client'[d] = "idle" <=> client[d] = "idle"
      /\ \A d \in Clients : exit'[d] # "none" <=> client'[d] = "ended"
      /\ \A d \in Clients :
           client'[d] \in {"idle", "waiting"} => run'[d]["direct"] = "none"
      /\ NoFalseGreen'
  BY <1>0, <1>1, ReplyInv
<1>3. TypeOK'
  BY <1>0, <1>2 DEF TypeOK, TaskStates
<1>4. MessageInv'
  BY <1>0, <1>2 DEF MessageInv, TypeOK
<1>5. AnswerInv'
  BY <1>0, <1>2 DEF AnswerInv, TypeOK
<1>6. PermitsBalance'
  BY <1>0, BalanceKept DEF BackgroundTasks, TypeOK
<1> QED
  BY <1>2, <1>3, <1>4, <1>5, <1>6

\* _on_task_done forgets the task and returns its permit.
LEMMA TaskDoneInv ==
    ASSUME DaemonInv, NEW c \in Clients, on_task_done(c)
    PROVE  DaemonInv'
<1> USE DEF DaemonInv
<1>0. /\ UNCHANGED <<client, exit, inbox, loop, held, is_running, run, code, claimed>>
      /\ task[c] = "ended"
      /\ task' = [task EXCEPT ![c] = "gone"]
      /\ permits' = permits + 1
  BY DEF on_task_done, clientVars, runVars
<1>1. TypeOK'
  BY <1>0 DEF TypeOK, TaskStates
<1>2. MessageInv' /\ AnswerInv' /\ NoFalseGreen'
  BY <1>0 DEF MessageInv, AnswerInv, NoFalseGreen, TypeOK
<1>3. PermitsBalance'
  BY BalanceDone
<1> QED
  BY <1>1, <1>2, <1>3

\* A step of the loop that touches neither the clients nor the runs keeps
\* what is said of their answers, if no started task is taken back.
LEMMA AnswersKept ==
    ASSUME DaemonInv, UNCHANGED <<client, exit, run, code>>,
           \A c \in Clients :
              task[c] \notin {"none", "created"} => task'[c] \notin {"none", "created"}
    PROVE  AnswerInv' /\ NoFalseGreen'
BY DEF DaemonInv, AnswerInv, NoFalseGreen

\* start() receives a message and creates its task or waits for a permit.
LEMMA ReceiveInv ==
    ASSUME DaemonInv, NEW c \in Clients, Receive(c)
    PROVE  DaemonInv'
<1> USE DEF DaemonInv
<1>0. /\ UNCHANGED <<client, exit, is_running, run, code, claimed>>
      /\ loop = "poll" /\ c \in inbox
      /\ inbox' = inbox \ {c}
  BY DEF Receive, clientVars, runVars
<1>1. task[c] = "none" /\ client[c] # "idle" /\ held = NoClient
  BY <1>0 DEF MessageInv, TypeOK
<1>2. CASE permits > 0
  <2>1. CreateTask(c) /\ held' = held
    BY <1>2 DEF Receive
  <2>2. /\ PermitsBalance'
        /\ permits' \in Nat
        /\ task' \in [Clients -> TaskStates]
        /\ loop' \in {"poll", "drain"}
        /\ task'[c] = "created"
        /\ \A b \in Clients \ {c} : task'[b] = task[b]
    BY <1>1, <2>1, BalanceCreate
  <2>3. TypeOK'
    BY <1>0, <2>1, <2>2 DEF TypeOK, LoopStates
  <2>4. MessageInv'
    BY <1>0, <1>1, <2>1, <2>2, ClientsAssumption DEF MessageInv, TypeOK
  <2>5. AnswerInv' /\ NoFalseGreen'
    BY <1>0, <1>1, <2>2, AnswersKept
  <2> QED
    BY <2>2, <2>3, <2>4, <2>5
<1>3. CASE ~(permits > 0)
  <2>1. loop' = "acquire" /\ held' = c /\ UNCHANGED <<permits, task>>
    BY <1>3 DEF Receive
  <2>2. TypeOK'
    BY <1>0, <2>1 DEF TypeOK, LoopStates
  <2>3. MessageInv'
    BY <1>0, <1>1, <2>1, ClientsAssumption DEF MessageInv, TypeOK
  <2>4. AnswerInv' /\ NoFalseGreen'
    BY <1>0, <2>1, AnswersKept
  <2>5. PermitsBalance'
    BY <2>1, BalanceKept DEF BackgroundTasks
  <2> QED
    BY <2>2, <2>3, <2>4, <2>5
<1> QED
  BY <1>2, <1>3

\* start() gets the permit it waited for.
LEMMA AcquireInv ==
    ASSUME DaemonInv, Acquire
    PROVE  DaemonInv'
<1> USE DEF DaemonInv
<1>0. /\ UNCHANGED <<client, exit, inbox, is_running, run, code, claimed>>
      /\ loop = "acquire" /\ CreateTask(held) /\ held' = NoClient
  BY DEF Acquire, clientVars, runVars
<1>1. PICK c \in Clients : c = held
  BY <1>0 DEF MessageInv, TypeOK
<1>2. task[c] = "none" /\ client[c] # "idle" /\ c \notin inbox
  BY <1>1 DEF MessageInv
<1>3. /\ PermitsBalance'
      /\ permits' \in Nat
      /\ task' \in [Clients -> TaskStates]
      /\ loop' \in {"poll", "drain"}
      /\ task'[c] = "created"
      /\ \A b \in Clients \ {c} : task'[b] = task[b]
  BY <1>0, <1>1, <1>2, BalanceCreate
<1>4. TypeOK'
  BY <1>0, <1>3 DEF TypeOK, LoopStates
<1>5. MessageInv'
  BY <1>0, <1>2, <1>3, ClientsAssumption DEF MessageInv, TypeOK
<1>6. AnswerInv' /\ NoFalseGreen'
  BY <1>0, <1>2, <1>3, AnswersKept
<1> QED
  BY <1>3, <1>4, <1>5, <1>6

\* Dropped frames, time-outs, stop(), signals and the end of the shutdown
\* move only the loop.
LEMMA LoopMovesInv ==
    ASSUME DaemonInv, UNCHANGED <<client, exit, permits, task, run, code, claimed>>,
           inbox' \subseteq inbox, loop' \in LoopStates, is_running' \in BOOLEAN,
           (loop' # "acquire" /\ held' = NoClient) \/ UNCHANGED <<loop, held>>
    PROVE  DaemonInv'
<1> USE DEF DaemonInv
<1>1. TypeOK'
  BY DEF TypeOK
<1>2. MessageInv'
  BY ClientsAssumption DEF MessageInv, TypeOK
<1>3. AnswerInv' /\ NoFalseGreen'
  BY AnswersKept
<1>4. PermitsBalance'
  BY BalanceKept DEF BackgroundTasks
<1> QED
  BY <1>1, <1>2, <1>3, <1>4

\* _graceful_shutdown, or asyncio.run after it, cancels the tasks that are
\* left; their callbacks still have to run.
LEMMA CancelInv ==
    ASSUME DaemonInv, CancelPending, loop' \in {"gather", "closed"},
           loop # "acquire",
           UNCHANGED <<client, exit, inbox, held, is_running, permits, run, code, claimed>>
    PROVE  DaemonInv'
<1> USE DEF DaemonInv
<1>1. \A c \in Clients : task'[c] = IF c \in Pending THEN "ended" ELSE task[c]
  BY DEF CancelPending
<1>2. TypeOK'
  BY <1>1 DEF CancelPending, TypeOK, TaskStates, LoopStates
<1>3. MessageInv'
  BY <1>1 DEF MessageInv, TypeOK, Pending
<1>4. AnswerInv' /\ NoFalseGreen'
  BY <1>1, AnswersKept
<1>5. PermitsBalance'
  BY <1>1, BalanceKept DEF BackgroundTasks, Pending
<1> QED
  BY <1>2, <1>3, <1>4, <1>5

\* Every step preserves the invariant.
LEMMA NextInv == DaemonInv /\ [Next]_vars => DaemonInv'
<1> SUFFICES ASSUME DaemonInv, [Next]_vars PROVE DaemonInv'
  OBVIOUS
<1> USE DEF DaemonInv
<1>0. Shutdown \in {"closed", "drain"}
  BY DEF Shutdown
<1>a. loop # "acquire" => held = NoClient
  BY DEF MessageInv
<1>1. ASSUME NEW c \in Clients, ClientStep(c) PROVE DaemonInv'
  BY <1>1, SendInv, ReceiveTimeoutInv, DirectEndsInv DEF ClientStep
<1>2. ASSUME NEW c \in Clients, TaskStep(c) PROVE DaemonInv'
  BY <1>2, TaskCallsInv, TaskEndsInv, TaskDoneInv DEF TaskStep
<1>3. ASSUME NEW c \in Clients, DropGarbled(c) PROVE DaemonInv'
  <2>1. /\ UNCHANGED <<client, exit, permits, task, run, code, claimed>>
        /\ UNCHANGED <<held, is_running>>
        /\ inbox' \subseteq inbox /\ loop = "poll"
        /\ loop' \in {"poll", "closed", "drain"}
    BY <1>0, <1>3 DEF DropGarbled, clientVars, runVars
  <2> QED
    BY <1>a, <2>1, LoopMovesInv DEF LoopStates, TypeOK
<1>4. CASE PollTimeout \/ DrainDone \/ GatherDone
  <2>1. /\ UNCHANGED <<client, exit, permits, task, run, code, claimed>>
        /\ UNCHANGED <<inbox, held, is_running>>
        /\ loop # "acquire"
        /\ loop' \in {"closed", "drain"}
    BY <1>0, <1>4 DEF PollTimeout, DrainDone, GatherDone, clientVars, runVars
  <2> QED
    BY <1>a, <2>1, LoopMovesInv DEF LoopStates, TypeOK
<1>5. CASE DrainTimeout \/ RunnerCancels
  <2>1. /\ CancelPending /\ loop' \in {"gather", "closed"} /\ loop # "acquire"
        /\ UNCHANGED <<client, exit, inbox, held, is_running, permits, run, code, claimed>>
    BY <1>5 DEF DrainTimeout, RunnerCancels, clientVars, runVars
  <2> QED
    BY <2>1, CancelInv
<1>6. CASE stop
  <2>1. /\ UNCHANGED <<client, exit, permits, task, run, code, claimed>>
        /\ UNCHANGED <<inbox, loop, held>>
        /\ is_running' = FALSE
    BY <1>6 DEF stop, clientVars, runVars
  <2> QED
    BY <2>1, LoopMovesInv DEF TypeOK
<1>7. CASE on_signal
  <2>1. UNCHANGED <<client, exit, permits, task, run, code, claimed, inbox>>
    BY <1>7 DEF on_signal, clientVars, runVars
  <2>2. CASE loop \in {"poll", "acquire"}
    <3>1. loop' = Shutdown /\ held' = NoClient /\ is_running' = FALSE
      BY <1>7, <2>2 DEF on_signal
    <3> QED
      BY <1>0, <2>1, <3>1, LoopMovesInv DEF LoopStates
  <2>3. CASE loop \in {"drain", "gather"}
    <3>1. loop' = "aborted" /\ UNCHANGED <<held, is_running>>
      BY <1>7, <2>3 DEF on_signal
    <3> QED
      BY <1>a, <2>1, <2>3, <3>1, LoopMovesInv DEF LoopStates, TypeOK
  <2> QED
    BY <1>7, <2>2, <2>3 DEF on_signal
<1>8. CASE UNCHANGED vars
  BY <1>8, LoopMovesInv DEF vars, TypeOK
<1> QED
  BY <1>1, <1>2, <1>3, <1>4, <1>5, <1>6, <1>7, <1>8, RunStepInv, ReceiveInv,
     AcquireInv DEF Next, LoopStep

-----------------------------------------------------------------------------
(* The theorems.                                                           *)

\* The invariant of the daemon and its clients, for any number of clients and
\* any max_concurrent_jobs.
THEOREM DaemonInvariant == Spec => []DaemonInv
BY InitInv, NextInv, PTL DEF Spec

\* Router, tasks, threads and clients only ever hold the values that ReviewDaemon
\* declares for them, whatever is cancelled, lost or answered late.
THEOREM DaemonTypes == Spec => []TypeOK
<1>1. DaemonInv => TypeOK
  BY DEF DaemonInv
<1> QED
  BY <1>1, DaemonInvariant, PTL

\* The semaphore of ZmqRouter and its background tasks always add up to
\* max_concurrent_jobs: _on_task_done runs once for each task, however the
\* task ended.
THEOREM PermitsBalanced == Spec => []PermitsBalance
<1>1. DaemonInv => PermitsBalance
  BY DEF DaemonInv
<1> QED
  BY <1>1, DaemonInvariant, PTL

\* jemmin_cli exits with 0 only for a run of its own call that passed.
THEOREM FailClosedGate == Spec => []NoFalseGreen
<1>1. DaemonInv => NoFalseGreen
  BY DEF DaemonInv
<1> QED
  BY <1>1, DaemonInvariant, PTL

\* A reply of the daemon that comes after the time-out of ZmqClient.send
\* never changes the answer of the call.
THEOREM AnsweredOnce == Spec => ExitIsFinal
<1> DEFINE Final == \A c \in Clients :
             client[c] \in {"direct", "ended"} /\ exit'[c] # exit[c] =>
                 client[c] = "direct" /\ run[c]["direct"] = "finished"
<1>1. DaemonInv /\ [Next]_vars => [Final]_vars
  <2> SUFFICES ASSUME DaemonInv, [Next]_vars, NEW c \in Clients,
                      client[c] \in {"direct", "ended"}, exit'[c] # exit[c]
               PROVE  client[c] = "direct" /\ run[c]["direct"] = "finished"
    OBVIOUS
  <2>0. TypeOK
    BY DEF DaemonInv
  <2>1. ASSUME NEW d \in Clients, ClientStep(d)
        PROVE  client[c] = "direct" /\ run[c]["direct"] = "finished"
    <3>1. c = d
      BY <2>0, <2>1 DEF ClientStep, Send, ReceiveTimeout, DirectEnds, Ends, TypeOK
    <3> QED
      BY <2>0, <2>1, <3>1
         DEF ClientStep, Send, ReceiveTimeout, DirectEnds, Ends, TypeOK
  <2>2. ASSUME NEW d \in Clients, TaskStep(d) PROVE FALSE
    <3>1. UNCHANGED exit \/ \E status : Reply(d, status)
      BY <2>2 DEF TaskStep, TaskCalls, TaskReplies, TaskRepliesError, on_task_done,
                  clientVars
    <3>2. ASSUME NEW status, Reply(d, status) PROVE exit'[c] = exit[c]
      BY <2>0, <3>2 DEF Reply, Ends, clientVars, TypeOK
    <3> QED
      BY <3>1, <3>2
  <2>3. ASSUME NEW d \in Clients, RunStep(d) \/ Receive(d) \/ DropGarbled(d)
        PROVE  FALSE
    BY <2>3 DEF RunStep, RunClaims, RunIsDuplicate, RunEnds, Receive, DropGarbled,
                clientVars
  <2>4. ASSUME LoopStep \/ stop \/ on_signal \/ UNCHANGED vars PROVE FALSE
    BY <2>4 DEF LoopStep, Acquire, PollTimeout, DrainDone, DrainTimeout, GatherDone,
                RunnerCancels, stop, on_signal, clientVars, vars
  <2> QED
    BY <2>1, <2>2, <2>3, <2>4 DEF Next
<1> QED
  BY <1>1, DaemonInvariant, PTL DEF Spec, ExitIsFinal
=============================================================================
