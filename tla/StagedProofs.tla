---------------------------- MODULE StagedProofs -----------------------------
(***************************************************************************)
(* Proofs about jemmin_cli --staged, its system prompt and its provider,   *)
(* for every list of staged files, every number of runs and saves and      *)
(* every time-out.                                                         *)
(***************************************************************************)
EXTENDS StagedReview, SequenceTheorems, TLAPS

-----------------------------------------------------------------------------
\* The steps of the prompt loader and of the provider.
PromptStep == LookForFile \/ StatFile \/ ReadFile \/ PromptEnvironment
AnyProviderStep == ProviderStep \/ Probe \/ NewProvider \/ ServerSends

\* The file has the time of the last save, and nothing is kept under a later
\* time.
PromptInv ==
    /\ PromptTypeOK
    /\ saves >= 1
    /\ prompt # Missing => prompt.mtime = saves
    /\ loaded # Missing => loaded.mtime <= saves
    /\ lookup = "read" => seen <= saves
    /\ PromptIsCurrent

\* A line that ended late leaves the clock past the deadline, so none is begun
\* after it.
ProviderInv ==
    /\ ProviderTypeOK
    /\ late > 0 => elapsed > TotalTimeout
    /\ stream \in {"off", "probe", "connect", "line"} => late = 0
    /\ CallIsBounded

\* Right after the reset the database has no row of --staged.
ResetInv ==
    /\ sameDir /\ pc \in {"select", "create"} =>
          \A f : <<f, "staged">> \notin rows
    /\ NoSelfCollision

\* The answers that do not let a file pass.
Objections == {"rejects", "strange", "odd"}

\* A file without an outcome is still to be reviewed, and as long as the exit
\* code is 0 nothing has spoken against a file.
GreenTypes ==
    /\ todo \in Seq(Files)
    /\ outcome \in [Files -> Outcomes]
    /\ said \in [Files -> Answers \cup {"failed", "none"}]
    /\ answer \in Answers \cup {"failed", "none"}
GreenInv ==
    /\ GreenTypes
    /\ pc \notin {"idle", "exited"} =>
          /\ todo # <<>>
          /\ \A f \in Files : outcome[f] = "none" =>
                \E i \in 1 .. Len(todo) : todo[i] = f
    /\ pc = "exited" /\ exit_code = 0 =>
          \A f \in Files : outcome[f] # "none"
    /\ exit_code = 0 =>
          \A f \in Files :
              /\ outcome[f] \in {"none", "passed", "skipped", "unstaged"}
              /\ said[f] \notin Objections

-----------------------------------------------------------------------------
\* A step of Next is a step of the loader, or leaves it alone; the same holds
\* of the provider.
LEMMA StagedParts ==
  ASSUME [Next]_vars
  PROVE  [PromptStep]_promptVars /\ [AnyProviderStep]_providerVars
<1>1. CASE List \/ SkipFile \/ DiffFile \/ UnlinkSpool \/ CreateRow
  BY <1>1, Zenon DEF List, SkipFile, DiffFile, UnlinkSpool, CreateRow
<1>2. CASE SelectProvider
  BY <1>2, Zenon DEF SelectProvider, AnyProviderStep
<1>3. CASE DuplicateRow \/ AgentsBlock \/ GateAnswers \/ RunRaises
  BY <1>3, Zenon
  DEF DuplicateRow, AgentsBlock, GateAnswers, RunRaises, AnyProviderStep
<1>4. CASE AgentsPass
  BY <1>4, Zenon DEF AgentsPass, PromptStep
<1>5. CASE LoadPrompt
  BY <1>5, Zenon DEF LoadPrompt, PromptStep
<1>6. CASE Generate
  BY <1>6, Zenon DEF Generate, AnyProviderStep
<1>7. ASSUME NEW f \in Files, OtherCreatesRow(f)
      PROVE  [PromptStep]_promptVars /\ [AnyProviderStep]_providerVars
  BY <1>7, Zenon DEF OtherCreatesRow
<1>8. CASE PromptEnvironment /\ UNCHANGED <<providerVars, stagedVars>>
  BY <1>8, Zenon DEF PromptStep
<1>9. CASE UNCHANGED vars
  BY <1>9, Zenon DEF vars
<1>10. CASE ServerSends /\ UNCHANGED <<promptVars, stagedVars>>
  BY <1>10, Zenon DEF AnyProviderStep
<1> QED
  BY <1>1, <1>2, <1>3, <1>4, <1>5, <1>6, <1>7, <1>8, <1>9, <1>10
  DEF Next, StagedStep

\* The default is kept under no time of a file.
LEMMA DefaultKept ==
  ASSUME PromptInv, UseDefault, UNCHANGED <<saves, prompt, seen>>
  PROVE  PromptInv'
<1>1. [text |-> DefaultPrompt, mtime |-> 0] \in Loaded
  BY DEF Loaded
<1>2. loaded'.mtime = 0 /\ loaded' \in Loaded /\ lookup' = "idle"
  BY <1>1 DEF UseDefault
<1> QED BY <1>2 DEF PromptInv, PromptTypeOK, PromptIsCurrent, File

\* The prompt loader, whatever the developer does to the file between its
\* steps.
LEMMA PromptKept == PromptInv /\ [PromptStep]_promptVars => PromptInv'
<1> SUFFICES ASSUME PromptInv, [PromptStep]_promptVars PROVE PromptInv'
  OBVIOUS
<1>T. /\ saves \in Nat /\ seen \in Nat
      /\ prompt # Missing => prompt \in File /\ prompt.mtime \in Nat
                             /\ prompt.text \in Prompts \cup {Blank}
      /\ loaded # Missing => loaded \in Loaded /\ loaded.mtime \in Nat
  BY DEF PromptInv, PromptTypeOK, File, Loaded
<1>1. CASE LookForFile
  <2>1. CASE prompt = Missing
    BY <1>1, <2>1, DefaultKept DEF LookForFile
  <2>2. CASE prompt # Missing
    BY <1>1, <2>2 DEF LookForFile, PromptInv, PromptTypeOK, PromptIsCurrent
  <2> QED BY <2>1, <2>2
<1>2. CASE StatFile
  <2>1. seen' \in Nat /\ seen' <= saves
    BY <1>2, <1>T DEF StatFile, PromptInv
  <2> QED
    BY <1>2, <2>1 DEF StatFile, PromptInv, PromptTypeOK, PromptIsCurrent
<1>3. CASE ReadFile
  <2>1. CASE prompt = Missing \/ prompt.text = Blank
    BY <1>3, <2>1, DefaultKept DEF ReadFile
  <2>2. CASE ~(prompt = Missing \/ prompt.text = Blank)
    <3>1. loaded' = [text |-> prompt.text, mtime |-> seen] /\ lookup' = "idle"
      BY <1>3, <2>2 DEF ReadFile
    <3>2. loaded' \in Loaded /\ loaded'.text = prompt.text /\ loaded'.mtime = seen
      BY <3>1, <2>2, <1>T DEF Loaded
    <3>3. seen <= saves /\ UNCHANGED <<saves, prompt, seen>>
      BY <1>3 DEF ReadFile, PromptInv
    <3> QED
      BY <3>1, <3>2, <3>3 DEF PromptInv, PromptTypeOK, PromptIsCurrent
  <2> QED BY <2>1, <2>2
<1>4. ASSUME NEW x \in Prompts \cup {Blank}, SavePrompt(x) PROVE PromptInv'
  <2>1. saves' = saves + 1 /\ UNCHANGED <<loaded, lookup, seen>>
    BY <1>4 DEF SavePrompt
  <2>2. prompt' \in File /\ prompt'.mtime = saves + 1
    BY <1>4, <1>T DEF SavePrompt, File
  <2>3. loaded # Missing => loaded.mtime # saves + 1
    BY <1>T DEF PromptInv
  <2> QED BY <2>1, <2>2, <2>3, <1>T DEF PromptInv, PromptTypeOK, PromptIsCurrent
<1>5. CASE RemovePrompt
  BY <1>5 DEF RemovePrompt, PromptInv, PromptTypeOK, PromptIsCurrent
<1>6. CASE UNCHANGED promptVars
  BY <1>6 DEF promptVars, PromptInv, PromptTypeOK, PromptIsCurrent
<1> QED
  BY <1>1, <1>2, <1>3, <1>4, <1>5, <1>6 DEF PromptStep, PromptEnvironment

\* Whatever a recv takes, the clock does not run backwards.
LEMMA ClockRuns ==
  ASSUME ProviderTypeOK, RecvTakes
  PROVE  /\ elapsed' \in 0 .. TotalTimeout + 1
         /\ elapsed > TotalTimeout => elapsed' > TotalTimeout
  BY TimeoutAssumption DEF ProviderTypeOK, RecvTakes

\* A read that was begun in time is the first that may end late.
LEMMA RestReceived ==
  ASSUME ProviderInv, stream \in {"connect", "line"}, ReceiveRest
  PROVE  /\ inbox' = "none" /\ elapsed' \in 0 .. TotalTimeout + 1
         /\ late' \in {0, 1}
         /\ late' > 0 => elapsed' > TotalTimeout
<1>1. late = 0 /\ elapsed' \in 0 .. TotalTimeout + 1
  BY ClockRuns DEF ProviderInv, ReceiveRest
<1> QED BY <1>1 DEF ReceiveRest

\* The provider reads one line past its deadline at most.
LEMMA ProviderKept == ProviderInv /\ [AnyProviderStep]_providerVars => ProviderInv'
<1> SUFFICES ASSUME ProviderInv, [AnyProviderStep]_providerVars PROVE ProviderInv'
  OBVIOUS
<1>T. TotalTimeout \in Nat /\ ProviderTypeOK /\ late \in Nat /\ elapsed \in Nat
  BY TimeoutAssumption DEF ProviderInv, ProviderTypeOK
<1> USE <1>T DEF ProviderInv, ProviderTypeOK, CallIsBounded
<1>1. CASE StartStream
  BY <1>1 DEF StartStream, End
<1>2. CASE Connect \/ ReadToken \/ ReadLast
  <2>1. /\ inbox' = "none" /\ elapsed' \in 0 .. TotalTimeout + 1
        /\ late' \in {0, 1}
        /\ late' > 0 => elapsed' > TotalTimeout
    BY <1>2, RestReceived DEF Connect, ReadToken, ReadLast
  <2>2. /\ available' = available /\ stream' \in {"loop", "ended"}
        /\ answer' \in Answers \cup {"failed", "none"}
    BY <1>2 DEF Connect, ReadToken, ReadLast, End
  <2> QED BY <2>1, <2>2
<1>3. CASE NextLine
  BY <1>3 DEF NextLine, BeforeDeadline
<1>4. CASE DeadlinePassed
  BY <1>4 DEF DeadlinePassed, End
<1>5. CASE ReceivePart
  BY <1>5, ClockRuns DEF ReceivePart
<1>6. CASE TransferFails
  BY <1>6, ClockRuns DEF TransferFails, End, Answers
<1>7. CASE StartProbe \/ ProbeAnswered \/ ProbeFails
  BY <1>7 DEF StartProbe, ProbeAnswered, ProbeFails
<1>8. CASE NewProvider
  BY <1>8 DEF NewProvider
<1>9. CASE ServerSends
  BY <1>9 DEF ServerSends
<1>10. CASE UNCHANGED providerVars
  BY <1>10 DEF providerVars
<1> QED
  BY <1>1, <1>2, <1>3, <1>4, <1>5, <1>6, <1>7, <1>8, <1>9, <1>10
  DEF AnyProviderStep, ProviderStep, Probe

\* The reset and the rows that come in after it.
LEMMA ResetKept == ResetInv /\ [Next]_vars => ResetInv'
<1> SUFFICES ASSUME ResetInv, [Next]_vars PROVE ResetInv'
  OBVIOUS
<1> USE DEF ResetInv, NoSelfCollision
<1>1. CASE List \/ SkipFile \/ DiffFile
  BY <1>1 DEF List, SkipFile, DiffFile, Advance
<1>2. CASE UnlinkSpool
  BY <1>2 DEF UnlinkSpool, Cleared
<1>3. CASE SelectProvider \/ RunRaises
  BY <1>3 DEF SelectProvider, RunRaises
<1>4. CASE CreateRow
  BY <1>4 DEF CreateRow
<1>5. CASE DuplicateRow
  <2>1. pc' \notin {"select", "create"} /\ sameDir' = sameDir
    BY <1>5 DEF DuplicateRow, FileDone, Advance
  <2>2. PICK o \in Owners : <<f0, o>> \in OwnRows /\ met' = met \cup {o}
    BY <1>5 DEF DuplicateRow
  <2>3. sameDir => o # "staged"
    BY <2>2, <1>5 DEF OwnRows, DuplicateRow
  <2> QED BY <2>1, <2>2, <2>3
<1>6. CASE AgentsBlock \/ AgentsPass
  BY <1>6 DEF AgentsBlock, AgentsPass, FileDone, Advance
<1>7. CASE LoadPrompt \/ Generate \/ GateAnswers
  BY <1>7 DEF LoadPrompt, Generate, stagedVars, GateAnswers, FileDone, Advance
<1>8. ASSUME NEW f \in Files, OtherCreatesRow(f) PROVE ResetInv'
  BY <1>8 DEF OtherCreatesRow
<1>9. CASE \/ PromptEnvironment /\ UNCHANGED <<providerVars, stagedVars>>
           \/ ServerSends /\ UNCHANGED <<promptVars, stagedVars>>
           \/ UNCHANGED vars
  BY <1>9 DEF stagedVars, vars
<1> QED
  BY <1>1, <1>2, <1>3, <1>4, <1>5, <1>6, <1>7, <1>8, <1>9 DEF Next, StagedStep

-----------------------------------------------------------------------------
\* The list of staged files is a sequence of the files it lists.
LEMMA StagedList ==
  /\ Staged \in Seq(Files) /\ Staged # <<>>
  /\ \A f \in Files : \E i \in 1 .. Len(Staged) : Staged[i] = f
<1>1. \A i \in 1 .. Len(Staged) : Staged[i] \in Files
  BY DEF Files
<1>2. Staged \in Seq(Files)
  <2>1. Len(Staged) \in Nat /\ Staged = [i \in 1 .. Len(Staged) |-> Staged[i]]
    BY StagedAssumption
  <2>2. [i \in 1 .. Len(Staged) |-> Staged[i]] \in Seq(Files)
    BY <1>1, <2>1
  <2> QED BY <2>1, <2>2
<1> QED BY <1>2, StagedAssumption DEF Files

\* The loop drops the file in hand and no other.
LEMMA AdvanceDrops ==
  ASSUME GreenInv, pc \notin {"idle", "exited"}, Advance
  PROVE  /\ f0 \in Files /\ todo' \in Seq(Files)
         /\ pc' \in {"exited", "diff"}
         /\ pc' = "diff" => todo' # <<>>
         /\ \A f \in Files : f # f0 /\ outcome[f] = "none" =>
               /\ pc' = "diff"
               /\ \E i \in 1 .. Len(todo') : todo'[i] = f
<1>1. todo \in Seq(Files) /\ todo # <<>>
  BY DEF GreenInv, GreenTypes
<1>2. /\ f0 \in Files /\ todo' \in Seq(Files) /\ Len(todo') = Len(todo) - 1
      /\ \A i \in 1 .. Len(todo') : todo'[i] = todo[i + 1]
      /\ todo' = Tail(todo)
  BY <1>1, HeadTailProperties DEF Advance, f0
<1>3. Len(todo) \in Nat \ {0} /\ f0 = todo[1]
  BY <1>1 DEF f0
<1>4. pc' = IF Len(todo) = 1 THEN "exited" ELSE "diff"
  BY DEF Advance
<1>5. pc' = "diff" => todo' # <<>>
  <2>1. pc' = "diff" => Len(todo') # 0
    BY <1>2, <1>3, <1>4
  <2>2. Len(<<>>) = 0
    OBVIOUS
  <2> QED BY <2>1, <2>2
<1>6. ASSUME NEW f \in Files, f # f0, outcome[f] = "none"
      PROVE  pc' = "diff" /\ \E i \in 1 .. Len(todo') : todo'[i] = f
  <2>1. PICK j \in 1 .. Len(todo) : todo[j] = f
    BY <1>6 DEF GreenInv
  <2>2. j # 1
    BY <2>1, <1>3, <1>6
  <2>3. j - 1 \in 1 .. Len(todo') /\ todo'[j - 1] = f
    BY <2>1, <2>2, <1>2, <1>3
  <2>4. Len(todo) # 1
    BY <2>1, <2>2
  <2> QED BY <2>3, <2>4, <1>4
<1> QED BY <1>2, <1>4, <1>5, <1>6

\* A file is done with: its outcome is recorded and the exit code keeps track.
LEMMA GreenFileDone ==
  ASSUME GreenInv, pc \notin {"idle", "exited"}, Advance,
         NEW o \in Outcomes \ {"none"}, outcome' = [outcome EXCEPT ![f0] = o],
         exit_code' = 0 => exit_code = 0 /\ o \in {"passed", "skipped"},
         answer' \in Answers \cup {"failed", "none"},
         NEW a \in Answers \cup {"failed", "none"},
         said' = said \/ said' = [said EXCEPT ![f0] = a],
         exit_code' = 0 /\ said' # said => a \notin Objections
  PROVE  GreenInv'
<1>1. /\ f0 \in Files /\ todo' \in Seq(Files)
      /\ pc' \in {"exited", "diff"}
      /\ pc' = "diff" => todo' # <<>>
      /\ \A f \in Files : f # f0 /\ outcome[f] = "none" =>
            /\ pc' = "diff"
            /\ \E i \in 1 .. Len(todo') : todo'[i] = f
  BY AdvanceDrops
<1>T. /\ outcome \in [Files -> Outcomes]
      /\ said \in [Files -> Answers \cup {"failed", "none"}]
  BY DEF GreenInv, GreenTypes
<1>2. \A f \in Files : outcome'[f] = IF f = f0 THEN o ELSE outcome[f]
  BY <1>T
<1>3. outcome' \in [Files -> Outcomes] /\ said' \in [Files -> Answers \cup {"failed", "none"}]
  BY <1>T, <1>1
<1>4. GreenTypes'
  BY <1>1, <1>3 DEF GreenTypes
<1>5. \A f \in Files : outcome'[f] = "none" =>
         pc' = "diff" /\ \E i \in 1 .. Len(todo') : todo'[i] = f
  BY <1>1, <1>2
<1>6. ASSUME exit_code' = 0, NEW f \in Files
      PROVE  /\ outcome'[f] \in {"none", "passed", "skipped", "unstaged"}
             /\ said'[f] \notin Objections
  <2>1. outcome[f] \in {"none", "passed", "skipped", "unstaged"} /\ said[f] \notin Objections
    BY <1>6 DEF GreenInv
  <2>2. outcome'[f] \in {"none", "passed", "skipped", "unstaged"}
    BY <1>6, <1>2, <2>1
  <2>3. CASE said' = said
    BY <2>1, <2>2, <2>3
  <2>4. CASE said' # said
    <3>1. said'[f] = IF f = f0 THEN a ELSE said[f]
      BY <2>4, <1>T
    <3> QED BY <1>6, <2>1, <2>2, <2>4, <3>1
  <2> QED BY <2>3, <2>4
<1> QED BY <1>1, <1>4, <1>5, <1>6 DEF GreenInv

\* A step inside the review of one file.
LEMMA GreenFrame ==
  ASSUME GreenInv, pc' \notin {"idle", "exited"}, pc \notin {"idle", "exited"},
         UNCHANGED <<todo, exit_code, outcome, said>>,
         answer' \in Answers \cup {"failed", "none"}
  PROVE  GreenInv'
  BY DEF GreenInv, GreenTypes

\* The answer the provider gives is one the gate knows.
LEMMA AnswerKept ==
  ASSUME answer \in Answers \cup {"failed", "none"}, AnyProviderStep
  PROVE  answer' \in Answers \cup {"failed", "none"}
  BY DEF AnyProviderStep, ProviderStep, StartStream, Connect, NextLine, ReceivePart,
         ReadToken, ReadLast, DeadlinePassed, TransferFails, Probe, StartProbe,
         ProbeAnswered, ProbeFails, NewProvider, ServerSends, End, Answers

\* What each step of --staged does to exit code and outcomes.
LEMMA GreenKept == GreenInv /\ [Next]_vars => GreenInv'
<1> SUFFICES ASSUME GreenInv, [Next]_vars PROVE GreenInv'
  OBVIOUS
<1>A. answer \in Answers \cup {"failed", "none"}
  BY DEF GreenInv, GreenTypes
<1>B. answer' \in Answers \cup {"failed", "none"}
  <2>1. AnyProviderStep \/ UNCHANGED providerVars
    BY StagedParts
  <2>2. CASE UNCHANGED providerVars
    BY <2>2, <1>A DEF providerVars
  <2> QED BY <2>1, <2>2, <1>A, AnswerKept
<1>1. CASE List
  <2>1. said' = AllFiles("none")
    BY <1>1 DEF List
  <2>2. \/ pc' = "exited" /\ todo' = <<>> /\ exit_code' = 1 /\ outcome' = AllFiles("none")
        \/ pc' = "exited" /\ todo' = <<>> /\ exit_code' = 0 /\ outcome' = AllFiles("unstaged")
        \/ pc' = "diff" /\ todo' = Staged /\ exit_code' = 0 /\ outcome' = AllFiles("none")
    BY <1>1, Zenon DEF List
  <2>3. /\ \A f \in Files : said'[f] = "none"
        /\ said' \in [Files -> Answers \cup {"failed", "none"}]
    BY <2>1 DEF AllFiles
  <2>4. ASSUME NEW o \in {"none", "unstaged"}
        PROVE  AllFiles(o) \in [Files -> Outcomes] /\ \A f \in Files : AllFiles(o)[f] = o
    BY DEF AllFiles, Outcomes
  <2>5. <<>> \in Seq(Files) /\ Staged \in Seq(Files)
    BY StagedList
  <2>6. CASE /\ pc' = "exited" /\ todo' = <<>> /\ exit_code' = 1
             /\ outcome' = AllFiles("none")
    <3>1. GreenTypes'
      BY <1>B, <2>3, <2>4, <2>5, <2>6 DEF GreenTypes
    <3> QED BY <2>6, <3>1 DEF GreenInv
  <2>7. CASE /\ pc' = "exited" /\ todo' = <<>> /\ exit_code' = 0
             /\ outcome' = AllFiles("unstaged")
    <3>1. GreenTypes' /\ \A f \in Files : outcome'[f] = "unstaged"
      BY <1>B, <2>3, <2>4, <2>5, <2>7 DEF GreenTypes
    <3> QED BY <2>3, <2>7, <3>1 DEF GreenInv, Objections
  <2>8. CASE /\ pc' = "diff" /\ todo' = Staged /\ exit_code' = 0
             /\ outcome' = AllFiles("none")
    <3>1. GreenTypes' /\ \A f \in Files : outcome'[f] = "none"
      BY <1>B, <2>3, <2>4, <2>5, <2>8 DEF GreenTypes
    <3> QED BY <2>3, <2>8, <3>1, StagedList DEF GreenInv, Objections
  <2> QED BY <2>2, <2>6, <2>7, <2>8
<1>2. CASE SkipFile
  <2>1. /\ pc \notin {"idle", "exited"} /\ Advance
        /\ outcome' = [outcome EXCEPT ![f0] = "skipped"]
        /\ exit_code' = exit_code /\ said' = said
    BY <1>2 DEF SkipFile
  <2>2. "skipped" \in Outcomes \ {"none"} /\ "none" \in Answers \cup {"failed", "none"}
    BY DEF Outcomes
  <2> QED BY <2>1, <2>2, <1>B, GreenFileDone
<1>3. CASE DiffFile \/ UnlinkSpool \/ CreateRow
  BY <1>3, <1>B, GreenFrame DEF DiffFile, UnlinkSpool, CreateRow
<1>4. CASE SelectProvider
  <2>1. /\ pc = "select" /\ pc' \in {"select", "create"}
        /\ UNCHANGED <<todo, exit_code, outcome, said>>
    BY <1>4 DEF SelectProvider
  <2> QED BY <2>1, <1>B, GreenFrame
<1>5. ASSUME NEW o \in {"duplicate", "failed"}, FileDone(o), said' = said,
             pc \notin {"idle", "exited"}
      PROVE  GreenInv'
  <2>1. /\ Advance /\ outcome' = [outcome EXCEPT ![f0] = o] /\ exit_code' = 1
    BY <1>5 DEF FileDone
  <2>2. o \in Outcomes \ {"none"}
    BY DEF Outcomes
  <2>4. exit_code' # 0
    BY <2>1
  <2> QED BY <1>5, <2>1, <2>2, <2>4, <1>A, <1>B, GreenFileDone
<1>6. CASE DuplicateRow
  BY <1>6, <1>5 DEF DuplicateRow
<1>7. CASE AgentsBlock
  BY <1>7, <1>5 DEF AgentsBlock
<1>8. CASE AgentsPass
  BY <1>8, <1>B, GreenFrame DEF AgentsPass
<1>9. CASE LoadPrompt
  <2>1. /\ pc = "prompt" /\ pc' \in {"prompt", "gate"}
        /\ UNCHANGED <<todo, exit_code, outcome, said>>
    BY <1>9 DEF LoadPrompt
  <2> QED BY <2>1, <1>B, GreenFrame
<1>10. CASE Generate
  BY <1>10, <1>B, GreenFrame DEF Generate, stagedVars
<1>11. CASE GateAnswers
  <2> DEFINE o == IF GateCode(answer) = "REVIEW_PASSED" THEN "passed" ELSE "failed"
  <2>1. /\ pc \notin {"idle", "exited"} /\ FileDone(o)
        /\ said' = [said EXCEPT ![f0] = answer]
    BY <1>11 DEF GateAnswers
  <2>2. o \in Outcomes \ {"none"} /\ o \in {"passed", "failed"}
    BY DEF Outcomes
  <2>3. o = "passed" => answer \notin Objections
    BY DEF GateCode, Objections
  <2> HIDE DEF o
  <2>4. /\ Advance /\ outcome' = [outcome EXCEPT ![f0] = o]
        /\ exit_code' = 0 => exit_code = 0 /\ o = "passed"
    BY <2>1 DEF FileDone
  <2> QED BY <2>1, <2>2, <2>3, <2>4, <1>A, <1>B, GreenFileDone
<1>12. ASSUME UNCHANGED <<pc, todo, exit_code, outcome, said>> PROVE GreenInv'
  BY <1>12, <1>B DEF GreenInv, GreenTypes
<1>13. ASSUME NEW f \in Files, OtherCreatesRow(f) PROVE GreenInv'
  BY <1>13, <1>12 DEF OtherCreatesRow
<1>14. CASE \/ PromptEnvironment /\ UNCHANGED <<providerVars, stagedVars>>
            \/ ServerSends /\ UNCHANGED <<promptVars, stagedVars>>
            \/ UNCHANGED vars
  BY <1>14, <1>12 DEF stagedVars, vars
<1>15. CASE RunRaises
  <2>1. /\ pc' = "exited" /\ exit_code' = 1 /\ todo' = <<>>
        /\ UNCHANGED <<outcome, said>>
    BY <1>15 DEF RunRaises
  <2> QED BY <2>1, <1>B DEF GreenInv, GreenTypes
<1> QED
  BY <1>1, <1>2, <1>3, <1>4, <1>6, <1>7, <1>8, <1>9, <1>10, <1>11, <1>13, <1>14, <1>15
  DEF Next, StagedStep

-----------------------------------------------------------------------------
\* Exit code 0 means a review of its own, passed, for every staged file git gave
\* a diff of.
THEOREM GreenExit == FairSpec => []GreenIsEarned
<1>1. Init => GreenInv
  BY StagedList
  DEF Init, ProviderInit, GreenInv, GreenTypes, AllFiles, Outcomes, Objections
<1>2. GreenInv => GreenIsEarned
  BY DEF GreenInv, GreenIsEarned, Objections
<1> QED BY <1>1, <1>2, GreenKept, PTL DEF FairSpec

\* The reset of spool.db keeps --staged from meeting a row of its own.
THEOREM ResetAvoidsItself == FairSpec => []NoSelfCollision
<1>1. Init => ResetInv
  BY DEF Init, ResetInv, NoSelfCollision
<1>2. ResetInv => NoSelfCollision
  BY DEF ResetInv
<1> QED BY <1>1, <1>2, ResetKept, PTL DEF FairSpec

\* Past total_timeout a call of the provider reads one line to its end at most.
THEOREM ProviderIsBounded == FairSpec => []CallIsBounded
<1>1. Init => ProviderInv
  BY TimeoutAssumption
  DEF Init, ProviderInit, ProviderInv, ProviderTypeOK, CallIsBounded
<1>2. ProviderInv /\ [Next]_vars => ProviderInv'
  BY StagedParts, ProviderKept
<1>3. ProviderInv => CallIsBounded
  BY DEF ProviderInv
<1> QED BY <1>1, <1>2, <1>3, PTL DEF FairSpec

\* The cached system prompt is the file's whenever it is served under the
\* file's time.
THEOREM PromptStaysCurrent == FairSpec => []PromptIsCurrent
<1>1. Init => PromptInv
  BY DEF Init, PromptInit, PromptInv, PromptTypeOK, PromptIsCurrent, File
<1>2. PromptInv /\ [Next]_vars => PromptInv'
  BY StagedParts, PromptKept
<1>3. PromptInv => PromptIsCurrent
  BY DEF PromptInv
<1> QED BY <1>1, <1>2, <1>3, PTL DEF FairSpec

=============================================================================
