---------------------------- MODULE MiniReviewer ----------------------------
(***************************************************************************)
(* The mini reviewer: review_targets, run by bin/mini_nitpicker as a gate  *)
(* that answers with an exit code, and by the threads that                 *)
(* bin/mini_nitpicker_daemon starts for the saves it watches.              *)
(*                                                                         *)
(* A job is one call of review_targets.  Processes and threads interleave  *)
(* at its git commands, at the call of the model and at each file it       *)
(* writes.  A version of a file stands for its text; versions are numbered *)
(* in the order of the changes to the tree, and 0 is the one at the start: *)
(* of a new file, that it is not there.                                    *)
(***************************************************************************)
EXTENDS Naturals, Sequences, FiniteSets, SequencesExt

CONSTANTS
    Gates,        \* calls of bin/mini_nitpicker
    Staged,       \* those with --staged
    PathsOf,      \* gate -> its path arguments
    Threads,      \* review threads of the watch daemon
    Skipping,     \* jobs of processes that were told to skip
    AutoApply,    \* settings.auto_apply_patches
    Provider,     \* settings.provider
    Files,
    NewFiles,     \* those the first HEAD does not have
    MaxVersion,   \* bound on the changes to the tree
    None

Jobs == Gates \cup Threads

ASSUME JobsAssumption ==
    /\ Gates \cap Threads = {}
    /\ Staged \subseteq Gates
    /\ Skipping \subseteq Jobs
    /\ Threads \subseteq Skipping \/ Threads \cap Skipping = {}
    /\ PathsOf \in [Gates -> Seq(Files)]
    /\ AutoApply \in BOOLEAN
    /\ Provider \in {"ollama", "gemini"}
    /\ MaxVersion \in Nat
    /\ IsFiniteSet(Files)
    /\ NewFiles \subseteq Files
    /\ None \notin Files \cup {0, 1, 2}

ValidCodes == {"REVIEW_PASSED", "PATCH_PROPOSED", "REVIEW_REJECTED"}

\* What a model may put into result_code.
AnsweredCodes == ValidCodes \cup {"OTHER"}

Versions == 0..MaxVersion

\* A payload of review_targets.
Review == [by : Jobs, file : Files, version : Versions,
           code : AnsweredCodes \cup {"PATCH_APPLIED"}]

Ended == {"returned", "raised"}
PcValues == {"idle", "waiting", "targets", "diff", "model", "check", "apply",
             "log", "json", "text"} \cup Ended

VARIABLES
    work,         \* file -> its version in the working tree
    index,        \* file -> its version in the index
    head,         \* file -> its version in HEAD
    events,       \* files with an event watchdog has not delivered
    recent,       \* files whose _last_modified is within debounce_seconds
    pc,           \* job -> where it is
    todo,         \* job -> the targets left, the one in hand first
    seen,         \* job -> the version whose diff it holds
    proposed,     \* job -> the payload in hand
    payloads,     \* job -> payloads
    exit,         \* gate -> the exit code of the process
    log,          \* the lines of the review log
    latest_json,
    latest_text,
    read,         \* job -> the <<file, version>> that had a diff, a history
    answered      \* the reviews the model gave, a history

vars == <<work, index, head, events, recent, pc, todo, seen, proposed, payloads,
          exit, log, latest_json, latest_text, read, answered>>

tree == <<work, index, head>>
watch == <<events, recent>>
files == <<log, latest_json, latest_text>>
history == <<read, answered>>

TypeOK ==
    /\ work \in [Files -> Versions]
    /\ index \in [Files -> Versions]
    /\ head \in [Files -> Versions]
    /\ events \subseteq Files
    /\ recent \subseteq Files
    /\ pc \in [Jobs -> PcValues]
    /\ todo \in [Jobs -> Seq(Files)]
    /\ seen \in [Jobs -> Versions]
    /\ proposed \in [Jobs -> Review \cup {None}]
    /\ payloads \in [Jobs -> Seq(Review)]
    /\ exit \in [Gates -> {0, 1, 2, None}]
    /\ log \subseteq Review
    /\ latest_json \in Review \cup {None}
    /\ latest_text \in Review \cup {None}
    /\ read \in [Jobs -> SUBSET (Files \X Versions)]
    /\ answered \subseteq Review

Init ==
    /\ work = [f \in Files |-> 0]
    /\ index = [f \in Files |-> 0]
    /\ head = [f \in Files |-> 0]
    /\ events = {}
    /\ recent = {}
    /\ pc = [j \in Jobs |-> "idle"]
    /\ todo = [j \in Jobs |-> <<>>]
    /\ seen = [j \in Jobs |-> 0]
    /\ proposed = [j \in Jobs |-> None]
    /\ payloads = [j \in Jobs |-> <<>>]
    /\ exit = [g \in Gates |-> None]
    /\ log = {}
    /\ latest_json = None
    /\ latest_text = None
    /\ read = [j \in Jobs |-> {}]
    /\ answered = {}

-----------------------------------------------------------------------------
(* The developer, and watchdog, which reports every change below the       *)
(* watched path.                                                           *)

NewVersion == 1 + Max(Range(work))

Changed(f) ==
    /\ NewVersion <= MaxVersion
    /\ work' = [work EXCEPT ![f] = NewVersion]
    /\ events' = events \cup {f}

Save(f) ==
    /\ Changed(f)
    /\ UNCHANGED <<index, head, recent, pc, todo, seen, proposed, payloads,
                   exit, files, history>>

Stage(f) ==
    /\ index[f] # work[f]
    /\ index' = [index EXCEPT ![f] = work[f]]
    /\ UNCHANGED <<work, head, watch, pc, todo, seen, proposed, payloads,
                   exit, files, history>>

Commit ==
    /\ head # index
    /\ head' = index
    /\ UNCHANGED <<work, index, watch, pc, todo, seen, proposed, payloads,
                   exit, files, history>>

-----------------------------------------------------------------------------
(* The watch daemon.                                                       *)

\* _handle_path_event: an event within debounce_seconds of one that was
\* accepted is dropped.
EventDebounced(f) ==
    /\ f \in events
    /\ f \in recent
    /\ events' = events \ {f}
    /\ UNCHANGED <<tree, recent, pc, todo, seen, proposed, payloads, exit,
                   files, history>>

\* Any other one starts a thread.
EventAccepted(f, t) ==
    /\ f \in events
    /\ f \notin recent
    /\ pc[t] = "idle"
    /\ events' = events \ {f}
    /\ recent' = recent \cup {f}
    /\ pc' = [pc EXCEPT ![t] = "waiting"]
    /\ todo' = [todo EXCEPT ![t] = <<f>>]
    /\ UNCHANGED <<tree, seen, proposed, payloads, exit, files, history>>

WindowPasses(f) ==
    /\ f \in recent
    /\ recent' = recent \ {f}
    /\ UNCHANGED <<tree, events, pc, todo, seen, proposed, payloads, exit,
                   files, history>>

\* A thread between the acquisition of _review_lock and its release.
Reviewing(t) == pc[t] \notin {"idle", "waiting"} \cup Ended

\* Fault: a review that raised keeps the lock.
LockFree_Leaks == \A t \in Threads : ~Reviewing(t) /\ pc[t] # "raised"

\* Fault: the lock covers the call of the model only.
LockFree_Narrow == \A t \in Threads : pc[t] \notin {"targets", "diff", "model"}

LockFree == \A t \in Threads : ~Reviewing(t)

\* _run_review: with self._review_lock.
AcquireReviewLock(t) ==
    /\ pc[t] = "waiting"
    /\ LockFree
    /\ pc' = [pc EXCEPT ![t] = "targets"]
    /\ UNCHANGED <<tree, watch, todo, seen, proposed, payloads, exit, files,
                   history>>

-----------------------------------------------------------------------------
(* review_targets.                                                         *)

\* main of bin/mini_nitpicker, up to review_targets.
StartGate(g) ==
    /\ pc[g] = "idle"
    /\ pc' = [pc EXCEPT ![g] = "targets"]
    /\ UNCHANGED <<tree, watch, todo, seen, proposed, payloads, exit, files,
                   history>>

\* The local variables of a call end with it.
Forget(j) ==
    /\ seen' = [seen EXCEPT ![j] = 0]
    /\ proposed' = [proposed EXCEPT ![j] = None]
    /\ payloads' = [payloads EXCEPT ![j] = <<>>]

\* An exception of load_settings, git, the model, git apply or a write leaves
\* review_targets: exit code 2 for a gate, the end of the thread for a watch
\* job.  What was reviewed so far was in payloads only.
Raise(j) ==
    /\ pc' = [pc EXCEPT ![j] = "raised"]
    /\ exit' = [g \in Gates |-> IF g = j THEN 2 ELSE exit[g]]
    /\ Forget(j)

\* review_targets returns and the gate exits.
Return(j, code) ==
    /\ pc' = [pc EXCEPT ![j] = "returned"]
    /\ exit' = [g \in Gates |-> IF g = j THEN code ELSE exit[g]]
    /\ Forget(j)

JobRaises(j) ==
    /\ \/ pc[j] = "targets" /\ j \in Gates
       \/ pc[j] = "log" /\ payloads[j] # <<>>
       \/ pc[j] \in {"diff", "check", "json", "text"}
    /\ Raise(j)
    /\ UNCHANGED <<tree, watch, todo, files, history>>

\* targets_from_args: the staged files in the order of their names, or the
\* paths of the command line.
Targets(j) ==
    CASE j \in Skipping -> <<>>
      [] j \in Threads -> todo[j]
      [] j \in Staged \ Skipping -> SetToSeq({f \in Files : index[f] # head[f]})
      [] OTHER -> PathsOf[j]

FindTargets(j) ==
    /\ pc[j] = "targets"
    /\ Targets(j) # <<>>
    /\ todo' = [todo EXCEPT ![j] = Targets(j)]
    /\ pc' = [pc EXCEPT ![j] = "diff"]
    /\ UNCHANGED <<tree, watch, seen, proposed, payloads, exit, files, history>>

\* Skipped, or no changed files to review.
NothingToReview(j) ==
    /\ pc[j] = "targets"
    /\ Targets(j) = <<>>
    /\ Return(j, 0)
    /\ UNCHANGED <<tree, watch, todo, files, history>>

\* On to the next target, with the payloads so far.
NextTarget(j, list) ==
    /\ todo' = [todo EXCEPT ![j] = Tail(@)]
    /\ payloads' = [payloads EXCEPT ![j] = list]
    /\ seen' = [seen EXCEPT ![j] = 0]
    /\ proposed' = [proposed EXCEPT ![j] = None]
    /\ pc' = [pc EXCEPT ![j] = IF Len(todo[j]) = 1 THEN "log" ELSE "diff"]

\* git knows the files of HEAD and those that were staged.
Tracked(f) == f \notin NewFiles \/ index[f] # 0

\* git diff --cached, or git diff HEAD, has something to show.  It is silent
\* about a file that is not tracked, and about one as it was committed.
Differs(j, f) ==
    IF j \in Staged THEN index[f] # head[f] ELSE Tracked(f) /\ work[f] # head[f]

\* diff_for.  No diff, no payload.
DiffFor(j) ==
    LET f == Head(todo[j])
        v == IF j \in Staged THEN index[f] ELSE work[f]
    IN  /\ pc[j] = "diff"
        /\ \/ /\ ~Differs(j, f)
              /\ NextTarget(j, payloads[j])
              /\ UNCHANGED read
           \/ /\ Differs(j, f)
              /\ seen' = [seen EXCEPT ![j] = v]
              /\ read' = [read EXCEPT ![j] = @ \cup {<<f, v>>}]
              /\ pc' = [pc EXCEPT ![j] = "model"]
              /\ UNCHANGED <<todo, proposed, payloads>>
        /\ UNCHANGED <<tree, watch, exit, files, answered>>

\* The codes that get through: _coerce_ollama_payload refuses a code that is
\* not valid, the gemini path takes the code as it is.
AcceptedCodes == IF Provider = "ollama" THEN ValidCodes ELSE AnsweredCodes

\* generate_review: the model answers.
ModelAnswers(j) ==
    \E c \in AcceptedCodes :
        LET r == [by |-> j, file |-> Head(todo[j]), version |-> seen[j], code |-> c]
        IN  /\ pc[j] = "model"
            /\ answered' = answered \cup {r}
            /\ \/ /\ c = "PATCH_PROPOSED" /\ AutoApply
                  /\ proposed' = [proposed EXCEPT ![j] = r]
                  /\ pc' = [pc EXCEPT ![j] = "check"]
                  /\ UNCHANGED <<todo, seen, payloads>>
               \/ /\ ~(c = "PATCH_PROPOSED" /\ AutoApply)
                  /\ NextTarget(j, Append(payloads[j], r))
            /\ UNCHANGED <<tree, watch, exit, files, read>>

\* Fault: an answer that cannot be used is taken for a pass, the way
\* OllamaProvider.generate falls back.
ModelFails_Fallback(j) ==
    /\ pc[j] = "model"
    /\ NextTarget(j, Append(payloads[j],
           [by |-> j, file |-> Head(todo[j]), version |-> seen[j],
            code |-> "REVIEW_PASSED"]))
    /\ UNCHANGED <<tree, watch, exit, files, history>>

\* The server is down or late, the answer is empty, no JSON or, with ollama,
\* has a code that is not valid: the exception is passed on.
ModelFails(j) ==
    /\ pc[j] = "model"
    /\ Raise(j)
    /\ UNCHANGED <<tree, watch, todo, files, history>>

\* _apply_patch_safely: git apply --check refuses, or an empty patch.
CheckRefuses(j) ==
    /\ pc[j] = "check"
    /\ NextTarget(j, Append(payloads[j], proposed[j]))
    /\ UNCHANGED <<tree, watch, exit, files, history>>

CheckAccepts(j) ==
    /\ pc[j] = "check"
    /\ pc' = [pc EXCEPT ![j] = "apply"]
    /\ UNCHANGED <<tree, watch, todo, seen, proposed, payloads, exit, files,
                   history>>

\* git apply, on the working tree as it is now.
ApplyRefuses(j) ==
    /\ pc[j] = "apply"
    /\ NextTarget(j, Append(payloads[j], proposed[j]))
    /\ UNCHANGED <<tree, watch, exit, files, history>>

ApplyPatch(j) ==
    LET r == [proposed[j] EXCEPT !.code = "PATCH_APPLIED"]
    IN  /\ pc[j] = "apply"
        /\ Changed(Head(todo[j]))
        /\ NextTarget(j, Append(payloads[j], r))
        /\ UNCHANGED <<index, head, recent, exit, files, history>>

\* TimeoutExpired: git was killed before it changed the file, or later.
ApplyTimesOut(j) ==
    /\ pc[j] = "apply"
    /\ \/ Changed(Head(todo[j]))
       \/ UNCHANGED <<work, events>>
    /\ Raise(j)
    /\ UNCHANGED <<index, head, recent, todo, files, history>>

\* append_review_logs: one write of all lines.
AppendReviewLogs(j) ==
    /\ pc[j] = "log"
    /\ payloads[j] # <<>>
    /\ log' = log \cup Range(payloads[j])
    /\ pc' = [pc EXCEPT ![j] = "json"]
    /\ UNCHANGED <<tree, watch, todo, seen, proposed, payloads, exit,
                   latest_json, latest_text, history>>

\* No target had a diff: nothing is written.
NoDiffs(j) ==
    /\ pc[j] = "log"
    /\ payloads[j] = <<>>
    /\ Return(j, 0)
    /\ UNCHANGED <<tree, watch, todo, files, history>>

\* Fault: the file shows each payload before the log has it.
ReplaceJson_First(j) ==
    /\ pc[j] \in {"log", "json"}
    /\ payloads[j] # <<>>
    /\ latest_json' = Last(payloads[j])
    /\ pc' = [pc EXCEPT ![j] = IF pc[j] = "log" THEN "log" ELSE "text"]
    /\ UNCHANGED <<tree, watch, todo, seen, proposed, payloads, exit, log,
                   latest_text, history>>

\* write_latest_review_files.
ReplaceJson(j) ==
    /\ pc[j] = "json"
    /\ latest_json' = Last(payloads[j])
    /\ pc' = [pc EXCEPT ![j] = "text"]
    /\ UNCHANGED <<tree, watch, todo, seen, proposed, payloads, exit, log,
                   latest_text, history>>

\* The exit code of main: 1 if a payload is not a pass.
ExitCode(list) == IF \E r \in Range(list) : r.code # "REVIEW_PASSED" THEN 1 ELSE 0

ReplaceText(j) ==
    /\ pc[j] = "text"
    /\ latest_text' = Last(payloads[j])
    /\ Return(j, ExitCode(payloads[j]))
    /\ UNCHANGED <<tree, watch, todo, log, latest_json, history>>

-----------------------------------------------------------------------------
JobStep(j) ==
    \/ JobRaises(j) \/ FindTargets(j) \/ NothingToReview(j) \/ DiffFor(j)
    \/ ModelAnswers(j) \/ ModelFails(j) \/ CheckRefuses(j) \/ CheckAccepts(j)
    \/ ApplyRefuses(j) \/ ApplyPatch(j) \/ ApplyTimesOut(j) \/ NoDiffs(j)
    \/ AppendReviewLogs(j) \/ ReplaceJson(j) \/ ReplaceText(j)

Next ==
    \/ \E f \in Files : Save(f) \/ Stage(f) \/ EventDebounced(f) \/ WindowPasses(f)
    \/ Commit
    \/ \E f \in Files, t \in Threads : EventAccepted(f, t)
    \/ \E t \in Threads : AcquireReviewLock(t)
    \/ \E g \in Gates : StartGate(g)
    \/ \E j \in Jobs : JobStep(j)

Spec == Init /\ [][Next]_vars

\* watchdog delivers its events, and threads are scheduled: a job that has
\* begun goes on, and so does a thread that waits for the lock.
FairSpec ==
    /\ Spec
    /\ \A f \in Files :
          WF_vars(EventDebounced(f) \/ \E t \in Threads : EventAccepted(f, t))
    /\ \A t \in Threads : WF_vars(AcquireReviewLock(t))
    /\ \A j \in Jobs : WF_vars(JobStep(j))

-----------------------------------------------------------------------------
\* "silent-PASS is forbidden": a gate that was not told to skip lets a change
\* through only if the model passed every diff the gate read, whatever failed
\* on the way.
NoSilentPass ==
    \A g \in Gates \ Skipping :
        exit[g] = 0 =>
            \A d \in read[g] :
                [by |-> g, file |-> d[1], version |-> d[2],
                 code |-> "REVIEW_PASSED"] \in answered

\* latest_review.json and latest_review.txt, as far as mini reviewers replace
\* them, only ever show reviews that are in the log, whichever jobs do so.
\* (publish_quick_fix of the review service writes the same files without this
\* log: ReviewFeed has it.)
LatestIsLogged == {latest_json, latest_text} \subseteq log \cup {None}

\* The threads of the daemon name their temporary files after one process id:
\* _review_lock must keep them from writing the same one at the same time.
OneWriterPerProcess ==
    \A s, t \in Threads :
        pc[s] \in {"json", "text"} /\ pc[t] \in {"json", "text"} => s = t

\* A save of a tracked file whose event comes outside the debounce window is
\* read: a thread takes up the file at that version or a later one, unless it
\* was committed before the thread looked, or git or the lookup of the targets
\* fails in it; and no failure of another thread keeps it from its turn.
AcceptedSaveIsRead ==
    \A f \in Files, v \in Versions \ {0} :
        (/\ Threads \cap Skipping = {}
         /\ Tracked(f)
         /\ f \in events \ recent
         /\ work[f] >= v)
        ~> (\/ head[f] >= v
            \/ \E t \in Threads :
                  \/ \E d \in read[t] : d[1] = f /\ d[2] >= v
                  \/ pc[t] = "raised" /\ todo[t] = <<f>>)
=============================================================================
