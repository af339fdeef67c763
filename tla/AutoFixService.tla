--------------------------- MODULE AutoFixService ---------------------------
(***************************************************************************)
(* services/autofix_svc.py: apply_patch checks a patch with git, applies   *)
(* it, runs the verification command and rolls back with git checkout,     *)
(* while the developer goes on editing and staging the same tree and other *)
(* runs of the daemon apply patches of their own.                          *)
(*                                                                         *)
(* Abstractions.  The content of a file is the set of changes it contains  *)
(* on top of HEAD: the developer's edits and the patches, each named by    *)
(* the call that applies it.  Whether git accepts a patch, and what the    *)
(* verification says, is a choice of the environment; git works on the     *)
(* tree of the moment, so the check and the application may disagree.      *)
(***************************************************************************)
EXTENDS Naturals, FiniteSets

CONSTANTS
    Calls,      \* calls of apply_patch with a patch that is not blank
    Edits,      \* changes the developer makes by hand
    Files,      \* files of the working tree
    NoFile,     \* target_file = ""
    TargetOf,   \* call -> its target_file
    TouchesOf   \* call -> the files its patch changes

ASSUME AutoFixAssumption ==
    /\ Calls \cap Edits = {}
    /\ NoFile \notin Files
    /\ TargetOf \in [Calls -> Files \cup {NoFile}]
    /\ TouchesOf \in [Calls -> SUBSET Files]

VARIABLES
    config,   \* [verify : verify_command is set, rollback : auto_rollback]
    work,     \* file -> changes in the working tree
    index,    \* file -> changes in the index
    typed,    \* file -> edits the developer ever made in it
    pc,       \* call -> where it is in apply_patch
    fix,      \* call -> its AutoFixResult
    cause,    \* call -> why its patch may be in the tree unreported
    restored, \* calls whose checkout restored their target, a history
    cut       \* files git was killed in the middle of, a history

tree == <<work, index, typed, restored, cut>>
vars == <<config, work, index, typed, pc, fix, cause, restored, cut>>

Changes == Calls \cup Edits
PcValues == {"check", "apply", "verify", "rollback", "rolled", "returned",
             "killed"}
\* verify_passed is None, True or False.
AutoFixResult == [applied : BOOLEAN, rolled_back : BOOLEAN,
                  verify_passed : {"none", "true", "false"}]
Causes == {"none", "interrupted", "checkout failed"}

Answer(applied, rolled_back, verify_passed) ==
    [applied |-> applied, rolled_back |-> rolled_back,
     verify_passed |-> verify_passed]
NotApplied == Answer(FALSE, FALSE, "none")

TypeOK ==
    /\ config \in [verify : BOOLEAN, rollback : BOOLEAN]
    /\ work \in [Files -> SUBSET Changes]
    /\ index \in [Files -> SUBSET Changes]
    /\ typed \in [Files -> SUBSET Edits]
    /\ pc \in [Calls -> PcValues]
    /\ fix \in [Calls -> AutoFixResult]
    /\ cause \in [Calls -> Causes]
    /\ restored \subseteq Calls
    /\ cut \subseteq Files

Init ==
    /\ config \in [verify : BOOLEAN, rollback : BOOLEAN]
    /\ work = [f \in Files |-> {}]
    /\ index = [f \in Files |-> {}]
    /\ typed = [f \in Files |-> {}]
    /\ pc = [c \in Calls |-> "check"]
    /\ fix = [c \in Calls |-> NotApplied]
    /\ cause = [c \in Calls |-> "none"]
    /\ restored = {}
    /\ cut = {}

GoTo(c, l) == pc' = [pc EXCEPT ![c] = l]
Return(c, r) == GoTo(c, "returned") /\ fix' = [fix EXCEPT ![c] = r]

-----------------------------------------------------------------------------
\* The developer saves an edit, or stages a file with all it contains.
Edit(f, e) ==
    /\ \A g \in Files : e \notin typed[g]
    /\ work' = [work EXCEPT ![f] = @ \cup {e}]
    /\ typed' = [typed EXCEPT ![f] = @ \cup {e}]
    /\ UNCHANGED <<config, index, pc, fix, cause, restored, cut>>

Stage(f) ==
    /\ index' = [index EXCEPT ![f] = work[f]]
    /\ UNCHANGED <<config, work, typed, pc, fix, cause, restored, cut>>

-----------------------------------------------------------------------------
\* git apply --check accepts the patch.
CheckAccepts(c) ==
    /\ pc[c] = "check"
    /\ GoTo(c, "apply")
    /\ UNCHANGED <<config, tree, fix, cause>>

\* git apply --check or git apply refuses the patch, or cannot be started.
GitRefuses(c) ==
    /\ pc[c] \in {"check", "apply"}
    /\ Return(c, NotApplied)
    /\ UNCHANGED <<config, tree, cause>>

\* git has written the files of W with the patch, and those of T in part: a
\* file that is missing or cut short counts as having none of its changes.
Patched(c, W, T) ==
    /\ work' = [f \in Files |-> IF f \in T THEN {}
                               ELSE IF f \in W THEN work[f] \cup {c}
                               ELSE work[f]]
    /\ cut' = cut \cup T

\* git apply changes every file of the patch.
ApplySucceeds(c) ==
    /\ pc[c] = "apply"
    /\ Patched(c, TouchesOf[c], {})
    /\ IF config.verify
       THEN GoTo(c, "verify") /\ UNCHANGED fix
       ELSE Return(c, Answer(TRUE, FALSE, "none"))
    /\ UNCHANGED <<config, index, typed, cause, restored>>

\* git apply is killed: after _GIT_APPLY_TIMEOUT, and the call reports a
\* failure, or together with the process.  Some of the files may have been
\* written, and one in part.
ApplyInterrupted(c) ==
    /\ pc[c] = "apply"
    /\ \E W, T \in SUBSET TouchesOf[c] : Cardinality(T) <= 1 /\ Patched(c, W, T)
    /\ \/ Return(c, NotApplied)
       \/ GoTo(c, "killed") /\ UNCHANGED fix
    /\ cause' = [cause EXCEPT ![c] = "interrupted"]
    /\ UNCHANGED <<config, index, typed, restored>>

VerifyPasses(c) ==
    /\ pc[c] = "verify"
    /\ Return(c, Answer(TRUE, FALSE, "true"))
    /\ UNCHANGED <<config, tree, cause>>

\* Fault: a verification that cannot be run counts as a failure already
\* rolled back.
VerifyFails_Unclean(c) ==
    /\ pc[c] = "verify"
    /\ Return(c, Answer(FALSE, TRUE, "false"))
    /\ UNCHANGED <<config, tree, cause>>

\* The command fails, times out or cannot be run.
VerifyFails(c) ==
    /\ pc[c] = "verify"
    /\ IF config.rollback /\ TargetOf[c] # NoFile
       THEN GoTo(c, "rollback") /\ UNCHANGED fix
       ELSE Return(c, Answer(TRUE, FALSE, "false"))
    /\ UNCHANGED <<config, tree, cause>>

\* Fault: the target is restored from HEAD.
Checkout_Head(c) == work' = [work EXCEPT ![TargetOf[c]] = {}]

\* Fault: the whole tree is restored.
Checkout_All(c) == work' = index

\* git checkout -- target_file: the file as it is in the index.
Checkout(c) == work' = [work EXCEPT ![TargetOf[c]] = index[TargetOf[c]]]

\* _rollback: the exit code of git is not looked at and an exception is
\* swallowed.  A checkout killed after _GIT_CHECKOUT_TIMEOUT may have cut the
\* file short.
Rollback(c) ==
    /\ pc[c] = "rollback"
    /\ \/ Checkout(c) /\ restored' = restored \cup {c} /\ UNCHANGED <<cause, cut>>
       \/ /\ \/ UNCHANGED <<work, cut>>
             \/ Patched(c, {}, {TargetOf[c]})
          /\ cause' = [cause EXCEPT ![c] = "checkout failed"]
          /\ UNCHANGED restored
    /\ GoTo(c, "rolled")
    /\ UNCHANGED <<config, index, typed, fix>>

\* Whatever became of the checkout, it is reported as done.
ReportRollback(c) ==
    /\ pc[c] = "rolled"
    /\ Return(c, Answer(FALSE, TRUE, "false"))
    /\ UNCHANGED <<config, tree, cause>>

\* The process dies during the call.
Killed(c) ==
    /\ pc[c] \notin {"returned", "killed"}
    /\ GoTo(c, "killed")
    /\ UNCHANGED <<config, tree, fix, cause>>

Next ==
    \/ \E f \in Files : Stage(f) \/ \E e \in Edits : Edit(f, e)
    \/ \E c \in Calls :
          \/ CheckAccepts(c) \/ GitRefuses(c)
          \/ ApplySucceeds(c) \/ ApplyInterrupted(c)
          \/ VerifyPasses(c) \/ VerifyFails(c)
          \/ Rollback(c) \/ ReportRollback(c)
          \/ Killed(c)

Spec == Init /\ [][Next]_vars

-----------------------------------------------------------------------------
\* The result code run_once derives from the answer of apply_patch.
ReportOf(c) ==
    CASE fix[c].applied /\ fix[c].verify_passed = "false" -> "PATCH_ROLLBACK"
      [] fix[c].applied /\ fix[c].verify_passed # "false" -> "PATCH_APPLIED"
      [] OTHER -> "PATCH_PROPOSED"

RolledBack(f) ==
    \E c \in restored : TargetOf[c] = f

\* Work that is staged is not lost: _rollback restores the target file from the
\* index, so no sequence of patches, verifications and roll-backs takes a
\* staged change out of the working tree, except where git itself was killed in
\* the middle of the file.
StagedSurvives == \A f \in Files \ cut : index[f] \subseteq work[f]

\* The damage of a roll-back is confined: an edit of the developer, or a patch
\* that run_once reported as PATCH_APPLIED, is missing from a file only when a
\* call whose target is that very file restored it, even one that died before
\* it could say so, or git was killed in the middle of the file.  Files a
\* failed patch touched besides its target are left alone.
LossIsByRollback ==
    \A f \in Files \ cut :
        ~RolledBack(f) =>
            /\ typed[f] \subseteq work[f]
            /\ \A c \in Calls :
                  pc[c] = "returned" /\ ReportOf(c) = "PATCH_APPLIED"
                      /\ f \in TouchesOf[c] => c \in work[f]

\* A patch that apply_patch does not report as applied is in a file for one
\* of these reasons only: git was killed while it applied it, the checkout
\* failed, the file is not the target, or it was staged before the roll-back.
UnreportedPatchHasCause ==
    \A c \in Calls, f \in Files :
        pc[c] = "returned" /\ ~fix[c].applied /\ c \in work[f] =>
            \/ cause[c] # "none"
            \/ fix[c].rolled_back /\ (f # TargetOf[c] \/ c \in index[f])
=============================================================================
