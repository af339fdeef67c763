---------------------------- MODULE AutoFixProofs ----------------------------
(***************************************************************************)
(* Proofs about AutoFixService, for every number of calls, files and edits *)
(* and every patch.                                                        *)
(***************************************************************************)
EXTENDS AutoFixService, TLAPS

\* A step of one call.
CallStep(c) ==
    \/ CheckAccepts(c) \/ GitRefuses(c)
    \/ ApplySucceeds(c) \/ ApplyInterrupted(c)
    \/ VerifyPasses(c) \/ VerifyFails(c)
    \/ Rollback(c) \/ ReportRollback(c)
    \/ Killed(c)

\* A patch that is in the tree for good: applied, and verified or still to be.
InPlace(c) ==
    \/ pc[c] \in {"verify", "rollback"}
    \/ pc[c] = "returned" /\ fix[c].applied

\* Only a call that has returned has an answer other than the first one.
AnswerWhenReturned ==
    \A c \in Calls : pc[c] # "returned" => fix[c] = NotApplied

\* A file no call has restored and git has not cut has all the edits made in it
\* and the patches in place.
NothingLost ==
    \A f \in Files \ cut :
        ~RolledBack(f) =>
            /\ typed[f] \subseteq work[f]
            /\ \A c \in Calls : InPlace(c) /\ f \in TouchesOf[c] => c \in work[f]

\* A patch that git has not applied is in no file and has not been staged.
NotYetThere ==
    \A c \in Calls, f \in Files :
        pc[c] \in {"check", "apply"} => c \notin work[f] /\ c \notin index[f]

\* What may become of a patch that is not reported as applied, staged or not,
\* from the roll-back on.
LeftHasCause ==
    \A c \in Calls, f \in Files :
        /\ pc[c] = "rolled" \/ (pc[c] = "returned" /\ ~fix[c].applied)
        /\ c \in work[f] \/ c \in index[f]
        => \/ cause[c] # "none"
           \/ /\ pc[c] = "rolled" \/ fix[c].rolled_back
              /\ f # TargetOf[c] \/ c \in index[f]

\* Only a call with a target gets as far as the roll-back.
RollbackHasTarget ==
    \A c \in Calls : pc[c] = "rollback" => TargetOf[c] # NoFile

FixInv ==
    /\ TypeOK
    /\ RollbackHasTarget
    /\ StagedSurvives
    /\ AnswerWhenReturned
    /\ NothingLost
    /\ NotYetThere
    /\ LeftHasCause

\* The invariant holds in the clean tree every call starts from.
LEMMA FixInit == Init => FixInv
  BY DEF Init, FixInv, TypeOK, RollbackHasTarget, StagedSurvives, AnswerWhenReturned, NothingLost,
         InPlace, NotYetThere, LeftHasCause, RolledBack, PcValues,
         AutoFixResult, NotApplied, Answer, Causes

\* Every answer of apply_patch is an AutoFixResult.
LEMMA AnswerType ==
  ASSUME NEW a \in BOOLEAN, NEW r \in BOOLEAN, NEW v \in {"none", "true", "false"}
  PROVE  Answer(a, r, v) \in AutoFixResult
  BY DEF Answer, AutoFixResult

\* git adds the patch to files, or cuts them, and changes nothing else.
LEMMA PatchedType ==
  ASSUME TypeOK, NEW c \in Calls, NEW W \in SUBSET Files, NEW T \in SUBSET Files,
         Patched(c, W, T)
  PROVE  /\ work' \in [Files -> SUBSET Changes] /\ cut' \in SUBSET Files
         /\ cut' = cut \cup T
         /\ \A f \in T : work'[f] = {}
         /\ \A f \in Files \ T : \A x :
               x \in work'[f] <=> x \in work[f] \/ (x = c /\ f \in W)
<1> DEFINE N(f) == IF f \in T THEN {} ELSE IF f \in W THEN work[f] \cup {c} ELSE work[f]
<1>1. \A f \in Files : N(f) \in SUBSET Changes
  BY DEF TypeOK, Changes
<1>2. work' = [f \in Files |-> N(f)] /\ cut' = cut \cup T
  BY DEF Patched
<1>3. work' \in [Files -> SUBSET Changes]
  BY <1>1, <1>2
<1>4. ASSUME NEW f \in Files PROVE work'[f] = N(f)
  BY <1>2
<1>5. cut' \in SUBSET Files
  BY <1>2 DEF TypeOK
<1> QED BY <1>2, <1>3, <1>4, <1>5

\* Steps of the environment and of each call keep the types.
LEMMA FixType == TypeOK /\ RollbackHasTarget /\ [Next]_vars => TypeOK'
<1> SUFFICES ASSUME TypeOK, RollbackHasTarget, [Next]_vars PROVE TypeOK'
  OBVIOUS
<1>R. RollbackHasTarget
  OBVIOUS
<1> USE DEF TypeOK, PcValues, Causes, Changes
<1>1. CASE UNCHANGED vars
  BY <1>1 DEF vars
<1>2. ASSUME NEW f \in Files, Stage(f) PROVE TypeOK'
  BY <1>2 DEF Stage
<1>3. ASSUME NEW f \in Files, NEW e \in Edits, Edit(f, e) PROVE TypeOK'
  BY <1>3 DEF Edit
<1>4. ASSUME NEW c \in Calls, CallStep(c) PROVE TypeOK'
  <2> USE AutoFixAssumption, AnswerType DEF tree, GoTo, Return, NotApplied
  <2>1. CASE CheckAccepts(c)
    BY <2>1 DEF CheckAccepts
  <2>2. CASE GitRefuses(c)
    BY <2>2 DEF GitRefuses
  <2>3. CASE ApplySucceeds(c)
    <3>0. TouchesOf[c] \in SUBSET Files
      BY AutoFixAssumption
    <3>1. work' \in [Files -> SUBSET Changes] /\ cut' \in SUBSET Files
      <4>1. Patched(c, TouchesOf[c], {}) /\ {} \in SUBSET Files /\ TypeOK
        BY <2>3 DEF ApplySucceeds
      <4> HIDE DEF TypeOK
      <4> QED BY <3>0, <4>1, PatchedType
    <3>2. pc' \in [Calls -> PcValues]
      BY <2>3 DEF ApplySucceeds
    <3>3. fix' = fix \/ fix' = [fix EXCEPT ![c] = Answer(TRUE, FALSE, "none")]
      BY <2>3, Zenon DEF ApplySucceeds
    <3>4. fix' \in [Calls -> AutoFixResult]
      BY <3>3
    <3> QED BY <2>3, <3>1, <3>2, <3>4 DEF ApplySucceeds
  <2>4. CASE ApplyInterrupted(c)
    <3>1. work' \in [Files -> SUBSET Changes] /\ cut' \in SUBSET Files
      <4>1. PICK W \in SUBSET TouchesOf[c], T \in SUBSET TouchesOf[c] : Patched(c, W, T)
        BY <2>4 DEF ApplyInterrupted
      <4>2. W \in SUBSET Files /\ T \in SUBSET Files /\ TypeOK
        OBVIOUS
      <4> HIDE DEF TypeOK
      <4> QED BY <4>1, <4>2, PatchedType
    <3>2. pc' \in [Calls -> PcValues] /\ fix' \in [Calls -> AutoFixResult]
      <4>1. \/ pc' = [pc EXCEPT ![c] = "returned"] /\ fix' = [fix EXCEPT ![c] = NotApplied]
            \/ pc' = [pc EXCEPT ![c] = "killed"] /\ fix' = fix
        BY <2>4, Zenon DEF ApplyInterrupted
      <4>2. NotApplied \in AutoFixResult
        BY AnswerType
      <4>3. pc' \in [Calls -> PcValues]
        BY <4>1
      <4>4. fix' = fix \/ fix' = [fix EXCEPT ![c] = NotApplied]
        BY <4>1
      <4> HIDE DEF NotApplied
      <4>5. fix' \in [Calls -> AutoFixResult]
        BY <4>2, <4>4
      <4> QED BY <4>3, <4>5
    <3> QED BY <2>4, <3>1, <3>2 DEF ApplyInterrupted
  <2>5. CASE VerifyPasses(c)
    BY <2>5 DEF VerifyPasses
  <2>6. CASE VerifyFails(c)
    <3>1. pc' \in [Calls -> PcValues]
      <4>1. \E l \in {"rollback", "returned"} : pc' = [pc EXCEPT ![c] = l]
        BY <2>6, Zenon DEF VerifyFails
      <4> QED BY <4>1
    <3>2. fix' = fix \/ fix' = [fix EXCEPT ![c] = Answer(TRUE, FALSE, "false")]
      BY <2>6, Zenon DEF VerifyFails
    <3>3. fix' \in [Calls -> AutoFixResult]
      BY <3>2
    <3> QED BY <2>6, <3>1, <3>3 DEF VerifyFails
  <2>7. CASE Rollback(c)
    <3>1. /\ work' \in [Files -> SUBSET Changes] /\ cut' \in SUBSET Files
          /\ cause' \in [Calls -> Causes] /\ restored' \in SUBSET Calls
      <4>1. CASE Checkout(c) /\ restored' = restored \cup {c} /\ UNCHANGED <<cause, cut>>
        BY <4>1 DEF Checkout
      <4>2. CASE UNCHANGED <<work, cut, restored>> /\ cause' = [cause EXCEPT ![c] = "checkout failed"]
        BY <4>2
      <4>3. CASE /\ Patched(c, {}, {TargetOf[c]}) /\ UNCHANGED restored
                 /\ cause' = [cause EXCEPT ![c] = "checkout failed"]
        <5>1. {} \in SUBSET Files /\ {TargetOf[c]} \in SUBSET Files /\ TypeOK
          BY <1>R, <2>7 DEF Rollback, RollbackHasTarget
        <5>2. cause' \in [Calls -> Causes] /\ restored' \in SUBSET Calls
          BY <4>3
        <5> HIDE DEF TypeOK
        <5> QED BY <4>3, <5>1, <5>2, PatchedType
      <4> QED BY <2>7, <4>1, <4>2, <4>3, Zenon DEF Rollback
    <3> QED BY <2>7, <3>1 DEF Rollback
  <2>8. CASE Killed(c)
    BY <2>8 DEF Killed
  <2>9. CASE ReportRollback(c)
    BY <2>9 DEF ReportRollback
  <2> QED
    BY <1>4, <2>1, <2>2, <2>3, <2>4, <2>5, <2>6, <2>7, <2>8, <2>9 DEF CallStep
<1> QED
  BY <1>1, <1>2, <1>3, <1>4 DEF Next, CallStep

\* An edit or a git add of the developer.
LEMMA DeveloperStep ==
  ASSUME FixInv, NEW f \in Files, Stage(f) \/ \E e \in Edits : Edit(f, e)
  PROVE  /\ StagedSurvives' /\ AnswerWhenReturned' /\ NothingLost'
         /\ NotYetThere' /\ LeftHasCause'
<1> USE DEF FixInv, TypeOK
<1>1. CASE Stage(f)
  <2> USE <1>1 DEF Stage
  <2>1. StagedSurvives'
    BY DEF StagedSurvives
  <2>2. AnswerWhenReturned' /\ NothingLost' /\ NotYetThere'
    BY DEF AnswerWhenReturned, NothingLost, NotYetThere, InPlace, RolledBack
  <2>3. LeftHasCause'
    BY DEF LeftHasCause
  <2> QED BY <2>1, <2>2, <2>3
<1>2. ASSUME NEW e \in Edits, Edit(f, e)
      PROVE  /\ StagedSurvives' /\ AnswerWhenReturned' /\ NothingLost'
             /\ NotYetThere' /\ LeftHasCause'
  <2> USE <1>2 DEF Edit
  <2>0. \A c \in Calls : c # e
    BY AutoFixAssumption
  <2>1. StagedSurvives'
    BY DEF StagedSurvives
  <2>2. AnswerWhenReturned'
    BY DEF AnswerWhenReturned
  <2>3. NothingLost'
    BY DEF NothingLost, InPlace, RolledBack
  <2>4. NotYetThere'
    BY <2>0 DEF NotYetThere
  <2>5. LeftHasCause'
    BY <2>0 DEF LeftHasCause
  <2> QED BY <2>1, <2>2, <2>3, <2>4, <2>5
<1> QED BY <1>1, <1>2

\* A step of a call leaves the index, the record of edits and the answers of
\* the other calls alone, and no roll-back is forgotten.
LEMMA CallFrame ==
  ASSUME FixInv, NEW c \in Calls, CallStep(c)
  PROVE  /\ index' = index /\ typed' = typed
         /\ pc[c] \notin {"returned", "killed"}
         /\ \A d \in Calls \ {c} :
               pc'[d] = pc[d] /\ fix'[d] = fix[d] /\ cause'[d] = cause[d]
         /\ fix[c] = NotApplied
         /\ \A f \in Files : RolledBack(f) => RolledBack(f)'
<1> USE DEF FixInv, TypeOK
<1>1. index' = index /\ typed' = typed
  BY Zenon DEF CallStep, CheckAccepts, GitRefuses, ApplySucceeds, ApplyInterrupted,
     VerifyPasses, VerifyFails, Rollback, ReportRollback, Killed, tree
<1>2. pc[c] \notin {"returned", "killed"}
  BY DEF CallStep, CheckAccepts, GitRefuses, ApplySucceeds, ApplyInterrupted,
     VerifyPasses, VerifyFails, Rollback, ReportRollback, Killed
<1>3. /\ \E l : pc' = [pc EXCEPT ![c] = l]
      /\ fix' = fix \/ \E r : fix' = [fix EXCEPT ![c] = r]
      /\ cause' = cause \/ \E k : cause' = [cause EXCEPT ![c] = k]
  <2> USE DEF Return, GoTo
  <2>1. CASE CheckAccepts(c)
    BY <2>1, Zenon DEF CheckAccepts
  <2>2. CASE GitRefuses(c)
    BY <2>2, Zenon DEF GitRefuses
  <2>3. CASE ApplySucceeds(c)
    BY <2>3, Zenon DEF ApplySucceeds
  <2>4. CASE ApplyInterrupted(c)
    BY <2>4, Zenon DEF ApplyInterrupted
  <2>5. CASE VerifyPasses(c)
    BY <2>5, Zenon DEF VerifyPasses
  <2>6. CASE VerifyFails(c)
    BY <2>6, Zenon DEF VerifyFails
  <2>7. CASE Rollback(c)
    BY <2>7, Zenon DEF Rollback
  <2>8. CASE Killed(c)
    BY <2>8, Zenon DEF Killed
  <2>9. CASE ReportRollback(c)
    BY <2>9, Zenon DEF ReportRollback
  <2> QED
    BY <2>1, <2>2, <2>3, <2>4, <2>5, <2>6, <2>7, <2>8, <2>9 DEF CallStep
<1>4. \A d \in Calls \ {c} :
         pc'[d] = pc[d] /\ fix'[d] = fix[d] /\ cause'[d] = cause[d]
  BY <1>3
<1>5. fix[c] = NotApplied
  BY <1>2 DEF AnswerWhenReturned
<1>6. restored \subseteq restored'
  BY DEF CallStep, CheckAccepts, GitRefuses, ApplySucceeds, ApplyInterrupted,
     VerifyPasses, VerifyFails, Rollback, ReportRollback, Killed, tree
<1>7. \A f \in Files : RolledBack(f) => RolledBack(f)'
  BY <1>6 DEF RolledBack
<1> QED BY <1>1, <1>2, <1>4, <1>5, <1>7

\* A step that leaves the working tree alone and does not answer.
LEMMA QuietStep ==
  ASSUME FixInv, NEW c \in Calls, CallStep(c), NEW l \in {"apply", "rollback", "killed"},
         pc'[c] = l, l = "apply" => pc[c] = "check",
         l = "rollback" => pc[c] = "verify",
         fix' = fix, cause' = cause, UNCHANGED <<work, restored, cut>>
  PROVE  /\ StagedSurvives' /\ AnswerWhenReturned' /\ NothingLost'
         /\ NotYetThere' /\ LeftHasCause'
<1> USE CallFrame DEF FixInv, TypeOK
<1>1. StagedSurvives'
  BY DEF StagedSurvives
<1>2. AnswerWhenReturned'
  BY DEF AnswerWhenReturned
<1>3. NothingLost'
  BY DEF NothingLost, InPlace, RolledBack
<1>4. NotYetThere'
  BY DEF NotYetThere
<1>5. LeftHasCause'
  BY DEF LeftHasCause
<1> QED BY <1>1, <1>2, <1>3, <1>4, <1>5

\* A call that returns without touching the tree: it was refused before git
\* applied anything, or it keeps its patch.
LEMMA PlainReturn ==
  ASSUME FixInv, NEW c \in Calls, CallStep(c), pc'[c] = "returned",
         NEW r, fix'[c] = r, ~r.rolled_back,
         r.applied => pc[c] = "verify",
         ~r.applied => pc[c] \in {"check", "apply"},
         cause' = cause, UNCHANGED <<work, restored, cut>>
  PROVE  /\ StagedSurvives' /\ AnswerWhenReturned' /\ NothingLost'
         /\ NotYetThere' /\ LeftHasCause'
<1> USE CallFrame DEF FixInv, TypeOK
<1>1. StagedSurvives'
  BY DEF StagedSurvives
<1>2. AnswerWhenReturned'
  BY DEF AnswerWhenReturned
<1>3. \A f \in Files : RolledBack(f)' <=> RolledBack(f)
  BY DEF RolledBack
<1>4. NothingLost'
  BY <1>3 DEF NothingLost, InPlace
<1>5. NotYetThere'
  BY DEF NotYetThere
<1>6. LeftHasCause'
  BY DEF LeftHasCause, NotYetThere
<1> QED BY <1>1, <1>2, <1>4, <1>5, <1>6

\* git apply puts the patch into all its files.
LEMMA ApplyStep ==
  ASSUME FixInv, NEW c \in Calls, ApplySucceeds(c)
  PROVE  /\ StagedSurvives' /\ AnswerWhenReturned' /\ NothingLost'
         /\ NotYetThere' /\ LeftHasCause'
<1>0. CallStep(c) /\ pc[c] = "apply"
  BY DEF CallStep, ApplySucceeds
<1>1. TouchesOf[c] \in SUBSET Files /\ {} \in SUBSET Files
  BY AutoFixAssumption
<1>2. /\ \A f \in Files : \A x :
            x \in work'[f] <=> x \in work[f] \/ (x = c /\ f \in TouchesOf[c])
      /\ cut' = cut
  <2>1. Patched(c, TouchesOf[c], {}) /\ TypeOK
    BY DEF ApplySucceeds, FixInv
  <2>2. cut' = cut /\ work' = [f \in Files |->
            IF f \in TouchesOf[c] THEN work[f] \cup {c} ELSE work[f]]
    BY <2>1 DEF Patched
  <2> QED BY <2>2
<1> USE DEF FixInv, TypeOK
<1>3. cause' = cause /\ restored' = restored
  BY DEF ApplySucceeds
<1>4. \/ pc'[c] = "verify" /\ fix'[c] = fix[c]
      \/ pc'[c] = "returned" /\ fix'[c] = Answer(TRUE, FALSE, "none")
  <2>1. \/ pc' = [pc EXCEPT ![c] = "verify"] /\ fix' = fix
        \/ /\ pc' = [pc EXCEPT ![c] = "returned"]
           /\ fix' = [fix EXCEPT ![c] = Answer(TRUE, FALSE, "none")]
    BY Zenon DEF ApplySucceeds, GoTo, Return
  <2> QED BY <2>1
<1>F. /\ index' = index /\ typed' = typed /\ fix[c] = NotApplied
      /\ \A d \in Calls \ {c} :
            pc'[d] = pc[d] /\ fix'[d] = fix[d] /\ cause'[d] = cause[d]
  BY <1>0, CallFrame
<1> USE <1>0, <1>F
<1>5. StagedSurvives'
  BY <1>2 DEF StagedSurvives
<1>6. AnswerWhenReturned'
  BY <1>4 DEF AnswerWhenReturned
<1>7. \A f \in Files : RolledBack(f)' <=> RolledBack(f)
  BY <1>3 DEF RolledBack
<1>8. NothingLost'
  BY <1>2, <1>7 DEF NothingLost, InPlace
<1>9. NotYetThere'
  BY <1>2, <1>4 DEF NotYetThere
<1>10. LeftHasCause'
  BY <1>2, <1>3, <1>4 DEF LeftHasCause, Answer
<1> QED BY <1>5, <1>6, <1>8, <1>9, <1>10

\* git apply is killed on its way through the files, and may cut one.
LEMMA ApplyInterruptedStep ==
  ASSUME FixInv, NEW c \in Calls, ApplyInterrupted(c)
  PROVE  /\ StagedSurvives' /\ AnswerWhenReturned' /\ NothingLost'
         /\ NotYetThere' /\ LeftHasCause'
<1>0. CallStep(c) /\ pc[c] = "apply"
  BY DEF CallStep, ApplyInterrupted
<1>1. PICK W \in SUBSET TouchesOf[c], T \in SUBSET TouchesOf[c] : Patched(c, W, T)
  BY DEF ApplyInterrupted
<1>2. /\ cut' = cut \cup T
      /\ \A f \in T : work'[f] = {}
      /\ \A f \in Files \ T : \A x :
            x \in work'[f] <=> x \in work[f] \/ (x = c /\ f \in W)
  <2>1. W \in SUBSET Files /\ T \in SUBSET Files
    BY <1>1, AutoFixAssumption
  <2>2. TypeOK
    BY DEF FixInv
  <2> QED BY <1>1, <2>1, <2>2, PatchedType
<1> USE DEF FixInv, TypeOK
<1>3. /\ cause'[c] = "interrupted" /\ restored' = restored
      /\ \/ pc'[c] = "returned" /\ fix'[c] = NotApplied
         \/ pc'[c] = "killed" /\ fix'[c] = fix[c]
  <2>1. \/ pc' = [pc EXCEPT ![c] = "returned"] /\ fix' = [fix EXCEPT ![c] = NotApplied]
        \/ pc' = [pc EXCEPT ![c] = "killed"] /\ fix' = fix
    BY Zenon DEF ApplyInterrupted, Return, GoTo
  <2>2. cause' = [cause EXCEPT ![c] = "interrupted"] /\ restored' = restored
    BY DEF ApplyInterrupted
  <2> QED BY <2>1, <2>2
<1>F. /\ index' = index /\ typed' = typed /\ fix[c] = NotApplied
      /\ \A d \in Calls \ {c} :
            pc'[d] = pc[d] /\ fix'[d] = fix[d] /\ cause'[d] = cause[d]
  BY <1>0, CallFrame
<1> USE <1>0, <1>F
<1>4. StagedSurvives'
  BY <1>2 DEF StagedSurvives
<1>5. AnswerWhenReturned'
  BY <1>3 DEF AnswerWhenReturned
<1>6. \A f \in Files : RolledBack(f)' <=> RolledBack(f)
  BY <1>3 DEF RolledBack
<1>7. ~NotApplied.applied
  BY DEF NotApplied, Answer
<1>8. NothingLost'
  BY <1>2, <1>3, <1>6, <1>7 DEF NothingLost, InPlace
<1>9. \A f \in Files : \A x : x \in work'[f] => x \in work[f] \/ x = c
  BY <1>2
<1>10. NotYetThere'
  BY <1>3, <1>9 DEF NotYetThere
<1>11. LeftHasCause'
  BY <1>3, <1>9 DEF LeftHasCause
<1> QED BY <1>4, <1>5, <1>8, <1>10, <1>11

\* git checkout restores the target from the index, fails unnoticed, or is
\* killed in the middle of the file.
LEMMA RollbackStep ==
  ASSUME FixInv, NEW c \in Calls, TargetOf[c] \in Files, Rollback(c)
  PROVE  /\ StagedSurvives' /\ AnswerWhenReturned' /\ NothingLost'
         /\ NotYetThere' /\ LeftHasCause'
<1> DEFINE t == TargetOf[c]
<1>0. CallStep(c) /\ pc[c] = "rollback"
  BY DEF CallStep, Rollback
<1>1. /\ \/ /\ cause' = cause /\ work'[t] = index[t]
            /\ restored' = restored \cup {c} /\ cut' = cut
         \/ /\ cause'[c] = "checkout failed" /\ work'[t] = work[t]
            /\ restored' = restored /\ cut' = cut
         \/ /\ cause'[c] = "checkout failed" /\ work'[t] = {}
            /\ restored' = restored /\ cut' = cut \cup {t}
      /\ \A f \in Files \ {t} : work'[f] = work[f]
  <2>T. TypeOK /\ {} \in SUBSET Files /\ {t} \in SUBSET Files
        /\ work \in [Files -> SUBSET Changes] /\ cause \in [Calls -> Causes]
    BY DEF FixInv, TypeOK
  <2>1. CASE Checkout(c) /\ restored' = restored \cup {c} /\ UNCHANGED <<cause, cut>>
    BY <2>1, <2>T DEF Checkout
  <2>2. CASE /\ UNCHANGED <<work, cut, restored>>
             /\ cause' = [cause EXCEPT ![c] = "checkout failed"]
    BY <2>2, <2>T
  <2>3. CASE /\ Patched(c, {}, {t}) /\ UNCHANGED restored
             /\ cause' = [cause EXCEPT ![c] = "checkout failed"]
    <3>1. /\ cut' = cut \cup {t} /\ work'[t] = {}
          /\ work' \in [Files -> SUBSET Changes]
          /\ \A f \in Files \ {t} : \A x : x \in work'[f] <=> x \in work[f]
      <4>1. /\ cut' = cut \cup {t}
            /\ work' = [f \in Files |-> IF f = t THEN {} ELSE work[f]]
        BY <2>3 DEF Patched
      <4>2. t \in Files
        BY <2>T
      <4> QED BY <4>1, <4>2, <2>T
    <3>2. \A f \in Files \ {t} : work'[f] = work[f]
      BY <3>1, <2>T
    <3> QED BY <2>3, <2>T, <3>1, <3>2
  <2> QED BY <2>1, <2>2, <2>3, Zenon DEF Rollback
<1>3. pc'[c] = "rolled" /\ fix' = fix
  BY DEF Rollback, GoTo, FixInv, TypeOK
<1>F. /\ index' = index /\ typed' = typed /\ fix[c] = NotApplied
      /\ \A d \in Calls \ {c} :
            pc'[d] = pc[d] /\ fix'[d] = fix[d] /\ cause'[d] = cause[d]
      /\ \A f \in Files : RolledBack(f) => RolledBack(f)'
  BY <1>0, CallFrame
<1> USE <1>0, <1>F DEF FixInv
<1> HIDE DEF t
<1>4. StagedSurvives'
  BY <1>1 DEF StagedSurvives
<1>5. AnswerWhenReturned'
  BY <1>3 DEF AnswerWhenReturned
<1>6. RolledBack(t)' \/ work'[t] = work[t] \/ t \in cut'
  BY <1>1 DEF RolledBack, t
<1>7. cut \subseteq cut'
  BY <1>1
<1>8. NothingLost'
  BY <1>1, <1>3, <1>6, <1>7 DEF NothingLost, InPlace
<1>9. \A f \in Files : \A x :
         x \in work'[f] \/ x \in index'[f] => x \in work[f] \/ x \in index[f]
  BY <1>1
<1>10. NotYetThere'
  BY <1>3, <1>9 DEF NotYetThere
<1>11. LeftHasCause'
  <2> SUFFICES ASSUME NEW d \in Calls, NEW f \in Files,
                      pc'[d] = "rolled" \/ (pc'[d] = "returned" /\ ~fix'[d].applied),
                      d \in work'[f] \/ d \in index'[f]
               PROVE  \/ cause'[d] # "none"
                      \/ /\ pc'[d] = "rolled" \/ fix'[d].rolled_back
                         /\ f # TargetOf[d] \/ d \in index'[f]
    BY DEF LeftHasCause
  <2>1. CASE d = c
    BY <2>1, <1>1, <1>3 DEF t
  <2>2. CASE d # c
    BY <2>2, <1>9 DEF LeftHasCause
  <2> QED BY <2>1, <2>2
<1> QED BY <1>4, <1>5, <1>8, <1>10, <1>11

\* A checkout is reported as done, whatever became of it.
LEMMA ReportStep ==
  ASSUME FixInv, NEW c \in Calls, ReportRollback(c)
  PROVE  /\ StagedSurvives' /\ AnswerWhenReturned' /\ NothingLost'
         /\ NotYetThere' /\ LeftHasCause'
<1> USE DEF FixInv
<1>0. CallStep(c) /\ pc[c] = "rolled"
  BY DEF CallStep, ReportRollback
<1>1. /\ pc'[c] = "returned" /\ ~fix'[c].applied /\ fix'[c].rolled_back
      /\ UNCHANGED <<work, restored, cut, cause>>
  BY DEF ReportRollback, Return, GoTo, TypeOK, tree, Answer
<1>F. /\ index' = index /\ typed' = typed
      /\ \A d \in Calls \ {c} :
            pc'[d] = pc[d] /\ fix'[d] = fix[d] /\ cause'[d] = cause[d]
  BY <1>0, CallFrame
<1> USE <1>0, <1>1, <1>F
<1>2. StagedSurvives' /\ AnswerWhenReturned'
  BY DEF StagedSurvives, AnswerWhenReturned
<1>3. \A f \in Files : RolledBack(f)' <=> RolledBack(f)
  BY DEF RolledBack
<1>4. NothingLost' /\ NotYetThere'
  BY <1>3 DEF NothingLost, InPlace, NotYetThere
<1>5. LeftHasCause'
  BY DEF LeftHasCause
<1> QED BY <1>2, <1>4, <1>5

\* Every step of a call keeps what is said of the tree and of the answers.
LEMMA CallKeeps ==
  ASSUME FixInv, NEW c \in Calls, CallStep(c)
  PROVE  /\ StagedSurvives' /\ AnswerWhenReturned' /\ NothingLost'
         /\ NotYetThere' /\ LeftHasCause'
<1>T. pc \in [Calls -> PcValues] /\ fix \in [Calls -> AutoFixResult]
  BY DEF FixInv, TypeOK
<1>1. CASE CheckAccepts(c)
  <2>1. /\ pc[c] = "check" /\ pc'[c] = "apply"
        /\ fix' = fix /\ cause' = cause /\ UNCHANGED <<work, restored, cut>>
    BY <1>1, <1>T DEF CheckAccepts, GoTo, tree
  <2> QED BY <2>1, QuietStep
<1>2. CASE Killed(c)
  <2>1. pc'[c] = "killed" /\ fix' = fix /\ cause' = cause /\ UNCHANGED <<work, restored, cut>>
    BY <1>2, <1>T DEF Killed, GoTo, tree
  <2> QED BY <2>1, QuietStep
<1>3. CASE GitRefuses(c)
  <2>1. /\ pc[c] \in {"check", "apply"} /\ pc'[c] = "returned"
        /\ fix'[c] = NotApplied /\ cause' = cause /\ UNCHANGED <<work, restored, cut>>
    BY <1>3, <1>T DEF GitRefuses, Return, GoTo, tree
  <2>2. ~NotApplied.rolled_back /\ ~NotApplied.applied
    BY DEF NotApplied, Answer
  <2> QED BY <2>1, <2>2, PlainReturn
<1>4. CASE VerifyPasses(c)
  <2> DEFINE r == Answer(TRUE, FALSE, "true")
  <2>1. /\ pc[c] = "verify" /\ pc'[c] = "returned"
        /\ fix'[c] = r /\ cause' = cause /\ UNCHANGED <<work, restored, cut>>
    BY <1>4, <1>T DEF VerifyPasses, Return, GoTo, tree
  <2>2. ~r.rolled_back /\ r.applied
    BY DEF Answer
  <2> HIDE DEF r
  <2> QED BY <2>1, <2>2, PlainReturn
<1>5. CASE VerifyFails(c)
  <2> DEFINE r == Answer(TRUE, FALSE, "false")
  <2>1. /\ pc[c] = "verify" /\ cause' = cause /\ UNCHANGED <<work, restored, cut>>
        /\ \/ pc' = [pc EXCEPT ![c] = "rollback"] /\ fix' = fix
           \/ pc' = [pc EXCEPT ![c] = "returned"] /\ fix' = [fix EXCEPT ![c] = r]
    BY <1>5, Zenon DEF VerifyFails, Return, GoTo, tree
  <2>2. ~r.rolled_back /\ r.applied
    BY DEF Answer
  <2> HIDE DEF r
  <2>3. CASE pc' = [pc EXCEPT ![c] = "rollback"] /\ fix' = fix
    <3>1. pc'[c] = "rollback"
      BY <2>3, <1>T
    <3> QED BY <2>1, <2>3, <3>1, QuietStep
  <2>4. CASE pc' = [pc EXCEPT ![c] = "returned"] /\ fix' = [fix EXCEPT ![c] = r]
    <3>1. pc'[c] = "returned" /\ fix'[c] = r
      BY <2>4, <1>T
    <3> QED BY <2>1, <2>2, <3>1, PlainReturn
  <2> QED BY <2>1, <2>3, <2>4
<1>6. CASE Rollback(c)
  <2>1. TargetOf[c] \in Files
    BY <1>6, AutoFixAssumption DEF FixInv, RollbackHasTarget, Rollback
  <2> QED BY <1>6, <2>1, RollbackStep
<1> QED
  BY <1>1, <1>2, <1>3, <1>4, <1>5, <1>6, ApplyStep, ApplyInterruptedStep, ReportStep
  DEF CallStep

\* Only VerifyFails enters the roll-back, and it looks at the target first.
LEMMA TargetStep ==
  ASSUME FixInv, NEW c \in Calls, CallStep(c)
  PROVE  RollbackHasTarget'
<1>T. pc \in [Calls -> PcValues]
  BY DEF FixInv, TypeOK
<1>1. pc'[c] = "rollback" => TargetOf[c] # NoFile
  <2> USE <1>T DEF GoTo, Return
  <2>1. CASE CheckAccepts(c) \/ GitRefuses(c) \/ ApplyInterrupted(c)
    BY <2>1 DEF CheckAccepts, GitRefuses, ApplyInterrupted
  <2>2. CASE VerifyPasses(c) \/ Rollback(c) \/ ReportRollback(c) \/ Killed(c)
    BY <2>2 DEF VerifyPasses, Rollback, ReportRollback, Killed
  <2>3. CASE ApplySucceeds(c)
    <3>1. pc' = [pc EXCEPT ![c] = "verify"] \/ pc' = [pc EXCEPT ![c] = "returned"]
      BY <2>3, Zenon DEF ApplySucceeds
    <3> QED BY <3>1
  <2>4. CASE VerifyFails(c)
    <3>1. TargetOf[c] # NoFile \/ pc' = [pc EXCEPT ![c] = "returned"]
      BY <2>4, Zenon DEF VerifyFails
    <3> QED BY <3>1
  <2> QED BY <2>1, <2>2, <2>3, <2>4 DEF CallStep
<1>2. \A d \in Calls \ {c} : pc'[d] = pc[d]
  BY CallFrame
<1> QED BY <1>1, <1>2 DEF FixInv, RollbackHasTarget

\* FixInv is inductive: no step of a call, of another call or of the developer
\* breaks it.
THEOREM FixInvariant == Spec => []FixInv
<1>1. FixInv /\ [Next]_vars => FixInv'
  <2> SUFFICES ASSUME FixInv, [Next]_vars PROVE FixInv'
    OBVIOUS
  <2>0. TypeOK'
    BY FixType DEF FixInv
  <2>1. CASE UNCHANGED vars
    BY <2>0, <2>1
    DEF vars, FixInv, RollbackHasTarget, StagedSurvives, AnswerWhenReturned,
        NothingLost, InPlace, NotYetThere, LeftHasCause, RolledBack
  <2>2. ASSUME NEW f \in Files, Stage(f) \/ \E e \in Edits : Edit(f, e)
        PROVE  FixInv'
    <3>1. pc' = pc
      BY <2>2 DEF Stage, Edit
    <3>2. RollbackHasTarget'
      BY <3>1 DEF FixInv, RollbackHasTarget
    <3>3. /\ StagedSurvives' /\ AnswerWhenReturned' /\ NothingLost'
          /\ NotYetThere' /\ LeftHasCause'
      BY <2>2, DeveloperStep
    <3> QED BY <2>0, <3>2, <3>3 DEF FixInv
  <2>3. ASSUME NEW c \in Calls, CallStep(c) PROVE FixInv'
    BY <2>0, <2>3, CallKeeps, TargetStep DEF FixInv
  <2> QED BY <2>1, <2>2, <2>3 DEF Next, CallStep
<1> QED BY <1>1, FixInit, PTL DEF Spec

\* Staged work survives every patch and every roll-back of apply_patch.
THEOREM StagedWorkSurvives == Spec => []StagedSurvives
<1>1. FixInv => StagedSurvives
  BY DEF FixInv
<1> QED BY <1>1, FixInvariant, PTL

\* An edit, or a patch reported as PATCH_APPLIED, leaves a file only through
\* the roll-back of a call whose target is that file.
THEOREM OnlyRollbackLoses == Spec => []LossIsByRollback
<1>1. FixInv => LossIsByRollback
  <2>1. ASSUME NEW c \in Calls, ReportOf(c) = "PATCH_APPLIED"
        PROVE  fix[c].applied
    BY <2>1 DEF ReportOf
  <2> QED BY <2>1 DEF FixInv, NothingLost, InPlace, LossIsByRollback
<1> QED BY <1>1, FixInvariant, PTL

\* A patch apply_patch does not report as applied is in a file for one of the
\* causes UnreportedPatchHasCause lists.
THEOREM UnreportedPatches == Spec => []UnreportedPatchHasCause
<1>1. FixInv => UnreportedPatchHasCause
  BY DEF FixInv, LeftHasCause, UnreportedPatchHasCause
<1> QED BY <1>1, FixInvariant, PTL

=============================================================================
