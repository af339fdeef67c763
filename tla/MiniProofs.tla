----------------------------- MODULE MiniProofs ------------------------------
(***************************************************************************)
(* Proofs about the mini reviewer, for every number of gates, threads,     *)
(* files and changes.                                                      *)
(***************************************************************************)
EXTENDS MiniReviewer, FiniteSetTheorems, TLAPS

-----------------------------------------------------------------------------
\* A set of versions has a largest one, so the next version is above all.
LEMMA MaxVersionExists ==
  ASSUME NEW S \in SUBSET Versions, S # {}
  PROVE  Max(S) \in S
<1>1. MaxVersion \in Nat
  BY JobsAssumption
<1> DEFINE T == {n \in 0 .. MaxVersion : MaxVersion - n \in S}
<1>2. T \subseteq Nat /\ T # {}
  <2>1. PICK s \in S : TRUE
    OBVIOUS
  <2>2. MaxVersion - s \in 0 .. MaxVersion /\ MaxVersion - (MaxVersion - s) = s
    BY <1>1, <2>1 DEF Versions
  <2> QED BY <2>2
<1>3. PICK n \in T : \A m \in T : ~(<<m, n>> \in OpToRel(<, Nat))
  <2> HIDE DEF T
  <2> QED BY <1>2, NatLessThanWellFounded, WFMin
<1>4. \A m \in T : ~(m < n)
  BY <1>2, <1>3 DEF OpToRel
<1>5. \A s \in S : MaxVersion - n >= s
  <2> SUFFICES ASSUME NEW s \in S PROVE MaxVersion - n >= s
    OBVIOUS
  <2>1. MaxVersion - s \in T /\ s \in 0 .. MaxVersion
    BY <1>1 DEF Versions
  <2>2. ~(MaxVersion - s < n) /\ n \in 0 .. MaxVersion
    BY <1>4, <2>1
  <2> QED BY <1>1, <2>1, <2>2
<1>6. MaxVersion - n \in S
  OBVIOUS
<1>7. \E x \in S : \A y \in S : x >= y
  BY <1>5, <1>6
<1> QED BY <1>7 DEF Max

\* A change that fits into the bound gives the file a version.
LEMMA NewVersionType ==
  ASSUME TypeOK, NEW f \in Files, NewVersion <= MaxVersion
  PROVE  NewVersion \in Versions
<1>1. Range(work) \in SUBSET Versions /\ Range(work) # {}
  BY DEF TypeOK, Range
<1>2. Max(Range(work)) \in Versions
  BY <1>1, MaxVersionExists
<1> QED BY <1>2, JobsAssumption DEF NewVersion, Versions

\* The targets of a gate or thread are files.
LEMMA TargetsType ==
  ASSUME TypeOK, NEW j \in Jobs
  PROVE  Targets(j) \in Seq(Files)
<1>1. <<>> \in Seq(Files) /\ todo[j] \in Seq(Files)
  BY DEF TypeOK
<1>2. j \in Gates \/ j \in Threads
  BY DEF Jobs
<1>3. j \in Gates => PathsOf[j] \in Seq(Files)
  BY JobsAssumption
<1> DEFINE S == {f \in Files : index[f] # head[f]}
<1>4. SetToSeq(S) \in Seq(Files)
  <2>1. S \in SUBSET Files
    OBVIOUS
  <2> HIDE DEF S
  <2>2. IsFiniteSet(S)
    BY <2>1, FS_Subset, JobsAssumption
  <2>3. Cardinality(S) \in Nat /\ ExistsBijection(1 .. Cardinality(S), S)
    BY <2>2, FS_CardinalityType
  <2>4. \E f \in [1 .. Cardinality(S) -> S] : IsInjective(f)
    BY <2>3 DEF ExistsBijection, Bijection, Injection
  <2>5. SetToSeq(S) \in [1 .. Cardinality(S) -> S]
    BY <2>4 DEF SetToSeq
  <2> QED BY <2>1, <2>3, <2>5
<1> HIDE DEF S
<1>5. CASE j \in Skipping
  BY <1>1, <1>5 DEF Targets
<1> QED BY <1>1, <1>2, <1>3, <1>4 DEF Targets, S

-----------------------------------------------------------------------------
\* A job at work on a target has one, and a patch in hand is the model's answer
\* about it.
InHand ==
    \A j \in Jobs : pc[j] \in {"diff", "model", "check", "apply"} => todo[j] # <<>>
Patching ==
    \A j \in Jobs :
        pc[j] \in {"check", "apply"} =>
            \E r \in Review :
                /\ proposed[j] = r
                /\ r.by = j /\ r.file = Head(todo[j]) /\ r.version = seen[j]
                /\ r.code # "REVIEW_PASSED"

\* The files are written only when there is something to write.
Writing ==
    \A j \in Jobs : pc[j] \in {"json", "text"} => payloads[j] # <<>>

MiniTypes == TypeOK /\ InHand /\ Patching /\ Writing

\* The parts of TypeOK a job writes, of the job that takes the step.
JobTypes ==
    /\ pc \in [Jobs -> PcValues]
    /\ todo \in [Jobs -> Seq(Files)]
    /\ seen \in [Jobs -> Versions]
    /\ proposed \in [Jobs -> Review \cup {None}]
    /\ payloads \in [Jobs -> Seq(Review)]

\* NextTarget drops the target in hand and takes the payloads it is given.
LEMMA NextTargetKeeps ==
  ASSUME MiniTypes, NEW j \in Jobs, NEW list \in Seq(Review),
         todo[j] # <<>>, NextTarget(j, list)
  PROVE  JobTypes' /\ InHand' /\ Patching' /\ Writing' /\ pc'[j] \in {"log", "diff"}
<1>0. JobTypes
  BY DEF MiniTypes, TypeOK, JobTypes
<1>1. Tail(todo[j]) \in Seq(Files)
  BY <1>0 DEF JobTypes
<1>2. 0 \in Versions
  BY JobsAssumption DEF Versions
<1>3. JobTypes'
  BY <1>0, <1>1, <1>2 DEF JobTypes, NextTarget, PcValues
<1>4. pc'[j] = (IF Len(todo[j]) = 1 THEN "log" ELSE "diff") /\ todo'[j] = Tail(todo[j])
  BY <1>0 DEF NextTarget, JobTypes
<1>5. pc'[j] = "diff" => todo'[j] # <<>>
  <2>1. Len(todo[j]) \in Nat /\ Len(todo[j]) # 0
    BY <1>0 DEF JobTypes
  <2>2. Len(Tail(todo[j])) = Len(todo[j]) - 1
    BY <1>0 DEF JobTypes
  <2>3. pc'[j] = "diff" => Len(todo'[j]) # 0
    BY <1>4, <2>1, <2>2
  <2>4. Len(<<>>) = 0
    OBVIOUS
  <2> QED BY <2>3, <2>4
<1>6. \A k \in Jobs \ {j} : pc'[k] = pc[k] /\ todo'[k] = todo[k]
                            /\ seen'[k] = seen[k] /\ proposed'[k] = proposed[k]
  BY <1>0 DEF NextTarget, JobTypes
<1>7. InHand'
  BY <1>4, <1>5, <1>6 DEF MiniTypes, InHand
<1>8. Patching'
  BY <1>4, <1>6 DEF MiniTypes, Patching
<1>9. Writing'
  <2>1. \A k \in Jobs \ {j} : payloads'[k] = payloads[k]
    BY <1>0 DEF NextTarget, JobTypes
  <2> QED BY <2>1, <1>4, <1>6 DEF MiniTypes, Writing
<1> QED BY <1>3, <1>4, <1>7, <1>8, <1>9

\* The end of a call leaves nothing in hand.
LEMMA ForgetKeeps ==
  ASSUME MiniTypes, NEW j \in Jobs, NEW l \in Ended, Forget(j),
         pc' = [pc EXCEPT ![j] = l], todo' = todo
  PROVE  JobTypes' /\ InHand' /\ Patching' /\ Writing'
<1>0. JobTypes
  BY DEF MiniTypes, TypeOK, JobTypes
<1>2. 0 \in Versions
  BY JobsAssumption DEF Versions
<1>3. JobTypes'
  BY <1>0, <1>2 DEF JobTypes, Forget, PcValues, Ended
<1>4. pc'[j] \in Ended
  BY <1>0 DEF JobTypes
<1>6. \A k \in Jobs \ {j} : pc'[k] = pc[k]
                            /\ seen'[k] = seen[k] /\ proposed'[k] = proposed[k]
  BY <1>0 DEF Forget, JobTypes
<1>7. InHand'
  BY <1>4, <1>6 DEF MiniTypes, InHand, Ended
<1>8. Patching'
  BY <1>4, <1>6 DEF MiniTypes, Patching, Ended
<1>9. Writing'
  <2>1. \A k \in Jobs \ {j} : payloads'[k] = payloads[k]
    BY <1>0 DEF Forget, JobTypes
  <2> QED BY <2>1, <1>4, <1>6 DEF MiniTypes, Writing, Ended
<1> QED BY <1>3, <1>7, <1>8, <1>9

\* A step of a job that changes only where it is, within or outside its target.
LEMMA MoveKeeps ==
  ASSUME MiniTypes, NEW j \in Jobs, NEW l \in PcValues \ {"model", "check"},
         pc' = [pc EXCEPT ![j] = l], UNCHANGED <<seen, proposed, payloads>>,
         l = "apply" => pc[j] = "check",
         l \in {"json", "text"} => payloads[j] # <<>>,
         todo' \in [Jobs -> Seq(Files)],
         l = "diff" => todo'[j] # <<>>,
         l = "apply" => todo' = todo,
         \A k \in Jobs \ {j} : todo'[k] = todo[k]
  PROVE  JobTypes' /\ InHand' /\ Patching' /\ Writing'
<1>0. JobTypes
  BY DEF MiniTypes, TypeOK, JobTypes
<1>1. JobTypes'
  BY <1>0 DEF JobTypes
<1>2. pc'[j] = l /\ \A k \in Jobs \ {j} : pc'[k] = pc[k]
  BY <1>0 DEF JobTypes
<1>3. InHand'
  BY <1>2 DEF MiniTypes, InHand
<1>4. Patching'
  BY <1>2 DEF MiniTypes, Patching
<1>5. Writing'
  BY <1>2 DEF MiniTypes, Writing
<1> QED BY <1>1, <1>3, <1>4, <1>5

\* The tree, the events and the files a change of a tracked file touches.
LEMMA ChangedType ==
  ASSUME TypeOK, NEW f \in Files, Changed(f)
  PROVE  work' \in [Files -> Versions] /\ events' \in SUBSET Files
<1>1. NewVersion \in Versions
  BY NewVersionType DEF Changed
<1> QED BY <1>1 DEF Changed, TypeOK

\* Everything but the local state of the jobs keeps its type.
RestTypes ==
    /\ work \in [Files -> Versions]
    /\ index \in [Files -> Versions]
    /\ head \in [Files -> Versions]
    /\ events \subseteq Files
    /\ recent \subseteq Files
    /\ exit \in [Gates -> {0, 1, 2, None}]
    /\ log \subseteq Review
    /\ latest_json \in Review \cup {None}
    /\ latest_text \in Review \cup {None}
    /\ read \in [Jobs -> SUBSET (Files \X Versions)]
    /\ answered \subseteq Review

\* The two halves of TypeOK.
LEMMA TypeHalves == (TypeOK <=> JobTypes /\ RestTypes) /\ (TypeOK' <=> JobTypes' /\ RestTypes')
  BY DEF TypeOK, JobTypes, RestTypes

\* Raise and Return end the call.
LEMMA EndKeeps ==
  ASSUME MiniTypes, NEW j \in Jobs, todo' = todo,
         Raise(j) \/ \E code \in {0, 1} : Return(j, code)
  PROVE  /\ JobTypes' /\ InHand' /\ Patching' /\ Writing'
         /\ exit' \in [Gates -> {0, 1, 2, None}]
<1>1. \E l \in Ended : pc' = [pc EXCEPT ![j] = l]
  BY DEF Raise, Return, Ended
<1>2. Forget(j)
  BY DEF Raise, Return
<1>3. JobTypes' /\ InHand' /\ Patching' /\ Writing'
  BY <1>1, <1>2, ForgetKeeps
<1>4. exit \in [Gates -> {0, 1, 2, None}]
  BY DEF MiniTypes, TypeOK
<1>5. \E c \in {0, 1, 2} : exit' = [g \in Gates |-> IF g = j THEN c ELSE exit[g]]
  BY DEF Raise, Return
<1>6. exit' \in [Gates -> {0, 1, 2, None}]
  BY <1>4, <1>5
<1> QED BY <1>3, <1>6

\* The step of a job keeps the types and what is in hand.
LEMMA JobTypesStep ==
  ASSUME MiniTypes, NEW j \in Jobs, JobStep(j)
  PROVE  MiniTypes'
<1>0. JobTypes /\ RestTypes /\ TypeOK /\ InHand /\ Patching /\ Writing
  BY TypeHalves DEF MiniTypes
<1> SUFFICES JobTypes' /\ RestTypes' /\ InHand' /\ Patching' /\ Writing'
  BY TypeHalves DEF MiniTypes
<1>P. payloads[j] \in Seq(Review)
  BY <1>0 DEF JobTypes
<1>1. CASE JobRaises(j)
  <2>1. Raise(j) /\ UNCHANGED <<tree, watch, todo, files, history>>
    BY <1>1, Zenon DEF JobRaises
  <2> QED BY <2>1, <1>0, EndKeeps DEF RestTypes, tree, watch, files, history
<1>2. CASE FindTargets(j)
  <2>1. /\ todo' = [todo EXCEPT ![j] = Targets(j)] /\ Targets(j) # <<>>
        /\ pc' = [pc EXCEPT ![j] = "diff"]
        /\ UNCHANGED <<tree, watch, seen, proposed, payloads, exit, files, history>>
    BY <1>2, Zenon DEF FindTargets
  <2>2. Targets(j) \in Seq(Files)
    BY <1>0, TargetsType
  <2>3. /\ todo' \in [Jobs -> Seq(Files)] /\ todo'[j] # <<>>
        /\ \A k \in Jobs \ {j} : todo'[k] = todo[k]
    BY <2>1, <2>2, <1>0 DEF JobTypes
  <2>4. "diff" \in PcValues \ {"model", "check"}
    BY DEF PcValues
  <2>5. JobTypes' /\ InHand' /\ Patching' /\ Writing'
    BY <2>1, <2>3, <2>4, MoveKeeps
  <2> QED BY <2>1, <2>5, <1>0 DEF RestTypes, tree, watch, files, history
<1>3. CASE NothingToReview(j)
  <2>1. Return(j, 0) /\ UNCHANGED <<tree, watch, todo, files, history>>
    BY <1>3, Zenon DEF NothingToReview
  <2> QED BY <2>1, <1>0, EndKeeps DEF RestTypes, tree, watch, files, history
<1>4. CASE DiffFor(j)
  <2> DEFINE f == Head(todo[j])
             v == IF j \in Staged THEN index[f] ELSE work[f]
  <2>1. /\ pc[j] = "diff"
        /\ \/ NextTarget(j, payloads[j]) /\ UNCHANGED read
           \/ /\ seen' = [seen EXCEPT ![j] = v]
              /\ read' = [read EXCEPT ![j] = @ \cup {<<f, v>>}]
              /\ pc' = [pc EXCEPT ![j] = "model"]
              /\ UNCHANGED <<todo, proposed, payloads>>
        /\ UNCHANGED <<tree, watch, exit, files, answered>>
    BY <1>4, Zenon DEF DiffFor
  <2>2. todo[j] # <<>>
    BY <2>1, <1>0 DEF InHand
  <2>3. f \in Files
    BY <2>2, <1>0 DEF JobTypes
  <2>4. v \in Versions
    BY <2>3, <1>0 DEF RestTypes
  <2> HIDE DEF f, v
  <2>5. CASE NextTarget(j, payloads[j]) /\ UNCHANGED read
    <3>1. JobTypes' /\ InHand' /\ Patching' /\ Writing'
      BY <2>2, <2>5, <1>P, NextTargetKeeps
    <3> QED BY <2>1, <2>5, <3>1, <1>0 DEF RestTypes, tree, watch, files
  <2>6. CASE /\ seen' = [seen EXCEPT ![j] = v]
             /\ read' = [read EXCEPT ![j] = @ \cup {<<f, v>>}]
             /\ pc' = [pc EXCEPT ![j] = "model"]
             /\ UNCHANGED <<todo, proposed, payloads>>
    <3>1. read' \in [Jobs -> SUBSET (Files \X Versions)]
      BY <2>3, <2>4, <2>6, <1>0 DEF RestTypes
    <3>2. RestTypes'
      BY <3>1, <2>1, <1>0 DEF RestTypes, tree, watch, files
    <3>3. JobTypes'
      BY <2>4, <2>6, <1>0 DEF JobTypes, PcValues
    <3>4. /\ pc'[j] = "model"
          /\ \A k \in Jobs \ {j} : pc'[k] = pc[k] /\ seen'[k] = seen[k]
      BY <2>6, <1>0 DEF JobTypes
    <3>5. InHand'
      BY <3>4, <2>2, <2>6, <1>0 DEF InHand
    <3>6. Patching'
      BY <3>4, <2>6, <1>0 DEF Patching
    <3>7. Writing'
      BY <3>4, <2>6, <1>0 DEF Writing
    <3> QED BY <3>2, <3>3, <3>5, <3>6, <3>7
  <2> QED BY <2>1, <2>5, <2>6
<1>5. CASE ModelAnswers(j)
  <2>1. PICK c \in AcceptedCodes :
           LET r == [by |-> j, file |-> Head(todo[j]), version |-> seen[j], code |-> c]
           IN  /\ pc[j] = "model"
               /\ answered' = answered \cup {r}
               /\ \/ /\ c = "PATCH_PROPOSED" /\ AutoApply
                     /\ proposed' = [proposed EXCEPT ![j] = r]
                     /\ pc' = [pc EXCEPT ![j] = "check"]
                     /\ UNCHANGED <<todo, seen, payloads>>
                  \/ NextTarget(j, Append(payloads[j], r))
               /\ UNCHANGED <<tree, watch, exit, files, read>>
    BY <1>5, Zenon DEF ModelAnswers
  <2> DEFINE r == [by |-> j, file |-> Head(todo[j]), version |-> seen[j], code |-> c]
  <2>2. todo[j] # <<>>
    BY <2>1, <1>0 DEF InHand
  <2>3. r \in Review
    <3>1. Head(todo[j]) \in Files /\ seen[j] \in Versions
      BY <2>2, <1>0 DEF JobTypes
    <3>2. c \in AnsweredCodes
      BY DEF AcceptedCodes, AnsweredCodes
    <3> QED BY <3>1, <3>2 DEF Review
  <2>4. r.by = j /\ r.file = Head(todo[j]) /\ r.version = seen[j] /\ r.code = c
    OBVIOUS
  <2>5. /\ answered' = answered \cup {r}
        /\ \/ /\ c = "PATCH_PROPOSED"
              /\ proposed' = [proposed EXCEPT ![j] = r]
              /\ pc' = [pc EXCEPT ![j] = "check"]
              /\ UNCHANGED <<todo, seen, payloads>>
           \/ NextTarget(j, Append(payloads[j], r))
        /\ UNCHANGED <<tree, watch, exit, files, read>>
    BY <2>1, Zenon
  <2> HIDE DEF r
  <2>6. RestTypes'
    BY <2>3, <2>5, <1>0 DEF RestTypes, tree, watch, files
  <2>7. CASE NextTarget(j, Append(payloads[j], r))
    <3>1. Append(payloads[j], r) \in Seq(Review)
      BY <1>P, <2>3
    <3> QED BY <2>2, <2>6, <2>7, <3>1, NextTargetKeeps
  <2>8. CASE /\ c = "PATCH_PROPOSED"
             /\ proposed' = [proposed EXCEPT ![j] = r]
             /\ pc' = [pc EXCEPT ![j] = "check"]
             /\ UNCHANGED <<todo, seen, payloads>>
    <3>1. JobTypes'
      BY <2>3, <2>8, <1>0 DEF JobTypes, PcValues
    <3>2. /\ pc'[j] = "check" /\ proposed'[j] = r
          /\ \A k \in Jobs \ {j} : pc'[k] = pc[k] /\ proposed'[k] = proposed[k]
      BY <2>8, <1>0 DEF JobTypes
    <3>3. InHand'
      BY <3>2, <2>2, <2>8, <1>0 DEF InHand
    <3>4. Patching'
      BY <3>2, <2>3, <2>4, <2>8, <1>0 DEF Patching
    <3>5. Writing'
      BY <3>2, <2>8, <1>0 DEF Writing
    <3> QED BY <2>6, <3>1, <3>3, <3>4, <3>5
  <2> QED BY <2>5, <2>7, <2>8
<1>6. CASE ModelFails(j)
  <2>1. Raise(j) /\ UNCHANGED <<tree, watch, todo, files, history>>
    BY <1>6, Zenon DEF ModelFails
  <2> QED BY <2>1, <1>0, EndKeeps DEF RestTypes, tree, watch, files, history
<1>7. ASSUME pc[j] \in {"check", "apply"}
      PROVE  /\ todo[j] # <<>> /\ Head(todo[j]) \in Files
             /\ Append(payloads[j], proposed[j]) \in Seq(Review)
             /\ Append(payloads[j], [proposed[j] EXCEPT !.code = "PATCH_APPLIED"])
                   \in Seq(Review)
  <2>1. todo[j] # <<>>
    BY <1>7, <1>0 DEF InHand
  <2>2. Head(todo[j]) \in Files
    BY <2>1, <1>0 DEF JobTypes
  <2>3. proposed[j] \in Review
    BY <1>7, <1>0 DEF Patching
  <2>4. [proposed[j] EXCEPT !.code = "PATCH_APPLIED"] \in Review
    BY <2>3 DEF Review
  <2> QED BY <2>1, <2>2, <2>3, <2>4, <1>P
<1>8. CASE CheckRefuses(j) \/ ApplyRefuses(j)
  <2>1. /\ pc[j] \in {"check", "apply"}
        /\ NextTarget(j, Append(payloads[j], proposed[j]))
        /\ UNCHANGED <<tree, watch, exit, files, history>>
    BY <1>8 DEF CheckRefuses, ApplyRefuses
  <2>2. JobTypes' /\ InHand' /\ Patching' /\ Writing'
    BY <2>1, <1>7, NextTargetKeeps
  <2> QED BY <2>1, <2>2, <1>0 DEF RestTypes, tree, watch, files, history
<1>9. CASE CheckAccepts(j)
  <2>1. /\ pc[j] = "check" /\ pc' = [pc EXCEPT ![j] = "apply"]
        /\ UNCHANGED <<tree, watch, todo, seen, proposed, payloads, exit, files, history>>
    BY <1>9, Zenon DEF CheckAccepts
  <2>2. "apply" \in PcValues \ {"model", "check"} /\ todo' \in [Jobs -> Seq(Files)]
    BY <2>1, <1>0 DEF PcValues, JobTypes
  <2>3. JobTypes' /\ InHand' /\ Patching' /\ Writing'
    BY <2>1, <2>2, MoveKeeps
  <2> QED BY <2>1, <2>3, <1>0 DEF RestTypes, tree, watch, files, history
<1>10. CASE ApplyPatch(j)
  <2>1. /\ pc[j] \in {"check", "apply"} /\ Changed(Head(todo[j]))
        /\ NextTarget(j, Append(payloads[j], [proposed[j] EXCEPT !.code = "PATCH_APPLIED"]))
        /\ UNCHANGED <<index, head, recent, exit, files, history>>
    BY <1>10 DEF ApplyPatch
  <2>2. JobTypes' /\ InHand' /\ Patching' /\ Writing'
    BY <2>1, <1>7, NextTargetKeeps
  <2>3. work' \in [Files -> Versions] /\ events' \in SUBSET Files
    BY <2>1, <1>7, <1>0, ChangedType
  <2> QED BY <2>1, <2>2, <2>3, <1>0 DEF RestTypes, files, history
<1>11. CASE ApplyTimesOut(j)
  <2>1. /\ pc[j] \in {"check", "apply"}
        /\ Changed(Head(todo[j])) \/ UNCHANGED <<work, events>>
        /\ Raise(j) /\ UNCHANGED <<index, head, recent, todo, files, history>>
    BY <1>11 DEF ApplyTimesOut
  <2>2. /\ JobTypes' /\ InHand' /\ Patching' /\ Writing'
        /\ exit' \in [Gates -> {0, 1, 2, None}]
    BY <2>1, EndKeeps
  <2>3. work' \in [Files -> Versions] /\ events' \in SUBSET Files
    BY <2>1, <1>7, <1>0, ChangedType DEF RestTypes
  <2> QED BY <2>1, <2>2, <2>3, <1>0 DEF RestTypes, files, history
<1>12. CASE NoDiffs(j)
  <2>1. Return(j, 0) /\ UNCHANGED <<tree, watch, todo, files, history>>
    BY <1>12, Zenon DEF NoDiffs
  <2> QED BY <2>1, <1>0, EndKeeps DEF RestTypes, tree, watch, files, history
<1>L. payloads[j] # <<>> => Last(payloads[j]) \in Review
  BY <1>P DEF Last
<1>R. Range(payloads[j]) \subseteq Review
  BY <1>P DEF Range
<1>13. CASE AppendReviewLogs(j)
  <2>1. /\ payloads[j] # <<>> /\ pc' = [pc EXCEPT ![j] = "json"] /\ log' = log \cup Range(payloads[j])
        /\ UNCHANGED <<tree, watch, todo, seen, proposed, payloads, exit,
                       latest_json, latest_text, history>>
    BY <1>13, Zenon DEF AppendReviewLogs
  <2>2. "json" \in PcValues \ {"model", "check"} /\ todo' \in [Jobs -> Seq(Files)]
    BY <2>1, <1>0 DEF PcValues, JobTypes
  <2>3. JobTypes' /\ InHand' /\ Patching' /\ Writing'
    BY <2>1, <2>2, MoveKeeps
  <2> QED BY <2>1, <2>3, <1>0, <1>R DEF RestTypes, tree, watch, history
<1>14. CASE ReplaceJson(j)
  <2>0. payloads[j] # <<>>
    BY <1>14, <1>0 DEF ReplaceJson, Writing
  <2>1. /\ pc' = [pc EXCEPT ![j] = "text"] /\ latest_json' = Last(payloads[j])
        /\ UNCHANGED <<tree, watch, todo, seen, proposed, payloads, exit, log,
                       latest_text, history>>
    BY <1>14, Zenon DEF ReplaceJson
  <2>2. "text" \in PcValues \ {"model", "check"} /\ todo' \in [Jobs -> Seq(Files)]
    BY <2>1, <1>0 DEF PcValues, JobTypes
  <2>3. JobTypes' /\ InHand' /\ Patching' /\ Writing'
    BY <2>0, <2>1, <2>2, MoveKeeps
  <2> QED BY <2>0, <2>1, <2>3, <1>0, <1>L DEF RestTypes, tree, watch, history
<1>15. CASE ReplaceText(j)
  <2>0. payloads[j] # <<>>
    BY <1>15, <1>0 DEF ReplaceText, Writing
  <2>1. /\ Return(j, ExitCode(payloads[j])) /\ latest_text' = Last(payloads[j])
        /\ UNCHANGED <<tree, watch, todo, log, latest_json, history>>
    BY <1>15, Zenon DEF ReplaceText
  <2>2. ExitCode(payloads[j]) \in {0, 1}
    BY DEF ExitCode
  <2>3. /\ JobTypes' /\ InHand' /\ Patching' /\ Writing'
        /\ exit' \in [Gates -> {0, 1, 2, None}]
    BY <2>1, <2>2, EndKeeps
  <2> QED BY <2>0, <2>1, <2>3, <1>0, <1>L DEF RestTypes, tree, watch, history
<1> QED
  BY <1>1, <1>2, <1>3, <1>4, <1>5, <1>6, <1>8, <1>9, <1>10, <1>11, <1>12,
     <1>13, <1>14, <1>15
  DEF JobStep

\* The steps outside review_targets: the developer, watchdog, the lock and the
\* start of a gate.
Outside ==
    \/ \E f \in Files : Save(f) \/ Stage(f) \/ EventDebounced(f) \/ WindowPasses(f)
    \/ Commit
    \/ \E f \in Files, t \in Threads : EventAccepted(f, t)
    \/ \E t \in Threads : AcquireReviewLock(t)
    \/ \E g \in Gates : StartGate(g)

\* They leave the payloads, the answers and the written files alone, and move
\* a job only before its first target.
LEMMA OutsideFrame ==
  ASSUME MiniTypes, Outside
  PROVE  /\ UNCHANGED <<seen, proposed, payloads, exit, files, history>>
         /\ \A j \in Jobs : \/ pc'[j] = pc[j] /\ todo'[j] = todo[j]
                            \/ /\ pc[j] \in {"idle", "waiting"}
                               /\ pc'[j] \in {"waiting", "targets"}
<1>0. pc \in [Jobs -> PcValues] /\ todo \in [Jobs -> Seq(Files)] /\ Threads \subseteq Jobs
      /\ Gates \subseteq Jobs
  BY DEF MiniTypes, TypeOK, Jobs
<1>1. ASSUME NEW f \in Files, Save(f) \/ Stage(f) \/ EventDebounced(f) \/ WindowPasses(f)
      PROVE  UNCHANGED <<pc, todo, seen, proposed, payloads, exit, files, history>>
  BY <1>1, Zenon DEF Save, Stage, EventDebounced, WindowPasses
<1>6. Commit => UNCHANGED <<pc, todo, seen, proposed, payloads, exit, files, history>>
  BY Zenon DEF Commit
<1>2. ASSUME NEW f \in Files, NEW t \in Threads, EventAccepted(f, t)
      PROVE  /\ UNCHANGED <<seen, proposed, payloads, exit, files, history>>
             /\ \A j \in Jobs : \/ pc'[j] = pc[j] /\ todo'[j] = todo[j]
                                \/ /\ pc[j] \in {"idle", "waiting"}
                                   /\ pc'[j] \in {"waiting", "targets"}
  BY <1>2, <1>0 DEF EventAccepted
<1>3. ASSUME NEW t \in Threads, AcquireReviewLock(t)
      PROVE  /\ UNCHANGED <<seen, proposed, payloads, exit, files, history>>
             /\ \A j \in Jobs : \/ pc'[j] = pc[j] /\ todo'[j] = todo[j]
                                \/ /\ pc[j] \in {"idle", "waiting"}
                                   /\ pc'[j] \in {"waiting", "targets"}
  BY <1>3, <1>0 DEF AcquireReviewLock
<1>4. ASSUME NEW g \in Gates, StartGate(g)
      PROVE  /\ UNCHANGED <<seen, proposed, payloads, exit, files, history>>
             /\ \A j \in Jobs : \/ pc'[j] = pc[j] /\ todo'[j] = todo[j]
                                \/ /\ pc[j] \in {"idle", "waiting"}
                                   /\ pc'[j] \in {"waiting", "targets"}
  BY <1>4, <1>0 DEF StartGate
<1>5. ASSUME UNCHANGED <<pc, todo, seen, proposed, payloads, exit, files, history>>
      PROVE  /\ UNCHANGED <<seen, proposed, payloads, exit, files, history>>
             /\ \A j \in Jobs : \/ pc'[j] = pc[j] /\ todo'[j] = todo[j]
                                \/ /\ pc[j] \in {"idle", "waiting"}
                                   /\ pc'[j] \in {"waiting", "targets"}
  BY <1>5
<1> QED BY <1>1, <1>2, <1>3, <1>4, <1>5, <1>6 DEF Outside

\* They keep the types.
LEMMA OutsideTypes == ASSUME MiniTypes, Outside PROVE MiniTypes'
<1>0. JobTypes /\ RestTypes /\ TypeOK /\ InHand /\ Patching /\ Writing
  BY TypeHalves DEF MiniTypes
<1>F. /\ UNCHANGED <<seen, proposed, payloads, exit, files, history>>
      /\ \A j \in Jobs : \/ pc'[j] = pc[j] /\ todo'[j] = todo[j]
                         \/ /\ pc[j] \in {"idle", "waiting"}
                            /\ pc'[j] \in {"waiting", "targets"}
  BY OutsideFrame
<1>1. InHand' /\ Writing'
  BY <1>0, <1>F DEF InHand, Writing
<1>2. Patching'
  BY <1>0, <1>F DEF Patching
<1>3. /\ pc' \in [Jobs -> PcValues] /\ todo' \in [Jobs -> Seq(Files)]
      /\ {work', index', head'} \subseteq [Files -> Versions]
      /\ events' \subseteq Files /\ recent' \subseteq Files
  <2> USE <1>0 DEF JobTypes, RestTypes
  <2>1. ASSUME NEW f \in Files, Save(f)
        PROVE  /\ pc' \in [Jobs -> PcValues] /\ todo' \in [Jobs -> Seq(Files)]
               /\ {work', index', head'} \subseteq [Files -> Versions]
               /\ events' \subseteq Files /\ recent' \subseteq Files
    <3>1. work' \in [Files -> Versions] /\ events' \in SUBSET Files
      BY <2>1, ChangedType DEF Save
    <3> QED BY <2>1, <3>1 DEF Save
  <2>2. ASSUME NEW f \in Files, Stage(f)
        PROVE  /\ pc' \in [Jobs -> PcValues] /\ todo' \in [Jobs -> Seq(Files)]
               /\ {work', index', head'} \subseteq [Files -> Versions]
               /\ events' \subseteq Files /\ recent' \subseteq Files
    BY <2>2 DEF Stage, watch
  <2>8. ASSUME Commit
        PROVE  /\ pc' \in [Jobs -> PcValues] /\ todo' \in [Jobs -> Seq(Files)]
               /\ {work', index', head'} \subseteq [Files -> Versions]
               /\ events' \subseteq Files /\ recent' \subseteq Files
    BY <2>8 DEF Commit, watch
  <2>3. ASSUME NEW f \in Files, EventDebounced(f) \/ WindowPasses(f)
        PROVE  /\ pc' \in [Jobs -> PcValues] /\ todo' \in [Jobs -> Seq(Files)]
               /\ {work', index', head'} \subseteq [Files -> Versions]
               /\ events' \subseteq Files /\ recent' \subseteq Files
    BY <2>3 DEF EventDebounced, WindowPasses, tree
  <2>4. ASSUME NEW f \in Files, NEW t \in Threads, EventAccepted(f, t)
        PROVE  /\ pc' \in [Jobs -> PcValues] /\ todo' \in [Jobs -> Seq(Files)]
               /\ {work', index', head'} \subseteq [Files -> Versions]
               /\ events' \subseteq Files /\ recent' \subseteq Files
    <3>1. t \in Jobs /\ <<f>> \in Seq(Files) /\ "waiting" \in PcValues
      BY DEF Jobs, PcValues
    <3>2. pc' = [pc EXCEPT ![t] = "waiting"] /\ todo' = [todo EXCEPT ![t] = <<f>>]
      BY <2>4 DEF EventAccepted
    <3>3. pc' \in [Jobs -> PcValues] /\ todo' \in [Jobs -> Seq(Files)]
      BY <3>1, <3>2
    <3> QED BY <2>4, <3>3 DEF EventAccepted, tree
  <2>5. ASSUME NEW j \in Jobs, pc' = [pc EXCEPT ![j] = "targets"],
               UNCHANGED <<tree, watch, todo>>
        PROVE  /\ pc' \in [Jobs -> PcValues] /\ todo' \in [Jobs -> Seq(Files)]
               /\ {work', index', head'} \subseteq [Files -> Versions]
               /\ events' \subseteq Files /\ recent' \subseteq Files
    BY <2>5 DEF tree, watch, PcValues
  <2>6. ASSUME NEW t \in Threads, AcquireReviewLock(t)
        PROVE  t \in Jobs /\ pc' = [pc EXCEPT ![t] = "targets"]
               /\ UNCHANGED <<tree, watch, todo>>
    BY <2>6, Zenon DEF AcquireReviewLock, Jobs
  <2>7. ASSUME NEW g \in Gates, StartGate(g)
        PROVE  g \in Jobs /\ pc' = [pc EXCEPT ![g] = "targets"]
               /\ UNCHANGED <<tree, watch, todo>>
    BY <2>7, Zenon DEF StartGate, Jobs
  <2> HIDE DEF JobTypes, RestTypes
  <2> QED BY <2>1, <2>2, <2>3, <2>4, <2>5, <2>6, <2>7, <2>8 DEF Outside
<1>4. JobTypes' /\ RestTypes'
  BY <1>0, <1>3, <1>F DEF JobTypes, RestTypes, files, history
<1> QED BY <1>1, <1>2, <1>4, TypeHalves DEF MiniTypes

\* Next is a step outside review_targets or a step of a job.
LEMMA NextCases ==
  ASSUME [Next]_vars
  PROVE  Outside \/ (\E j \in Jobs : JobStep(j)) \/ UNCHANGED vars
  BY DEF Next, Outside

\* The types hold for every instance, and a job has in hand what it needs.
THEOREM MiniTypesHold == Spec => []MiniTypes
<1>1. Init => MiniTypes
  <2> SUFFICES ASSUME Init PROVE MiniTypes
    OBVIOUS
  <2>1. 0 \in Versions
    BY JobsAssumption DEF Versions
  <2>2. TypeOK
    <3>1. /\ pc \in [Jobs -> PcValues] /\ seen \in [Jobs -> Versions]
          /\ proposed \in [Jobs -> Review \cup {None}]
      BY <2>1 DEF Init, PcValues
    <3>2. todo \in [Jobs -> Seq(Files)] /\ payloads \in [Jobs -> Seq(Review)]
      <4>1. <<>> \in Seq(Files) /\ <<>> \in Seq(Review)
        OBVIOUS
      <4> QED BY <4>1 DEF Init
    <3>3. JobTypes
      BY <3>1, <3>2 DEF JobTypes
    <3>4. RestTypes
      BY <2>1 DEF Init, RestTypes
    <3> QED BY <3>3, <3>4, TypeHalves
  <2>3. InHand /\ Patching /\ Writing
    BY DEF Init, InHand, Patching, Writing
  <2> QED BY <2>2, <2>3 DEF MiniTypes
<1>2. MiniTypes /\ [Next]_vars => MiniTypes'
  <2> SUFFICES ASSUME MiniTypes, [Next]_vars PROVE MiniTypes'
    OBVIOUS
  <2>1. CASE UNCHANGED vars
    BY <2>1 DEF vars, MiniTypes, TypeOK, InHand, Patching, Writing
  <2> QED BY <2>1, NextCases, OutsideTypes, JobTypesStep
<1> QED BY <1>1, <1>2, PTL DEF Spec

\* Every variable has the type the module states.
THEOREM MiniTypeCorrect == Spec => []TypeOK
<1>1. MiniTypes => TypeOK
  BY DEF MiniTypes
<1> QED BY <1>1, MiniTypesHold, PTL

-----------------------------------------------------------------------------
\* A step of a job is about that job: no other moves, and neither the log nor
\* the record of answers loses anything.
LEMMA JobFrame ==
  ASSUME MiniTypes, NEW j \in Jobs, JobStep(j)
  PROVE  /\ pc[j] \notin {"idle", "waiting"} \cup Ended
         /\ \A k \in Jobs \ {j} :
               /\ pc'[k] = pc[k] /\ todo'[k] = todo[k] /\ seen'[k] = seen[k]
               /\ payloads'[k] = payloads[k] /\ read'[k] = read[k]
         /\ \A g \in Gates \ {j} : exit'[g] = exit[g]
         /\ log \subseteq log' /\ answered \subseteq answered'
<1>0. /\ JobTypes /\ read \in [Jobs -> SUBSET (Files \X Versions)]
      /\ exit \in [Gates -> {0, 1, 2, None}]
  BY DEF MiniTypes, TypeOK, JobTypes
<1> DEFINE Others ==
      /\ \A k \in Jobs \ {j} :
            /\ pc'[k] = pc[k] /\ todo'[k] = todo[k] /\ seen'[k] = seen[k]
            /\ payloads'[k] = payloads[k] /\ read'[k] = read[k]
      /\ \A g \in Gates \ {j} : exit'[g] = exit[g]
      /\ log \subseteq log' /\ answered \subseteq answered'
<1>1. pc[j] \notin {"idle", "waiting"} \cup Ended
  BY DEF JobStep, JobRaises, FindTargets, NothingToReview, DiffFor, ModelAnswers,
         ModelFails, CheckRefuses, CheckAccepts, ApplyRefuses, ApplyPatch,
         ApplyTimesOut, NoDiffs, AppendReviewLogs, ReplaceJson, ReplaceText, Ended
<1> SUFFICES Others
  BY <1>1
<1>E. ASSUME Raise(j) \/ \E code : Return(j, code), UNCHANGED <<todo, history>>,
             log \subseteq log'
      PROVE  Others
  BY <1>E, <1>0 DEF JobTypes, Raise, Return, Forget, history
<1>N. ASSUME NEW list, NextTarget(j, list), UNCHANGED <<exit, log, read>>,
             answered \subseteq answered'
      PROVE  Others
  BY <1>N, <1>0 DEF JobTypes, NextTarget
<1>2. CASE JobRaises(j) \/ ModelFails(j) \/ ApplyTimesOut(j)
  <2>1. Raise(j) /\ UNCHANGED <<todo, history>> /\ log' = log
    BY <1>2 DEF JobRaises, ModelFails, ApplyTimesOut, files
  <2> QED BY <2>1, <1>E
<1>3. CASE NothingToReview(j) \/ NoDiffs(j) \/ ReplaceText(j)
  <2>1. (\E code : Return(j, code)) /\ UNCHANGED <<todo, history>> /\ log' = log
    BY <1>3 DEF NothingToReview, NoDiffs, ReplaceText, files
  <2> QED BY <2>1, <1>E
<1>4. CASE CheckRefuses(j) \/ ApplyRefuses(j) \/ ApplyPatch(j)
  <2>1. (\E list : NextTarget(j, list)) /\ UNCHANGED <<exit, log, read, answered>>
    BY <1>4 DEF CheckRefuses, ApplyRefuses, ApplyPatch, files, history
  <2> QED BY <2>1, <1>N
<1>5. CASE FindTargets(j) \/ CheckAccepts(j) \/ AppendReviewLogs(j) \/ ReplaceJson(j)
  <2>1. /\ \E l : pc' = [pc EXCEPT ![j] = l]
        /\ todo' = todo \/ \E l : todo' = [todo EXCEPT ![j] = l]
        /\ UNCHANGED <<seen, payloads, exit, read, answered>> /\ log \subseteq log'
    BY <1>5 DEF FindTargets, CheckAccepts, AppendReviewLogs, ReplaceJson, files, history
  <2> QED BY <2>1, <1>0 DEF JobTypes
<1>6. CASE DiffFor(j)
  <2>1. /\ UNCHANGED <<exit, log, answered>>
        /\ \/ \E list : NextTarget(j, list) /\ UNCHANGED read
           \/ /\ \E v : seen' = [seen EXCEPT ![j] = v]
              /\ \E D : read' = [read EXCEPT ![j] = D]
              /\ \E l : pc' = [pc EXCEPT ![j] = l]
              /\ UNCHANGED <<todo, payloads>>
    BY <1>6, Zenon DEF DiffFor, files
  <2>2. CASE \E list : NextTarget(j, list) /\ UNCHANGED read
    BY <2>1, <2>2, <1>N
  <2>3. CASE /\ \E v : seen' = [seen EXCEPT ![j] = v]
             /\ \E D : read' = [read EXCEPT ![j] = D]
             /\ \E l : pc' = [pc EXCEPT ![j] = l]
             /\ UNCHANGED <<todo, payloads>>
    BY <2>1, <2>3, <1>0 DEF JobTypes
  <2> QED BY <2>1, <2>2, <2>3
<1>7. CASE ModelAnswers(j)
  <2>1. /\ UNCHANGED <<exit, log, read>>
        /\ \E r : answered' = answered \cup {r}
        /\ \/ \E list : NextTarget(j, list)
           \/ /\ \E l : pc' = [pc EXCEPT ![j] = l]
              /\ UNCHANGED <<todo, seen, payloads>>
    BY <1>7, Zenon DEF ModelAnswers, files
  <2>2. answered \subseteq answered'
    BY <2>1
  <2>3. CASE \E list : NextTarget(j, list)
    BY <2>1, <2>2, <2>3, <1>N
  <2>4. CASE (\E l : pc' = [pc EXCEPT ![j] = l]) /\ UNCHANGED <<todo, seen, payloads>>
    BY <2>1, <2>2, <2>4, <1>0 DEF JobTypes
  <2> QED BY <2>1, <2>3, <2>4
<1> QED
  BY <1>2, <1>3, <1>4, <1>5, <1>6, <1>7 DEF JobStep

\* Two threads of one process never review at the same time.
LockInv ==
    \A s, t \in Threads : Reviewing(s) /\ Reviewing(t) => s = t

\* The lock is kept: a step of a thread needs it, a new holder needs it free.
LEMMA LockKept ==
  ASSUME MiniTypes, LockInv, [Next]_vars
  PROVE  LockInv'
<1>0. /\ pc \in [Jobs -> PcValues] /\ Threads \subseteq Jobs /\ Gates \subseteq Jobs
      /\ Threads \cap Gates = {}
  BY JobsAssumption DEF MiniTypes, TypeOK, Jobs
<1>1. ASSUME \A t \in Threads : Reviewing(t)' => Reviewing(t)
      PROVE  LockInv'
  BY <1>1 DEF LockInv
<1>2. ASSUME NEW j \in Jobs, JobStep(j) PROVE LockInv'
  <2>1. /\ pc[j] \notin {"idle", "waiting"} \cup Ended
        /\ \A k \in Jobs \ {j} : pc'[k] = pc[k]
    BY <1>2, JobFrame
  <2> QED BY <2>1, <1>0, <1>1 DEF Reviewing
<1>3. ASSUME NEW t \in Threads, AcquireReviewLock(t) PROVE LockInv'
  <2>1. LockFree /\ \A k \in Jobs \ {t} : pc'[k] = pc[k]
    BY <1>3, <1>0 DEF AcquireReviewLock
  <2> QED BY <2>1, <1>0 DEF LockInv, LockFree, Reviewing
<1>4. ASSUME NEW g \in Gates, StartGate(g) PROVE LockInv'
  <2>1. \A t \in Threads : pc'[t] = pc[t]
    BY <1>4, <1>0 DEF StartGate
  <2> QED BY <2>1, <1>1 DEF Reviewing
<1>5. ASSUME NEW f \in Files, NEW t \in Threads, EventAccepted(f, t) PROVE LockInv'
  <2>1. pc'[t] = "waiting" /\ \A k \in Jobs \ {t} : pc'[k] = pc[k]
    BY <1>5, <1>0 DEF EventAccepted
  <2> QED BY <2>1, <1>0, <1>1 DEF Reviewing
<1>6. ASSUME pc' = pc PROVE LockInv'
  BY <1>6, <1>1 DEF Reviewing
<1>7. ASSUME NEW f \in Files, Save(f) \/ Stage(f) \/ EventDebounced(f) \/ WindowPasses(f)
      PROVE  pc' = pc
  BY <1>7 DEF Save, Stage, EventDebounced, WindowPasses
<1>8. Commit \/ UNCHANGED vars => pc' = pc
  BY DEF Commit, vars
<1> QED
  BY <1>2, <1>3, <1>4, <1>5, <1>6, <1>7, <1>8 DEF Next

\* The threads of the daemon never write their files at the same time.
THEOREM OneWriter == Spec => []OneWriterPerProcess
<1>1. Init => LockInv
  BY DEF Init, LockInv, Reviewing, Jobs
<1>2. MiniTypes /\ LockInv /\ [Next]_vars => LockInv'
  BY LockKept
<1>3. LockInv => OneWriterPerProcess
  BY DEF LockInv, Reviewing, OneWriterPerProcess, Ended
<1> QED BY <1>1, <1>2, <1>3, MiniTypesHold, PTL DEF Spec

-----------------------------------------------------------------------------
\* A job that replaces the latest files has its payloads in the log.
LogInv ==
    /\ \A j \in Jobs : pc[j] \in {"json", "text"} => Range(payloads[j]) \subseteq log
    /\ LatestIsLogged

\* What a job that is not one of the writers does to the files.
LEMMA NotWriting ==
  ASSUME MiniTypes, NEW j \in Jobs, JobStep(j)
  PROVE  \/ AppendReviewLogs(j) \/ ReplaceJson(j) \/ ReplaceText(j)
         \/ UNCHANGED files /\ pc'[j] \notin {"json", "text"}
<1>0. pc \in [Jobs -> PcValues]
  BY DEF MiniTypes, TypeOK
<1>E. ASSUME Raise(j) \/ Return(j, 0) PROVE pc'[j] \notin {"json", "text"}
  BY <1>E, <1>0 DEF Raise, Return
<1>N. ASSUME NEW list, NextTarget(j, list) PROVE pc'[j] \notin {"json", "text"}
  <2>1. pc'[j] = IF Len(todo[j]) = 1 THEN "log" ELSE "diff"
    BY <1>N, <1>0 DEF NextTarget
  <2> QED BY <2>1
<1>1. CASE JobRaises(j) \/ ModelFails(j) \/ ApplyTimesOut(j)
  BY <1>1, <1>E DEF JobRaises, ModelFails, ApplyTimesOut
<1>2. CASE NothingToReview(j) \/ NoDiffs(j)
  BY <1>2, <1>E DEF NothingToReview, NoDiffs
<1>3. CASE CheckRefuses(j) \/ ApplyRefuses(j) \/ ApplyPatch(j)
  <2>1. (\E list : NextTarget(j, list)) /\ UNCHANGED files
    BY <1>3 DEF CheckRefuses, ApplyRefuses, ApplyPatch
  <2> QED BY <2>1, <1>N
<1>4. CASE FindTargets(j) \/ CheckAccepts(j)
  BY <1>4, <1>0 DEF FindTargets, CheckAccepts
<1>5. CASE DiffFor(j) \/ ModelAnswers(j)
  <2>1. /\ UNCHANGED files
        /\ \/ \E list : NextTarget(j, list)
           \/ \E l \in {"model", "check"} : pc' = [pc EXCEPT ![j] = l]
    BY <1>5, Zenon DEF DiffFor, ModelAnswers
  <2>2. CASE \E l \in {"model", "check"} : pc' = [pc EXCEPT ![j] = l]
    BY <2>1, <2>2, <1>0
  <2> QED BY <2>1, <2>2, <1>N
<1> QED BY <1>1, <1>2, <1>3, <1>4, <1>5 DEF JobStep

\* The latest files are written after the log, by every job.
LEMMA LogKept ==
  ASSUME MiniTypes, LogInv, [Next]_vars
  PROVE  LogInv'
<1>1. CASE Outside
  <2>1. UNCHANGED <<payloads, files>>
    BY <1>1, OutsideFrame
  <2>2. \A j \in Jobs : pc'[j] \in {"json", "text"} => pc[j] = pc'[j]
    BY <1>1, OutsideFrame
  <2> QED BY <2>1, <2>2 DEF LogInv, LatestIsLogged, files
<1>2. ASSUME NEW j \in Jobs, JobStep(j) PROVE LogInv'
  <2>F. /\ \A k \in Jobs \ {j} : pc'[k] = pc[k] /\ payloads'[k] = payloads[k]
        /\ log \subseteq log'
    BY <1>2, JobFrame
  <2>0. /\ pc \in [Jobs -> PcValues] /\ payloads[j] \in Seq(Review)
        /\ pc[j] \in {"json", "text"} => payloads[j] # <<>>
    BY DEF MiniTypes, TypeOK, Writing
  <2>L. payloads[j] # <<>> => Last(payloads[j]) \in Range(payloads[j])
    BY <2>0 DEF Last, Range
  <2>1. CASE AppendReviewLogs(j)
    <3>1. /\ log' = log \cup Range(payloads[j]) /\ payloads' = payloads
          /\ latest_json' = latest_json /\ latest_text' = latest_text
      BY <2>1 DEF AppendReviewLogs
    <3> QED BY <3>1, <2>F DEF LogInv, LatestIsLogged
  <2>2. CASE ReplaceJson(j)
    <3>1. /\ pc[j] = "json" /\ log' = log /\ payloads' = payloads
          /\ latest_json' = Last(payloads[j]) /\ latest_text' = latest_text
      BY <2>2 DEF ReplaceJson
    <3>2. Last(payloads[j]) \in log
      BY <3>1, <2>0, <2>L DEF LogInv
    <3> QED BY <3>1, <3>2, <2>F DEF LogInv, LatestIsLogged
  <2>3. CASE ReplaceText(j)
    <3>1. /\ pc[j] = "text" /\ log' = log /\ pc'[j] = "returned"
          /\ latest_text' = Last(payloads[j]) /\ latest_json' = latest_json
      BY <2>3, <2>0 DEF ReplaceText, Return
    <3>2. Last(payloads[j]) \in log
      BY <3>1, <2>0, <2>L DEF LogInv
    <3> QED BY <3>1, <3>2, <2>F DEF LogInv, LatestIsLogged
  <2>4. CASE UNCHANGED files /\ pc'[j] \notin {"json", "text"}
    BY <2>4, <2>F DEF LogInv, LatestIsLogged, files
  <2> QED BY <1>2, <2>1, <2>2, <2>3, <2>4, NotWriting
<1>3. CASE UNCHANGED vars
  BY <1>3 DEF vars, LogInv, LatestIsLogged
<1> QED BY <1>1, <1>2, <1>3, NextCases

\* What the latest files show is in the log.
THEOREM LatestLogged == Spec => []LatestIsLogged
<1>1. Init => LogInv
  BY DEF Init, LogInv, LatestIsLogged
<1>2. MiniTypes /\ LogInv /\ [Next]_vars => LogInv'
  BY LogKept
<1>3. LogInv => LatestIsLogged
  BY DEF LogInv
<1> QED BY <1>1, <1>2, <1>3, MiniTypesHold, PTL DEF Spec

-----------------------------------------------------------------------------
\* A diff the job still works on, and one it has a payload for.
InWork(j, d) ==
    /\ pc[j] \in {"model", "check", "apply"}
    /\ d = <<Head(todo[j]), seen[j]>>
Covers(j, d, r) ==
    /\ r.by = j /\ r.file = d[1] /\ r.version = d[2]
    /\ r.code = "REVIEW_PASSED" => r \in answered

\* Of one gate: no diff was read before the first target, every diff that was
\* read is in work or has its payload, and the exit code 0 was earned.
PassOf(g) ==
    /\ pc[g] \in {"idle", "waiting", "targets"} => read[g] = {}
    /\ pc[g] \notin Ended =>
          /\ exit[g] = None
          /\ \A d \in read[g] :
                InWork(g, d) \/ \E r \in Range(payloads[g]) : Covers(g, d, r)
    /\ exit[g] = 0 =>
          \A d \in read[g] :
              [by |-> g, file |-> d[1], version |-> d[2],
               code |-> "REVIEW_PASSED"] \in answered

PassInv == \A g \in Gates : PassOf(g)

\* What another job does leaves a gate's record as it is.
LEMMA PassFrame ==
  ASSUME NEW g \in Gates, PassOf(g), pc'[g] = pc[g], todo'[g] = todo[g],
         seen'[g] = seen[g], payloads'[g] = payloads[g], read'[g] = read[g],
         exit'[g] = exit[g], answered \subseteq answered'
  PROVE  PassOf(g)'
<1>1. \A d, r : Covers(g, d, r) => Covers(g, d, r)'
  BY DEF Covers
<1>2. \A d : InWork(g, d)' <=> InWork(g, d)
  BY DEF InWork
<1> QED BY <1>1, <1>2 DEF PassOf

\* The range of a sequence with one more element.
LEMMA RangeAppend ==
  ASSUME NEW S, NEW s \in Seq(S), NEW e \in S
  PROVE  Range(Append(s, e)) = Range(s) \cup {e}
<1>1. /\ DOMAIN Append(s, e) = (DOMAIN s) \cup {Len(s) + 1}
      /\ Append(s, e)[Len(s) + 1] = e
      /\ \A i \in DOMAIN s : Append(s, e)[i] = s[i]
  OBVIOUS
<1> QED BY <1>1 DEF Range

\* The gate goes on to its next target with a payload for the diff in hand.
LEMMA PassAdvance ==
  ASSUME MiniTypes, NEW g \in Gates, PassOf(g), NEW list, NextTarget(g, list),
         Range(payloads[g]) \subseteq Range(list),
         read'[g] = read[g], exit'[g] = exit[g], answered \subseteq answered',
         pc[g] \notin {"idle", "waiting", "targets"} \cup Ended,
         pc[g] \in {"model", "check", "apply"} =>
             \E r \in Range(list) :
                 /\ r.by = g /\ r.file = Head(todo[g]) /\ r.version = seen[g]
                 /\ r.code = "REVIEW_PASSED" => r \in answered'
  PROVE  PassOf(g)'
<1>0. JobTypes /\ g \in Jobs
  BY DEF MiniTypes, TypeOK, JobTypes, Jobs
<1>1. payloads'[g] = list /\ pc'[g] \in {"log", "diff"}
  <2>1. payloads'[g] = list /\ pc'[g] = IF Len(todo[g]) = 1 THEN "log" ELSE "diff"
    BY <1>0 DEF NextTarget, JobTypes
  <2> QED BY <2>1
<1>2. ASSUME NEW d \in read[g] PROVE \E r \in Range(list) : Covers(g, d, r)'
  <2>1. CASE InWork(g, d)
    <3>1. /\ pc[g] \in {"model", "check", "apply"}
          /\ d[1] = Head(todo[g]) /\ d[2] = seen[g]
      BY <2>1 DEF InWork
    <3> QED BY <3>1 DEF Covers
  <2>2. CASE \E r \in Range(payloads[g]) : Covers(g, d, r)
    BY <2>2 DEF Covers
  <2> QED BY <2>1, <2>2 DEF PassOf
<1>3. exit[g] = None /\ None # 0
  BY JobsAssumption DEF PassOf
<1> QED BY <1>1, <1>2, <1>3 DEF PassOf, Ended

\* A gate that ends with another code than 0, or had nothing to read.
LEMMA PassEnd ==
  ASSUME MiniTypes, NEW g \in Gates, PassOf(g), NEW code,
         pc'[g] \in Ended, exit'[g] = code,
         read'[g] = read[g], answered' = answered,
         code # 0 \/ read[g] = {}
  PROVE  PassOf(g)'
  BY DEF PassOf, Ended

\* Each step of a gate keeps its record.
LEMMA PassStep ==
  ASSUME MiniTypes, NEW g \in Gates, PassOf(g), JobStep(g)
  PROVE  PassOf(g)'
<1>0. /\ JobTypes /\ InHand /\ Patching /\ Writing /\ g \in Jobs
      /\ read \in [Jobs -> SUBSET (Files \X Versions)]
      /\ exit \in [Gates -> {0, 1, 2, None}]
  BY DEF MiniTypes, TypeOK, JobTypes, Jobs
<1>P. payloads[g] \in Seq(Review) /\ Range(payloads[g]) \subseteq Review
  BY <1>0 DEF JobTypes, Range
<1>R. ASSUME Raise(g), UNCHANGED history PROVE PassOf(g)'
  <2>1. pc'[g] \in Ended /\ exit'[g] = 2 /\ 2 # 0
    BY <1>R, <1>0 DEF Raise, Ended, JobTypes
  <2>2. read'[g] = read[g] /\ answered' = answered
    BY <1>R DEF history
  <2> QED BY <2>1, <2>2, PassEnd
<1>1. CASE JobRaises(g) \/ ModelFails(g) \/ ApplyTimesOut(g)
  BY <1>1, <1>R DEF JobRaises, ModelFails, ApplyTimesOut
<1>2. CASE FindTargets(g)
  <2>1. pc[g] = "targets" /\ pc'[g] = "diff" /\ UNCHANGED <<exit, history>>
    BY <1>2, <1>0 DEF FindTargets, JobTypes
  <2>2. read'[g] = {} /\ exit'[g] = None /\ None # 0
    BY <2>1, JobsAssumption DEF PassOf, history, Ended
  <2> QED BY <2>1, <2>2 DEF PassOf
<1>3. CASE NothingToReview(g)
  <2>1. /\ pc[g] = "targets" /\ pc'[g] \in Ended /\ exit'[g] = 0
        /\ UNCHANGED history
    BY <1>3, <1>0 DEF NothingToReview, Return, Ended, JobTypes
  <2>2. read[g] = {} /\ read'[g] = read[g] /\ answered' = answered
    BY <2>1 DEF PassOf, history
  <2> QED BY <2>1, <2>2, PassEnd
<1>4. CASE NoDiffs(g)
  <2>1. /\ pc[g] = "log" /\ payloads[g] = <<>>
        /\ pc'[g] \in Ended /\ exit'[g] = 0 /\ UNCHANGED history
    BY <1>4, <1>0 DEF NoDiffs, Return, Ended, JobTypes
  <2>2. Range(payloads[g]) = {}
    BY <2>1 DEF Range
  <2>3. read[g] = {}
    BY <2>1, <2>2 DEF PassOf, InWork, Ended
  <2>4. read'[g] = read[g] /\ answered' = answered
    BY <2>1 DEF history
  <2> QED BY <2>1, <2>3, <2>4, PassEnd
<1>5. CASE DiffFor(g)
  <2> DEFINE f == Head(todo[g])
             v == IF g \in Staged THEN index[f] ELSE work[f]
  <2>1. /\ pc[g] = "diff"
        /\ \/ NextTarget(g, payloads[g]) /\ UNCHANGED read
           \/ /\ seen' = [seen EXCEPT ![g] = v]
              /\ read' = [read EXCEPT ![g] = @ \cup {<<f, v>>}]
              /\ pc' = [pc EXCEPT ![g] = "model"]
              /\ UNCHANGED <<todo, proposed, payloads>>
        /\ UNCHANGED <<exit, answered>>
    BY <1>5, Zenon DEF DiffFor
  <2>2. CASE NextTarget(g, payloads[g]) /\ UNCHANGED read
    <3>1. pc[g] \notin {"idle", "waiting", "targets"} \cup Ended
      BY <2>1 DEF Ended
    <3> QED BY <2>1, <2>2, <3>1, PassAdvance
  <2> HIDE DEF v
  <2>3. CASE /\ seen' = [seen EXCEPT ![g] = v]
             /\ read' = [read EXCEPT ![g] = @ \cup {<<f, v>>}]
             /\ pc' = [pc EXCEPT ![g] = "model"]
             /\ UNCHANGED <<todo, proposed, payloads>>
    <3>1. /\ pc'[g] = "model" /\ seen'[g] = v /\ read'[g] = read[g] \cup {<<f, v>>}
          /\ todo'[g] = todo[g] /\ payloads'[g] = payloads[g]
      BY <2>3, <1>0 DEF JobTypes
    <3>2. exit'[g] = None /\ None # 0
      BY <2>1, JobsAssumption DEF PassOf, Ended
    <3>D. PICK e : e = <<f, v>>
      OBVIOUS
    <3>3. InWork(g, e)'
      BY <3>1, <3>D DEF InWork
    <3>4. \A d \in read[g] : \E r \in Range(payloads[g]) : Covers(g, d, r)'
      <4>1. \A d \in read[g] : \E r \in Range(payloads[g]) : Covers(g, d, r)
        BY <2>1 DEF PassOf, InWork, Ended
      <4>2. answered' = answered
        BY <2>1
      <4> QED BY <4>1, <4>2 DEF Covers
    <3> QED BY <3>1, <3>2, <3>3, <3>4, <3>D DEF PassOf
  <2> QED BY <2>1, <2>2, <2>3
<1>6. CASE ModelAnswers(g)
  <2>1. PICK c \in AcceptedCodes :
           LET r == [by |-> g, file |-> Head(todo[g]), version |-> seen[g], code |-> c]
           IN  /\ pc[g] = "model"
               /\ answered' = answered \cup {r}
               /\ \/ /\ proposed' = [proposed EXCEPT ![g] = r]
                     /\ pc' = [pc EXCEPT ![g] = "check"]
                     /\ UNCHANGED <<todo, seen, payloads>>
                  \/ NextTarget(g, Append(payloads[g], r))
               /\ UNCHANGED <<exit, read>>
    BY <1>6, Zenon DEF ModelAnswers
  <2> DEFINE r == [by |-> g, file |-> Head(todo[g]), version |-> seen[g], code |-> c]
  <2>2. r.by = g /\ r.file = Head(todo[g]) /\ r.version = seen[g]
    OBVIOUS
  <2>3. r \in Review
    <3>1. Head(todo[g]) \in Files /\ seen[g] \in Versions
      BY <2>1, <1>0 DEF JobTypes, InHand
    <3>2. c \in AnsweredCodes
      BY DEF AcceptedCodes, AnsweredCodes
    <3> QED BY <3>1, <3>2, <1>0 DEF Review
  <2>4. /\ answered' = answered \cup {r}
        /\ \/ /\ pc' = [pc EXCEPT ![g] = "check"]
              /\ UNCHANGED <<todo, seen, payloads>>
           \/ NextTarget(g, Append(payloads[g], r))
        /\ UNCHANGED <<exit, read>>
    BY <2>1, Zenon
  <2> HIDE DEF r
  <2>5. pc[g] \notin {"idle", "waiting", "targets"} \cup Ended
    BY <2>1 DEF Ended
  <2>6. CASE NextTarget(g, Append(payloads[g], r))
    <3>1. Range(Append(payloads[g], r)) = Range(payloads[g]) \cup {r}
      BY <1>P, <2>3, RangeAppend
    <3> QED BY <2>2, <2>4, <2>5, <2>6, <3>1, PassAdvance
  <2>7. CASE pc' = [pc EXCEPT ![g] = "check"] /\ UNCHANGED <<todo, seen, payloads>>
    <3>1. pc'[g] = "check" /\ pc[g] = "model"
      BY <2>1, <2>7, <1>0 DEF JobTypes
    <3>2. exit'[g] = None /\ None # 0
      BY <2>4, <2>5, JobsAssumption DEF PassOf
    <3>3. \A d \in read[g] :
             InWork(g, d)' \/ \E x \in Range(payloads[g]) : Covers(g, d, x)'
      BY <2>4, <2>5, <2>7, <3>1 DEF PassOf, InWork, Covers
    <3> QED BY <2>4, <2>7, <3>1, <3>2, <3>3 DEF PassOf
  <2> QED BY <2>4, <2>6, <2>7
<1>7. ASSUME NEW r \in Review, r.by = g, r.file = Head(todo[g]),
             r.version = seen[g], r.code # "REVIEW_PASSED",
             pc[g] \in {"check", "apply"}, NextTarget(g, Append(payloads[g], r)),
             UNCHANGED <<exit, history>>
      PROVE  PassOf(g)'
  <2>1. Range(Append(payloads[g], r)) = Range(payloads[g]) \cup {r}
    BY <1>P, RangeAppend
  <2>2. pc[g] \notin {"idle", "waiting", "targets"} \cup Ended
    BY <1>7 DEF Ended
  <2>3. read'[g] = read[g] /\ exit'[g] = exit[g] /\ answered' = answered
    BY <1>7 DEF history
  <2> QED BY <1>7, <2>1, <2>2, <2>3, PassAdvance
<1>8. CASE CheckRefuses(g) \/ ApplyRefuses(g)
  <2>1. /\ pc[g] \in {"check", "apply"}
        /\ NextTarget(g, Append(payloads[g], proposed[g]))
        /\ UNCHANGED <<exit, history>>
    BY <1>8 DEF CheckRefuses, ApplyRefuses
  <2>2. /\ proposed[g] \in Review /\ proposed[g].by = g
        /\ proposed[g].file = Head(todo[g]) /\ proposed[g].version = seen[g]
        /\ proposed[g].code # "REVIEW_PASSED"
    BY <2>1, <1>0 DEF Patching
  <2> QED BY <2>1, <2>2, <1>7
<1>9. CASE ApplyPatch(g)
  <2> DEFINE r == [proposed[g] EXCEPT !.code = "PATCH_APPLIED"]
  <2>1. /\ pc[g] \in {"check", "apply"}
        /\ NextTarget(g, Append(payloads[g], r))
        /\ UNCHANGED <<exit, history>>
    BY <1>9 DEF ApplyPatch
  <2>2. /\ proposed[g] \in Review /\ proposed[g].by = g
        /\ proposed[g].file = Head(todo[g]) /\ proposed[g].version = seen[g]
    BY <2>1, <1>0 DEF Patching
  <2>3. /\ r \in Review /\ r.by = g /\ r.file = Head(todo[g])
        /\ r.version = seen[g] /\ r.code # "REVIEW_PASSED"
    BY <2>2 DEF Review
  <2> HIDE DEF r
  <2> QED BY <2>1, <2>3, <1>7
<1>10. CASE CheckAccepts(g) \/ AppendReviewLogs(g) \/ ReplaceJson(g)
  <2>1. /\ \/ pc[g] = "check" /\ pc'[g] = "apply"
           \/ pc[g] \in {"log", "json"} /\ pc'[g] \in {"json", "text"}
        /\ UNCHANGED <<todo, seen, payloads, exit, history>>
    BY <1>10, <1>0 DEF CheckAccepts, AppendReviewLogs, ReplaceJson, JobTypes
  <2>2. exit'[g] = None /\ None # 0
    BY <2>1, JobsAssumption DEF PassOf, Ended
  <2>3. \A d \in read[g] :
           InWork(g, d)' \/ \E x \in Range(payloads[g]) : Covers(g, d, x)'
    BY <2>1 DEF PassOf, InWork, Covers, Ended, history
  <2> QED BY <2>1, <2>2, <2>3 DEF PassOf, history
<1>11. CASE ReplaceText(g)
  <2>1. /\ pc[g] = "text" /\ pc'[g] \in Ended
        /\ exit'[g] = ExitCode(payloads[g]) /\ UNCHANGED history
    BY <1>11, <1>0 DEF ReplaceText, Return, Ended, JobTypes
  <2>2. ASSUME exit'[g] = 0, NEW d \in read[g]
        PROVE  [by |-> g, file |-> d[1], version |-> d[2],
                code |-> "REVIEW_PASSED"] \in answered
    <3>1. PICK r \in Range(payloads[g]) : Covers(g, d, r)
      BY <2>1 DEF PassOf, InWork, Ended
    <3>2. r.code = "REVIEW_PASSED"
      BY <2>1, <2>2, <3>1 DEF ExitCode
    <3>3. r \in Review /\ r \in answered
      BY <3>1, <3>2, <1>P DEF Covers
    <3>4. r = [by |-> g, file |-> d[1], version |-> d[2], code |-> "REVIEW_PASSED"]
      BY <3>1, <3>2, <3>3 DEF Covers, Review
    <3> QED BY <3>3, <3>4
  <2> QED BY <2>1, <2>2 DEF PassOf, Ended, history
<1> QED
  BY <1>1, <1>2, <1>3, <1>4, <1>5, <1>6, <1>8, <1>9, <1>10, <1>11 DEF JobStep

\* Steps of other jobs, and steps outside review_targets, leave the record of a
\* gate to it.
LEMMA PassKept ==
  ASSUME MiniTypes, PassInv, [Next]_vars
  PROVE  PassInv'
<1> SUFFICES ASSUME NEW g \in Gates PROVE PassOf(g)'
  BY DEF PassInv
<1>0. PassOf(g) /\ g \in Jobs
  BY DEF PassInv, Jobs
<1>1. CASE Outside
  <2>1. UNCHANGED <<seen, payloads, exit, history>>
    BY <1>1, OutsideFrame
  <2>2. CASE pc'[g] = pc[g] /\ todo'[g] = todo[g]
    BY <2>1, <2>2, <1>0, PassFrame DEF history
  <2>3. CASE pc[g] \in {"idle", "waiting"} /\ pc'[g] \in {"waiting", "targets"}
    <3>1. read'[g] = {} /\ exit'[g] = None /\ None # 0
      BY <2>1, <2>3, <1>0, JobsAssumption DEF PassOf, history, Ended
    <3> QED BY <2>3, <3>1 DEF PassOf
  <2> QED BY <1>1, <1>0, <2>2, <2>3, OutsideFrame
<1>2. ASSUME NEW j \in Jobs, JobStep(j) PROVE PassOf(g)'
  <2>1. CASE j = g
    BY <1>2, <2>1, <1>0, PassStep
  <2>2. CASE j # g
    <3>1. /\ pc'[g] = pc[g] /\ todo'[g] = todo[g] /\ seen'[g] = seen[g]
          /\ payloads'[g] = payloads[g] /\ read'[g] = read[g]
          /\ exit'[g] = exit[g] /\ answered \subseteq answered'
      BY <1>2, <2>2, <1>0, JobFrame
    <3> QED BY <3>1, <1>0, PassFrame
  <2> QED BY <2>1, <2>2
<1>3. CASE UNCHANGED vars
  <2>1. UNCHANGED <<pc, todo, seen, payloads, read, exit, answered>>
    BY <1>3 DEF vars
  <2> QED BY <2>1, <1>0, PassFrame
<1> QED BY <1>1, <1>2, <1>3, NextCases

\* A gate lets a change through only if the model passed every diff it read.
THEOREM SilentPassForbidden == Spec => []NoSilentPass
<1>1. Init => PassInv
  <2> SUFFICES ASSUME Init, NEW g \in Gates PROVE PassOf(g)
    BY DEF PassInv
  <2>1. g \in Jobs /\ read[g] = {} /\ exit[g] = None /\ None # 0
    BY JobsAssumption DEF Init, Jobs
  <2> QED BY <2>1 DEF PassOf
<1>2. MiniTypes /\ PassInv /\ [Next]_vars => PassInv'
  BY PassKept
<1>3. PassInv => NoSilentPass
  BY DEF PassInv, PassOf, NoSilentPass
<1> QED BY <1>1, <1>2, <1>3, MiniTypesHold, PTL DEF Spec

=============================================================================
