----------------------------- MODULE FeedProofs -----------------------------
(***************************************************************************)
(* A review written through a temporary file of its own is never seen      *)
(* half-written, for every number of writers and of temporary names, and   *)
(* whatever the writers that share a name do.                              *)
(***************************************************************************)
EXTENDS ReviewFeed, TLAPS

\* The reviews are told from the markers and from None.
LEMMA Distinct ==
    /\ \A w \in Writers : w # None /\ w # Empty /\ w # Torn
    /\ \A w \in Writers : TempOf[w] \in Temps
    /\ \A w \in Writers : TargetOf[w] \in Documents \cup {NoUri}
BY WritersAssumption, ContentAssumption

\* The initial state satisfies the invariant.
LEMMA FeedInitial == Init => FeedInv
BY Distinct DEF Init, FeedInv, TypeOK, WatcherIsSafe, OwnTempUntouched, Nodes

\* A step of the watcher leaves the files alone.
LEMMA WatcherKeeps == FeedInv /\ WatcherStep => FeedInv'
<1> SUFFICES ASSUME FeedInv, WatcherStep PROVE FeedInv'
  OBVIOUS
<1>1. UNCHANGED <<tmp, json, content, mtime, clock, wpc, fd>>
  BY DEF WatcherStep, PollChange, Stat, ReadLatest, ParseRaises, ParseReview,
         ClearOld, ShowReview, disk, writers
<1>2. (TypeOK /\ WatcherIsSafe)'
  <2>1. CASE PollChange
    BY <2>1, <1>1 DEF PollChange, Stat, FeedInv, TypeOK, WatcherIsSafe, Nodes
  <2>2. CASE ReadLatest
    <3>1. content[json] \in Writers \cup {Empty, Torn}
      BY <2>2 DEF ReadLatest, FeedInv, TypeOK, WatcherIsSafe, Nodes
    <3> QED
      BY <2>2, <3>1, <1>1 DEF ReadLatest, FeedInv, TypeOK, WatcherIsSafe, Nodes
  <2>3. CASE ParseRaises
    BY <2>3, <1>1 DEF ParseRaises, FeedInv, TypeOK, WatcherIsSafe, Nodes
  <2>4. CASE ParseReview
    BY <2>4, <1>1 DEF ParseReview, Complete, FeedInv, TypeOK, WatcherIsSafe, Nodes
  <2>5. CASE ClearOld
    BY <2>5, <1>1 DEF ClearOld, FeedInv, TypeOK, WatcherIsSafe, Nodes
  <2>6. CASE ShowReview
    BY <2>6, <1>1, Distinct DEF ShowReview, FeedInv, TypeOK, WatcherIsSafe, Nodes
  <2> QED
    BY <2>1, <2>2, <2>3, <2>4, <2>5, <2>6 DEF WatcherStep
<1>3. \A w \in Writers : OwnTemp(w) => OwnTempUntouched(w)'
  BY <1>1 DEF FeedInv, OwnTempUntouched
<1> QED
  BY <1>2, <1>3 DEF FeedInv, OwnTemp

\* A step of one writer leaves the watcher as it is, and latest_review.json
\* never disappears.
LEMMA WriterLeavesWatcher ==
    ASSUME FeedInv, NEW w \in Writers, WriterStep(w)
    PROVE  WatcherIsSafe'
<1>1. UNCHANGED <<lpc, review>>
  BY DEF WriterStep, OpenTemp, WriteTemp, ReplaceLatest, ReplaceRaises, lsp
<1>2. json # None => json' # None
  BY DEF WriterStep, OpenTemp, WriteTemp, ReplaceLatest, ReplaceRaises, disk
<1> QED
  BY <1>1, <1>2 DEF FeedInv, WatcherIsSafe

\* A step of one writer keeps the types.
LEMMA WriterTypes ==
    ASSUME FeedInv, NEW w \in Writers, WriterStep(w)
    PROVE  TypeOK'
<1> USE Distinct DEF FeedInv, TypeOK, Nodes, Touch, lsp
<1>1. CASE OpenTemp(w)
  <2> DEFINE n == IF tmp[TempOf[w]] = None THEN w ELSE tmp[TempOf[w]]
  <2>1. n \in Nodes
    OBVIOUS
  <2>2. /\ tmp' = [tmp EXCEPT ![TempOf[w]] = n]
        /\ fd' = [fd EXCEPT ![w] = n]
        /\ content' = [content EXCEPT ![n] = Empty]
        /\ mtime' = [mtime EXCEPT ![n] = clock + 1]
    BY <1>1 DEF OpenTemp
  <2> HIDE DEF n
  <2> QED
    BY <1>1, <2>1, <2>2 DEF OpenTemp
<1>2. CASE WriteTemp(w)
  <2>1. PICK c \in Writers \cup {Torn} : content' = [content EXCEPT ![fd[w]] = c]
    BY <1>2 DEF WriteTemp
  <2>2. content' \in [Nodes -> Writers \cup {Empty, Torn}]
    BY <2>1
  <2>3. mtime' \in [Nodes -> Nat] /\ clock' \in Nat
    <3> DEFINE k == clock + 1
    <3>1. k \in Nat
      OBVIOUS
    <3>2. clock' = k /\ mtime' = [mtime EXCEPT ![fd[w]] = k]
      BY <1>2, Zenon DEF WriteTemp
    <3> HIDE DEF k
    <3> QED
      BY <3>1, <3>2
  <2>4. wpc' \in [Writers -> {"idle", "opened", "written", "published", "failed"}]
    BY <1>2 DEF WriteTemp
  <2>5. UNCHANGED <<tmp, json, fd, lpc, last_mtime, review, latest, last_uri, shown>>
    BY <1>2 DEF WriteTemp
  <2> QED
    BY <2>2, <2>3, <2>4, <2>5
<1>3. CASE ReplaceLatest(w)
  BY <1>3 DEF ReplaceLatest
<1>4. CASE ReplaceRaises(w)
  BY <1>4 DEF ReplaceRaises, disk
<1> QED
  BY <1>1, <1>2, <1>3, <1>4 DEF WriterStep

\* A step of any writer v leaves the file of a writer w that has a temporary
\* name of its own as w left it.
LEMMA WriterKeepsOwn ==
    ASSUME FeedInv, NEW v \in Writers, WriterStep(v),
           NEW w \in Writers, OwnTemp(w)
    PROVE  OwnTempUntouched(w)'
<1> USE Distinct
<1>0. OwnTempUntouched(w)
  BY DEF FeedInv
<1>1. v # w => TempOf[v] # TempOf[w]
  BY DEF OwnTemp
<1>2. CASE OpenTemp(v)
  <2>1. CASE v = w
    BY <1>0, <1>2, <2>1 DEF OpenTemp, OwnTempUntouched, FeedInv, TypeOK, Nodes
  <2>2. CASE v # w
    BY <1>0, <1>1, <1>2, <2>2 DEF OpenTemp, OwnTempUntouched, FeedInv, TypeOK, Nodes
  <2> QED BY <2>1, <2>2
<1>3. CASE WriteTemp(v)
  <2>1. CASE v = w
    BY <1>0, <1>3, <2>1 DEF WriteTemp, OwnTempUntouched, FeedInv, TypeOK, Nodes
  <2>2. CASE v # w
    BY <1>0, <1>3, <2>2 DEF WriteTemp, OwnTempUntouched, FeedInv, TypeOK, Nodes
  <2> QED BY <2>1, <2>2
<1>4. CASE ReplaceLatest(v)
  <2>1. CASE v = w
    BY <1>0, <1>4, <2>1 DEF ReplaceLatest, OwnTempUntouched, FeedInv, TypeOK, Nodes
  <2>2. CASE v # w
    BY <1>0, <1>1, <1>4, <2>2 DEF ReplaceLatest, OwnTempUntouched, FeedInv, TypeOK, Nodes
  <2> QED BY <2>1, <2>2
<1>5. CASE ReplaceRaises(v)
  BY <1>0, <1>5 DEF ReplaceRaises, OwnTempUntouched, FeedInv, TypeOK, Nodes, disk
<1> QED
  BY <1>2, <1>3, <1>4, <1>5 DEF WriterStep

\* A step of a writer keeps the invariant.
LEMMA WriterKeeps ==
    ASSUME FeedInv, NEW w \in Writers, WriterStep(w)
    PROVE  FeedInv'
<1>1. TypeOK'
  BY WriterTypes
<1>2. WatcherIsSafe'
  BY WriterLeavesWatcher
<1>3. \A u \in Writers : OwnTemp(u) => OwnTempUntouched(u)'
  BY WriterKeepsOwn
<1> QED
  BY <1>1, <1>2, <1>3 DEF FeedInv, OwnTemp

\* Every reachable state satisfies the invariant, whichever writers share a
\* temporary name.
THEOREM FeedInvariant == Spec => []FeedInv
<1>1. FeedInv /\ [Next]_vars => FeedInv'
  <2> SUFFICES ASSUME FeedInv, [Next]_vars PROVE FeedInv'
    OBVIOUS
  <2>1. CASE \E w \in Writers : WriterStep(w)
    BY <2>1, WriterKeeps
  <2>2. CASE WatcherStep
    BY <2>2, WatcherKeeps
  <2>3. CASE UNCHANGED vars
    BY <2>3 DEF vars, FeedInv, TypeOK, WatcherIsSafe, OwnTemp, OwnTempUntouched, Nodes
  <2> QED
    BY <2>1, <2>2, <2>3 DEF Next
<1> QED
  BY <1>1, FeedInitial, PTL DEF Spec

\* The review of a writer with a temporary name of its own is complete
\* whenever it is latest_review.json: the process id in the name of the mini
\* reviewer's temporary file keeps what feedback_svc's fixed name does not.
THEOREM OwnTempAtomic == Spec => []OwnTempIsAtomic
<1>1. FeedInv => OwnTempIsAtomic
  BY Distinct DEF FeedInv, TypeOK, Nodes, OwnTempIsAtomic, OwnTempUntouched
<1> QED
  BY <1>1, FeedInvariant, PTL

-----------------------------------------------------------------------------
\* Diagnostics are shown for last_uri only, and once the old document has been
\* cleared for the document of the new review only.
ShownInv ==
    \A d \in Documents :
        shown[d] # None => d = IF lpc = "show" THEN TargetOf[review] ELSE last_uri

\* Each step of the watcher keeps it; a writer does not touch the editor.
LEMMA ShownKept ==
    ASSUME FeedInv, ShownInv, [Next]_vars
    PROVE  ShownInv'
<1>T. /\ shown \in [Documents -> Writers \cup {None}]
      /\ last_uri \in Documents \cup {None} /\ None \notin Documents
  BY WritersAssumption DEF FeedInv, TypeOK
<1>1. ASSUME NEW w \in Writers, WriterStep(w) PROVE ShownInv'
  <2>1. UNCHANGED <<lpc, review, last_uri, shown>>
    BY <1>1 DEF WriterStep, OpenTemp, WriteTemp, ReplaceLatest, ReplaceRaises, lsp
  <2> QED BY <2>1 DEF ShownInv
<1>2. CASE PollChange \/ ReadLatest \/ ParseRaises
  <2>1. lpc # "show" /\ lpc' # "show" /\ UNCHANGED <<last_uri, shown>>
    BY <1>2 DEF PollChange, Stat, ReadLatest, ParseRaises
  <2> QED BY <2>1 DEF ShownInv
<1>3. CASE ParseReview
  <2>1. lpc # "show" /\ UNCHANGED <<review, last_uri, shown>>
    BY <1>3 DEF ParseReview
  <2>2. lpc' = "show" => last_uri \in {None, TargetOf[review]}
    BY <1>3 DEF ParseReview
  <2> QED BY <2>1, <2>2, <1>T DEF ShownInv
<1>4. CASE ClearOld
  <2>1. /\ lpc = "clear" /\ lpc' = "show" /\ UNCHANGED <<review, last_uri>>
        /\ shown' = [shown EXCEPT ![last_uri] = None]
    BY <1>4 DEF ClearOld
  <2>2. \A d \in Documents : shown'[d] = None
    BY <2>1, <1>T DEF ShownInv
  <2> QED BY <2>2 DEF ShownInv
<1>5. CASE ShowReview
  <2>1. /\ lpc = "show" /\ lpc' = "sleep" /\ last_uri' = TargetOf[review]
        /\ shown' = [shown EXCEPT ![TargetOf[review]] = review]
    BY <1>5 DEF ShowReview
  <2> QED BY <2>1, <1>T DEF ShownInv
<1>6. CASE UNCHANGED vars
  BY <1>6 DEF vars, ShownInv
<1> QED
  BY <1>1, <1>2, <1>3, <1>4, <1>5, <1>6 DEF Next, WatcherStep

\* The editor shows the diagnostics of one document at a time.
THEOREM OneDocument == Spec => []OneDocumentShown
<1>1. Init => ShownInv
  BY DEF Init, ShownInv
<1>2. FeedInv /\ ShownInv /\ [Next]_vars => ShownInv'
  BY ShownKept
<1>3. ShownInv => OneDocumentShown
  BY DEF ShownInv, OneDocumentShown
<1> QED BY <1>1, <1>2, <1>3, FeedInvariant, PTL DEF Spec
=============================================================================
