----------------------------- MODULE ReviewFeed -----------------------------
(***************************************************************************)
(* The feed from the reviewers to the editor: latest_review.json, which    *)
(* FileFeedbackService.publish_quick_fix (every run_once of the daemon and *)
(* of jemmin_cli) and write_latest_review_files of the mini reviewer       *)
(* replace through a temporary file, and jemmin_lsp, whose watcher polls   *)
(* the file's modification time and pushes diagnostics to the editor.      *)
(*                                                                         *)
(* Both writers use Path.write_text, which truncates the file, writes and  *)
(* closes it, and Path.replace.  Other processes and threads act between   *)
(* these system calls.  An open file stays what it is when its name is     *)
(* moved: files are nodes, names point to them.                            *)
(*                                                                         *)
(* A review is named by its writer; each writer publishes once.            *)
(***************************************************************************)
EXTENDS Naturals, FiniteSets

CONSTANTS
    Writers,     \* publications
    Temps,       \* names of temporary files
    TempOf,      \* writer -> the name it uses
    Documents,   \* documents that have a URI
    TargetOf,    \* writer -> the document it reviewed, or NoUri
    NoUri,       \* an empty or a relative target_file
    None         \* no file, no review

ASSUME WritersAssumption ==
    /\ None \notin Writers \cup Documents
    /\ NoUri \notin Documents \cup {None}
    /\ TempOf \in [Writers -> Temps]
    /\ TargetOf \in [Writers -> Documents \cup {NoUri}]

ASSUME WritersFinite == IsFiniteSet(Writers)

\* A node is named by the writer that created it.
Nodes == Writers
Empty == "empty"
Torn == "torn"

ASSUME ContentAssumption == {Empty, Torn} \cap (Writers \cup {None}) = {}

VARIABLES
    tmp,         \* temporary name -> the node it points to
    json,        \* the node latest_review.json points to
    content,     \* node -> a complete review, Empty or Torn
    mtime,       \* node -> st_mtime
    clock,       \* the time; every write has a time of its own
    wpc,         \* writer -> where it is
    fd,          \* writer -> the node it has open
    lpc,         \* where the watcher of jemmin_lsp is
    last_mtime,
    review,      \* the review the watcher read
    latest,      \* _latest_review, what codeAction answers from
    last_uri,
    shown        \* document -> the review whose diagnostics the editor shows

vars == <<tmp, json, content, mtime, clock, wpc, fd, lpc, last_mtime, review,
          latest, last_uri, shown>>

disk == <<tmp, json, content, mtime, clock>>
writers == <<wpc, fd>>
lsp == <<lpc, last_mtime, review, latest, last_uri, shown>>

TypeOK ==
    /\ tmp \in [Temps -> Nodes \cup {None}]
    /\ json \in Nodes \cup {None}
    /\ content \in [Nodes -> Writers \cup {Empty, Torn}]
    /\ mtime \in [Nodes -> Nat]
    /\ clock \in Nat
    /\ wpc \in [Writers -> {"idle", "opened", "written", "published", "failed"}]
    /\ fd \in [Writers -> Nodes \cup {None}]
    /\ lpc \in {"sleep", "read", "parse", "clear", "show"}
    /\ last_mtime \in Nat
    /\ review \in Writers \cup {Empty, Torn, None}
    /\ latest \in Writers \cup {None}
    /\ last_uri \in Documents \cup {None}
    /\ shown \in [Documents -> Writers \cup {None}]

Init ==
    /\ tmp = [t \in Temps |-> None]
    /\ json = None
    /\ content = [n \in Nodes |-> Empty]
    /\ mtime = [n \in Nodes |-> 0]
    /\ clock = 0
    /\ wpc = [w \in Writers |-> "idle"]
    /\ fd = [w \in Writers |-> None]
    /\ lpc = "sleep"
    /\ last_mtime = 0
    /\ review = None
    /\ latest = None
    /\ last_uri = None
    /\ shown = [d \in Documents |-> None]

-----------------------------------------------------------------------------
(* The writers.                                                            *)

Touch(n) ==
    /\ clock' = clock + 1
    /\ mtime' = [mtime EXCEPT ![n] = clock + 1]

\* open(temp, "w") creates the file or truncates the one that is there.
OpenTemp(w) ==
    LET n == IF tmp[TempOf[w]] = None THEN w ELSE tmp[TempOf[w]]
    IN  /\ wpc[w] = "idle"
        /\ tmp' = [tmp EXCEPT ![TempOf[w]] = n]
        /\ fd' = [fd EXCEPT ![w] = n]
        /\ content' = [content EXCEPT ![n] = Empty]
        /\ Touch(n)
        /\ wpc' = [wpc EXCEPT ![w] = "opened"]
        /\ UNCHANGED <<json, lsp>>

\* The text is written from the start of the file.  Over a longer text of
\* another writer it leaves that one's end behind.
WriteTemp(w) ==
    /\ wpc[w] = "opened"
    /\ \E c \in {w} \cup (IF content[fd[w]] = Empty THEN {} ELSE {Torn}) :
          content' = [content EXCEPT ![fd[w]] = c]
    /\ Touch(fd[w])
    /\ wpc' = [wpc EXCEPT ![w] = "written"]
    /\ UNCHANGED <<tmp, json, fd, lsp>>

\* Fault: the review is written to latest_review.json itself.
ReplaceLatest_InPlace(w) ==
    /\ wpc[w] \in {"opened", "written"}
    /\ tmp[TempOf[w]] # None
    /\ json' = tmp[TempOf[w]]
    /\ UNCHANGED <<tmp, content, mtime, clock, wpc, fd, lsp>>

ReplaceLatest(w) ==
    /\ wpc[w] = "written"
    /\ tmp[TempOf[w]] # None
    /\ json' = tmp[TempOf[w]]
    /\ tmp' = [tmp EXCEPT ![TempOf[w]] = None]
    /\ wpc' = [wpc EXCEPT ![w] = "published"]
    /\ UNCHANGED <<content, mtime, clock, fd, lsp>>

\* FileNotFoundError: another writer moved the temporary file away.  The
\* publisher logs the error.
ReplaceRaises(w) ==
    /\ wpc[w] = "written"
    /\ tmp[TempOf[w]] = None
    /\ wpc' = [wpc EXCEPT ![w] = "failed"]
    /\ UNCHANGED <<disk, fd, lsp>>

-----------------------------------------------------------------------------
(* The watcher of jemmin_lsp.                                              *)

Complete(c) == c \in Writers

\* stat: the file exists and its time differs from the one remembered.
Stat(last) ==
    /\ lpc = "sleep"
    /\ json # None
    /\ mtime[json] # last_mtime
    /\ last_mtime' = last
    /\ lpc' = "read"
    /\ UNCHANGED <<disk, writers, review, latest, last_uri, shown>>

\* Fault: the time is remembered when the cycle ends, and is then that of a
\* newer file.
PollChange_Late == Stat(clock)

PollChange == Stat(IF json = None THEN 0 ELSE mtime[json])

\* read_text reads what the name points to now.
ReadLatest ==
    /\ lpc = "read"
    /\ review' = content[json]
    /\ lpc' = "parse"
    /\ UNCHANGED <<disk, writers, last_mtime, latest, last_uri, shown>>

\* json.loads raises on anything but a complete review: the cycle ends, and
\* the time of the file stays remembered.
ParseRaises ==
    /\ lpc = "parse"
    /\ ~Complete(review)
    /\ lpc' = "sleep"
    /\ UNCHANGED <<disk, writers, last_mtime, review, latest, last_uri, shown>>

\* Fault: whatever was read is kept as the latest review.
ParseReview_Unchecked ==
    /\ lpc = "parse"
    /\ latest' = review
    /\ lpc' = "sleep"
    /\ UNCHANGED <<disk, writers, last_mtime, review, last_uri, shown>>

\* _latest_review is replaced, then the target is turned into a URI: an empty
\* one ends the cycle, and so does a relative one, for which as_uri raises
\* ValueError.
ParseReview ==
    /\ lpc = "parse"
    /\ Complete(review)
    /\ latest' = review
    /\ lpc' = CASE TargetOf[review] = NoUri -> "sleep"
                [] TargetOf[review] # NoUri
                   /\ last_uri \notin {None, TargetOf[review]} -> "clear"
                [] OTHER -> "show"
    /\ UNCHANGED <<disk, writers, last_mtime, review, last_uri, shown>>

\* Fault: the old document's diagnostics are left in the editor.
ClearOld_Skips ==
    /\ lpc = "clear"
    /\ lpc' = "show"
    /\ UNCHANGED <<disk, writers, last_mtime, review, latest, last_uri, shown>>

\* publishDiagnostics with an empty list for the previous document ...
ClearOld ==
    /\ lpc = "clear"
    /\ shown' = [shown EXCEPT ![last_uri] = None]
    /\ lpc' = "show"
    /\ UNCHANGED <<disk, writers, last_mtime, review, latest, last_uri>>

\* ... and the diagnostics of the new review.
ShowReview ==
    /\ lpc = "show"
    /\ last_uri' = TargetOf[review]
    /\ shown' = [shown EXCEPT ![TargetOf[review]] = review]
    /\ lpc' = "sleep"
    /\ UNCHANGED <<disk, writers, last_mtime, review, latest>>

WriterStep(w) == OpenTemp(w) \/ WriteTemp(w) \/ ReplaceLatest(w) \/ ReplaceRaises(w)

WatcherStep ==
    PollChange \/ ReadLatest \/ ParseRaises \/ ParseReview \/ ClearOld \/ ShowReview

Next == (\E w \in Writers : WriterStep(w)) \/ WatcherStep

Spec == Init /\ [][Next]_vars

\* A writer that has opened its file goes on, and the watcher polls.
FairSpec ==
    /\ Spec
    /\ \A w \in Writers : WF_vars(WriteTemp(w) \/ ReplaceLatest(w) \/ ReplaceRaises(w))
    /\ WF_vars(WatcherStep)

-----------------------------------------------------------------------------
\* "Atomic write: ... prevents the LSP from reading a half-written file":
\* whenever latest_review.json exists it holds one complete review.
NeverHalfWritten == json # None => Complete(content[json])

\* A writer whose temporary file no other writer names.
OwnTemp(w) == \A v \in Writers : TempOf[v] = TempOf[w] => v = w

\* What the process id in the temporary name of write_latest_review_files is
\* for: a review written through a file of its own is complete whenever it is
\* latest_review.json, although other writers tear theirs at the same time.
OwnTempIsAtomic == json # None /\ OwnTemp(json) => content[json] = json

\* The inductive invariant behind it: only the writer itself names, opens and
\* fills the file it created, and it is done with it when it publishes it.
OwnTempUntouched(w) ==
    /\ wpc[w] = "idle" => tmp[TempOf[w]] = None
    /\ wpc[w] \in {"opened", "written"} => fd[w] = w /\ tmp[TempOf[w]] = w
    /\ wpc[w] = "opened" => content[w] = Empty
    /\ wpc[w] \in {"written", "published"} => content[w] = w
    /\ \A v \in Writers \ {w} : fd[v] # w
    /\ \A t \in Temps \ {TempOf[w]} : tmp[t] # w
    /\ json = w => wpc[w] = "published"

\* The file the watcher reads exists, and what it shows is a review that has
\* a URI.
WatcherIsSafe ==
    /\ lpc = "read" => json # None
    /\ lpc \in {"clear", "show"} => review \in Writers /\ TargetOf[review] # NoUri

FeedInv ==
    /\ TypeOK
    /\ WatcherIsSafe
    /\ \A w \in Writers : OwnTemp(w) => OwnTempUntouched(w)

\* The editor never shows the diagnostics of two documents at once, whatever
\* the order in which reviews of different documents replace each other
\* between two steps of the watcher.
OneDocumentShown ==
    \A d, e \in Documents : shown[d] # None /\ shown[e] # None => d = e

\* Every publication is over or has not begun.
Quiet == \A w \in Writers : wpc[w] \in {"idle", "published", "failed"}

\* What latest_review.json holds.
Published == IF json = None THEN None ELSE content[json]

\* The editor catches up: when no publication is under way, the server soon
\* answers from the review in latest_review.json and shows it, if it has a
\* URI, although modification times and contents are read at different times
\* and half-written files may have been read before.
EditorCatchesUp ==
    \A w \in Writers :
        (Quiet /\ Published = w) ~>
            (\/ ~(Quiet /\ Published = w)
             \/ /\ latest = w
                /\ TargetOf[w] # NoUri => shown[TargetOf[w]] = w)
=============================================================================
