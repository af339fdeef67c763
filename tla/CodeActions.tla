----------------------------- MODULE CodeActions -----------------------------
(***************************************************************************)
(* From a review to the text in the editor: _parse_hunk_ranges and         *)
(* publish_quick_fix of services/feedback_svc.py turn findings and a patch *)
(* into code actions, _build_code_actions of bin/jemmin_lsp.py turns those *)
(* into text edits, and the editor applies the ones the developer picks.   *)
(*                                                                         *)
(* A change of the document is a script of kept, removed and added lines.  *)
(* It gives the old text, the new text and, cut into hunks, the unified    *)
(* diff that the code parses; what the edits make of the old text is       *)
(* compared with the new one.                                              *)
(*                                                                         *)
(* Abstractions.  A line is the sequence of its pieces, each a number, and *)
(* a blank line is <<>>; the lines of a script are told apart by their     *)
(* place in it.  The document is the one the review was made for.          *)
(***************************************************************************)
EXTENDS Integers, Sequences, SequencesExt

CONSTANTS
    MaxScript,   \* bound: lines of a script
    MaxHunks     \* bound: hunks of a diff

ASSUME CodeActionsAssumption == MaxScript \in Nat /\ MaxHunks \in Nat

\* The pieces that are no line of a script: a suggested fix, "# noqa: CODE".
Fix == 0
Noqa == -1

\* The signs of a script: of its old text, of its new text.
Signs == {" ", "-", "+"}
OldSigns == {" ", "-"}
NewSigns == {" ", "+"}
Scripts == UNION {[1 .. n -> Signs] : n \in 1 .. MaxScript}

\* The lines of interval a .. b of script s that carry one of the signs.
LineAt(s, p, signs) == IF s[p] \in signs THEN <<<<p>>>> ELSE <<>>
Lines(s, a, b, signs) ==
    FlattenSeq([k \in 1 .. b - a + 1 |-> LineAt(s, a + k - 1, signs)])

OldText(s) == Lines(s, 1, Len(s), OldSigns)
NewText(s) == Lines(s, 1, Len(s), NewSigns)

\* The ways to cut a script into hunks: intervals in order, apart from each
\* other, that hold every changed line.
Cuts(s) ==
    {h \in UNION {[1 .. n -> (1 .. Len(s)) \X (1 .. Len(s))] : n \in 1 .. MaxHunks} :
        /\ \A k \in DOMAIN h : h[k][1] <= h[k][2]
        /\ \A k \in DOMAIN h : k > 1 => h[k - 1][2] + 1 < h[k][1]
        /\ \A p \in 1 .. Len(s) :
              s[p] # " " => \E k \in DOMAIN h : p \in h[k][1] .. h[k][2]}

\* A line of a diff.  The length -1 stands for a header without one.
HeaderLine(start, len) == [sign |-> "@", start |-> start, len |-> len]
BodyLine(sign, text) == [sign |-> sign, text |-> text]

\* The old lines before a hunk, and of it.
Before(s, h) == Len(Lines(s, 1, h[1] - 1, OldSigns))
OldLen(s, h) == Len(Lines(s, h[1], h[2], OldSigns))

\* The hunk as diff prints it: old lines are numbered from 1, the number is
\* that of the line before when there are none, and a length of 1 is left out.
HunkStart(s, h) == IF OldLen(s, h) = 0 THEN Before(s, h) ELSE Before(s, h) + 1
HunkLines(s, h) ==
    <<HeaderLine(HunkStart(s, h), IF OldLen(s, h) = 1 THEN -1 ELSE OldLen(s, h))>>
    \o [k \in 1 .. h[2] - h[1] + 1 |-> BodyLine(s[h[1] + k - 1], <<h[1] + k - 1>>)]

\* The diff: two file names, the hunks, and git's remark on the last line.
DiffLines(s, cut) ==
    <<BodyLine("-", <<>>), BodyLine("+", <<>>)>>
    \o FlattenSeq([k \in DOMAIN cut |-> HunkLines(s, cut[k])])
    \o <<BodyLine("\\", <<>>)>>

NoHunk == <<>>

VARIABLES
    script, cut,    \* the change the patch makes, and its hunks
    findings,       \* [line, fix, code] of the review; line 0 stands for None
    pc,             \* where the review is on its way to the editor
    place,          \* lines of the diff parsed so far
    current_hunk, hunks,
    code_actions,   \* of latest_review.json
    asked,          \* the range of the request
    actions,        \* the answer
    applied,        \* the action the developer picked
    text            \* the document

vars == <<script, cut, findings, pc, place, current_hunk, hunks, code_actions,
          asked, actions, applied, text>>

Findings == [line : 0 .. MaxScript, fix : BOOLEAN, code : BOOLEAN]
Hunk == [start_line : Int, end_line : Int, new_lines : Seq(Seq(Int))]

Init ==
    /\ script \in Scripts
    /\ cut \in Cuts(script)
    /\ findings \in {<<f>> : f \in {g \in Findings : g.line <= Len(OldText(script))}}
    /\ pc = "parse"
    /\ place = 0
    /\ current_hunk = NoHunk
    /\ hunks = <<>>
    /\ code_actions = <<>>
    /\ asked = <<0, 0>>
    /\ actions = <<>>
    /\ applied = <<>>
    /\ text = OldText(script)

-----------------------------------------------------------------------------
(* services/feedback_svc.py                                                *)

unified_diff == DiffLines(script, cut)
raw_line == unified_diff[place + 1]

EndHunk == IF current_hunk = NoHunk THEN hunks ELSE Append(hunks, current_hunk)

\* Fault: the end of the range is its last line.
HunkRange_Inclusive(start, len) ==
    [start_line |-> start - 1, end_line |-> start - 2 + len, new_lines |-> <<>>]

HunkRange(start, len) ==
    [start_line |-> start - 1, end_line |-> start - 1 + len, new_lines |-> <<>>]

ParseHeader ==
    /\ pc = "parse"
    /\ place < Len(unified_diff)
    /\ raw_line.sign = "@"
    /\ hunks' = EndHunk
    /\ current_hunk' = HunkRange(raw_line.start,
                                 IF raw_line.len = -1 THEN 1 ELSE raw_line.len)
    /\ place' = place + 1
    /\ UNCHANGED <<script, cut, findings, pc, code_actions, asked, actions,
                   applied, text>>

\* Lines before the first header, removed lines and remarks are skipped.
ParseBody ==
    /\ pc = "parse"
    /\ place < Len(unified_diff)
    /\ raw_line.sign # "@"
    /\ current_hunk' =
          IF current_hunk # NoHunk /\ raw_line.sign \in {"+", " "}
          THEN [current_hunk EXCEPT !.new_lines = Append(@, raw_line.text)]
          ELSE current_hunk
    /\ place' = place + 1
    /\ UNCHANGED <<script, cut, findings, pc, hunks, code_actions, asked,
                   actions, applied, text>>

ParseEnd ==
    /\ pc = "parse"
    /\ place = Len(unified_diff)
    /\ hunks' = EndHunk
    /\ pc' = "publish"
    /\ UNCHANGED <<script, cut, findings, place, current_hunk, code_actions,
                   asked, actions, applied, text>>

\* The actions for a finding of a Python file.
FindingActions(f) ==
    LET line_no == IF f.line = 0 THEN 1 ELSE f.line
    IN  (IF f.fix THEN <<[kind |-> "quickfix", line_number |-> line_no]>> ELSE <<>>)
        \o (IF f.code THEN <<[kind |-> "quickfix.suppress", line_number |-> line_no]>>
            ELSE <<>>)

PublishQuickFix ==
    /\ pc = "publish"
    /\ code_actions' = FlattenSeq([k \in DOMAIN findings |-> FindingActions(findings[k])])
                       \o <<[kind |-> "quickfix.patch", edits |-> hunks]>>
    /\ pc' = "published"
    /\ UNCHANGED <<script, cut, findings, place, current_hunk, hunks, asked,
                   actions, applied, text>>

-----------------------------------------------------------------------------
(* bin/jemmin_lsp.py                                                       *)

\* An edit replaces the lines start .. end - 1 (0-based), or appends to a line.
Replace(start, end, lines) ==
    [how |-> "replace", start |-> start, end |-> end, lines |-> lines]
AppendTo(line, piece) ==
    [how |-> "append", start |-> line, end |-> line, lines |-> <<<<piece>>>>]

\* "\n".join(new_lines) + "\n": no lines make a blank one.
JoinLines(ls) == IF ls = <<>> THEN <<<<>>>> ELSE ls

PatchEdits(ca) ==
    [k \in DOMAIN ca.edits |->
        Replace(ca.edits[k].start_line, ca.edits[k].end_line,
                JoinLines(ca.edits[k].new_lines))]

\* Fault: the 1-based line of the finding is taken for a 0-based one.
ActionLine_OneBased(ca) == ca.line_number

ActionLine(ca) == ca.line_number - 1

LineEdit(ca) ==
    IF ca.kind = "quickfix.suppress"
    THEN <<AppendTo(ActionLine(ca), Noqa)>>
    ELSE <<Replace(ActionLine(ca), ActionLine(ca) + 1, <<<<Fix>>>>)>>

\* The patch is offered whatever the range, the others when their line is in it.
Offered(ca, range) ==
    ca.kind = "quickfix.patch" \/ ActionLine(ca) \in range[1] .. range[2]

\* The answer's entry for a code action of the review.
ActionItem(ca) ==
    [kind |-> ca.kind,
     edit |-> IF ca.kind = "quickfix.patch" THEN PatchEdits(ca) ELSE LineEdit(ca)]

\* textDocument/codeAction
CodeAction(range) ==
    /\ pc = "published"
    /\ asked' = range
    /\ actions' = FlattenSeq([k \in DOMAIN code_actions |->
                     IF Offered(code_actions[k], range)
                     THEN <<ActionItem(code_actions[k])>> ELSE <<>>])
    /\ pc' = "answered"
    /\ UNCHANGED <<script, cut, findings, place, current_hunk, hunks,
                   code_actions, applied, text>>

-----------------------------------------------------------------------------
(* The editor.                                                             *)

\* All ranges of an edit are places of the text before it: an edit's lines
\* come where its range starts, and the lines of its range are gone.
Gone(edits, p) ==
    \E k \in DOMAIN edits : /\ edits[k].how = "replace"
                           /\ edits[k].start < p /\ p <= edits[k].end
EditsAt(edits, p, how) ==
    FlattenSeq([k \in DOMAIN edits |->
        IF edits[k].how = how /\ edits[k].start = p - 1 THEN edits[k].lines ELSE <<>>])

\* What line p of text t becomes; place Len(t) + 1 is the end of the text.
EditedLine(t, edits, p) ==
    EditsAt(edits, p, "replace")
    \o (IF p > Len(t) \/ Gone(edits, p) THEN <<>>
        ELSE <<t[p] \o FlattenSeq(EditsAt(edits, p, "append"))>>)
Edited(t, edits) ==
    FlattenSeq([p \in 1 .. Len(t) + 1 |-> EditedLine(t, edits, p)])

ApplyAction(k) ==
    /\ pc = "answered"
    /\ applied' = <<actions[k]>>
    /\ text' = Edited(text, actions[k].edit)
    /\ pc' = "applied"
    /\ UNCHANGED <<script, cut, findings, place, current_hunk, hunks,
                   code_actions, asked, actions>>

Next ==
    \/ ParseHeader \/ ParseBody \/ ParseEnd \/ PublishQuickFix
    \/ \E a, b \in 0 .. MaxScript - 1 : a <= b /\ CodeAction(<<a, b>>)
    \/ \E k \in DOMAIN actions : ApplyAction(k)

Spec == Init /\ [][Next]_vars

-----------------------------------------------------------------------------
TypeOK ==
    /\ pc \in {"parse", "publish", "published", "answered", "applied"}
    /\ place \in 0 .. Len(unified_diff)
    /\ current_hunk \in {NoHunk} \cup Hunk
    /\ hunks \in Seq(Hunk)
    /\ text \in Seq(Seq(Int))

\* A hunk with a line of the old and a line of the new text, as diff makes them
\* with lines of context.
Ordinary(h) ==
    /\ \E p \in h[1] .. h[2] : script[p] \in OldSigns
    /\ \E p \in h[1] .. h[2] : script[p] \in NewSigns

Picked(kind) == pc = "applied" /\ applied[1].kind = kind

\* "Apply verified patch": the edits that the server makes of the hunks turn
\* the text the patch was made for into the text it is a patch to, however many
\* hunks shift the lines of the later ones.
PatchMakesNewText ==
    Picked("quickfix.patch") /\ (\A k \in DOMAIN cut : Ordinary(cut[k]))
        => text = NewText(script)

\* A quick fix or a suppression changes one line, that of the finding it was
\* made for (counted from 1, line 1 when the agent gave none), and only when
\* the developer asked about that line (counted from 0).
FixTouchesItsLine ==
    Picked("quickfix") \/ Picked("quickfix.suppress") =>
        \E k \in DOMAIN findings :
            LET line == IF findings[k].line = 0 THEN 1 ELSE findings[k].line
                old == OldText(script)
            IN  /\ line - 1 \in asked[1] .. asked[2]
                /\ line <= Len(old) =>
                      /\ Len(text) = Len(old)
                      /\ \A p \in DOMAIN old : text[p] # old[p] <=> p = line
=============================================================================
