--------------------------- MODULE OllamaProvider ---------------------------
(***************************************************************************)
(* providers/ollama.py: available, generate and _http_post_streaming of    *)
(* the provider behind the L3 gate, and what services/llm_review_gate.py   *)
(* makes of the answer.                                                    *)
(*                                                                         *)
(* Abstractions.  Time is counted in ticks since the deadline was set, and *)
(* not beyond the first tick past it.  A response, its head or a line of   *)
(* it arrives in any number of pieces: the socket time-out is per recv and *)
(* nothing limits how many a read takes, so the server is an actor of its  *)
(* own, under no obligation.  An answer is what the gate tells apart.      *)
(***************************************************************************)
EXTENDS Naturals

CONSTANTS
    TotalTimeout,    \* _total_timeout
    SocketTimeout    \* _socket_timeout

ASSUME TimeoutAssumption ==
    /\ TotalTimeout \in Nat
    /\ SocketTimeout \in Nat \ {0}

\* A verdict with details or a patch, an objection without, a code the gate
\* does not know, a pass, a text that is no JSON object of the schema, and
\* what makes generate raise: JSON that is no object, or broken HTTP.
Answers == {"rejects", "objects", "strange", "passes", "junk", "odd"}

VARIABLES
    available,   \* _available: "unknown", "yes" or "no"
    stream,      \* where available or _http_post_streaming is
    inbox,       \* bytes sent but not received: "none", "part" or "rest"
    elapsed,     \* time.monotonic() - (deadline - total_timeout)
    late,        \* reads of head or lines completed past the deadline, a history
    answer       \* what generate got: an answer, "failed" or "none"

providerVars == <<available, stream, inbox, elapsed, late, answer>>

ProviderTypeOK ==
    /\ available \in {"unknown", "yes", "no"}
    /\ stream \in {"off", "probe", "connect", "loop", "line", "ended"}
    /\ inbox \in {"none", "part", "rest"}
    /\ elapsed \in 0 .. TotalTimeout + 1
    /\ late \in Nat
    /\ answer \in Answers \cup {"failed", "none"}

\* OllamaProvider(...): nothing is known and nothing under way.
NewProvider ==
    /\ available' = "unknown"
    /\ stream' = "off"
    /\ inbox' = "none"
    /\ elapsed' = 0
    /\ late' = 0
    /\ answer' = "none"

ProviderInit ==
    /\ available = "unknown"
    /\ stream = "off"
    /\ inbox = "none"
    /\ elapsed = 0
    /\ late = 0
    /\ answer = "none"

-----------------------------------------------------------------------------
\* A read is under way: of the answer to /api/tags, of the response head, or of
\* a line.
Reading == stream \in {"probe", "connect", "line"}

\* The server sends some bytes of what is being read, or the rest of it.
ServerSends ==
    /\ Reading
    /\ inbox = "none"
    /\ inbox' \in {"part", "rest"}
    /\ UNCHANGED <<available, stream, elapsed, late, answer>>

\* A recv takes up to the socket time-out.
RecvTakes ==
    \E d \in 1 .. SocketTimeout :
        elapsed' = IF elapsed + d <= TotalTimeout THEN elapsed + d
                                                 ELSE TotalTimeout + 1

\* recv returns, and the read is not complete: on to the next recv.
ReceivePart ==
    /\ Reading
    /\ inbox = "part"
    /\ inbox' = "none"
    /\ RecvTakes
    /\ UNCHANGED <<available, stream, late, answer>>

\* The read is complete.
ReceiveRest ==
    /\ inbox = "rest"
    /\ inbox' = "none"
    /\ RecvTakes
    /\ late' = IF elapsed' > TotalTimeout THEN late + 1 ELSE late

-----------------------------------------------------------------------------
\* available() asks /api/tags once and keeps what it learns.
StartProbe ==
    /\ available = "unknown"
    /\ stream = "off"
    /\ stream' = "probe"
    /\ UNCHANGED <<available, inbox, elapsed, late, answer>>

\* The server is there and has the model, or not.
ProbeAnswered ==
    /\ stream = "probe"
    /\ inbox = "rest"
    /\ available' \in {"yes", "no"}
    /\ stream' = "off"
    /\ inbox' = "none"
    /\ UNCHANGED <<elapsed, late, answer>>

\* Refused, reset, or the socket timed out.
ProbeFails ==
    /\ stream = "probe"
    /\ inbox = "none"
    /\ available' = "no"
    /\ stream' = "off"
    /\ UNCHANGED <<inbox, elapsed, late, answer>>

Probe == StartProbe \/ ReceivePart \/ ProbeAnswered \/ ProbeFails

-----------------------------------------------------------------------------
End(a) == stream' = "ended" /\ answer' = a

\* generate: TimeoutError at once when there is no time at all.
StartStream ==
    /\ available = "yes"
    /\ stream = "off"
    /\ elapsed' = 0
    /\ IF TotalTimeout = 0
       THEN End("failed")
       ELSE stream' = "connect" /\ UNCHANGED answer
    /\ UNCHANGED <<available, inbox, late>>

\* urlopen returns with the response head.
Connect ==
    /\ stream = "connect"
    /\ ReceiveRest
    /\ stream' = "loop"
    /\ UNCHANGED <<available, answer>>

\* Fault: only the socket time-out ends a stream.
BeforeDeadline_Dropped == TRUE

BeforeDeadline == elapsed <= TotalTimeout

\* readline is called for the next line.
NextLine ==
    /\ stream = "loop"
    /\ BeforeDeadline
    /\ stream' = "line"
    /\ UNCHANGED <<available, inbox, elapsed, late, answer>>

\* The deadline has passed.
DeadlinePassed ==
    /\ stream = "loop"
    /\ ~BeforeDeadline
    /\ End("failed")
    /\ UNCHANGED <<available, inbox, elapsed, late>>

\* readline returns a token, or a line that is no JSON and is skipped.
ReadToken ==
    /\ stream = "line"
    /\ ReceiveRest
    /\ stream' = "loop"
    /\ UNCHANGED <<available, answer>>

\* readline returns the line with done = true, or the end of the stream,
\* which may have cut the text.
ReadLast ==
    /\ stream = "line"
    /\ ReceiveRest
    /\ \E a \in Answers : End(a)
    /\ UNCHANGED available

\* Fault: a recv that timed out is tried again.
TransferFails_Retry ==
    /\ stream \in {"connect", "line"}
    /\ inbox = "none"
    /\ UNCHANGED providerVars

\* urlopen or readline raises: refused, reset, the socket timed out, or the
\* response is no HTTP, which generate does not catch.
TransferFails ==
    /\ stream \in {"connect", "line"}
    /\ inbox = "none"
    /\ RecvTakes
    /\ \E a \in {"failed", "odd"} : End(a)
    /\ UNCHANGED <<available, inbox, late>>

ProviderStep ==
    \/ StartStream \/ Connect \/ NextLine \/ DeadlinePassed
    \/ ReceivePart \/ ReadToken \/ ReadLast \/ TransferFails

-----------------------------------------------------------------------------
\* LlmReviewGate.review: a verdict blocks only with details or a patch, a code
\* that is not known is passed on as it is; a failed call and an answer that
\* cannot be parsed count as a pass.  What generate raises goes through.
GateCode(a) ==
    CASE a = "rejects" -> "REVIEW_REJECTED"
      [] a = "strange" -> "OTHER"
      [] a = "odd"     -> "SYSTEM_FAILED"
      [] OTHER         -> "REVIEW_PASSED"

-----------------------------------------------------------------------------
\* total_timeout limits the lines of a call: past the deadline at most one (or
\* the response head) is read to its end, the one that was under way, whatever the time-outs and
\* however the server cuts and delays its bytes.  It does not limit the time
\* of that line: the deadline is looked at between lines only.
CallIsBounded == late <= 1

\* The server keeps one read busy for ever: it sends a few bytes within every
\* socket time-out and never the end of the line, of the head or of the answer
\* to /api/tags.  Nothing in the code ends such a read.
ServerDrips == <>[]Reading /\ []<>(inbox = "part")
=============================================================================
