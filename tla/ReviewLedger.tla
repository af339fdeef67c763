---------------------------- MODULE ReviewLedger ----------------------------
(***************************************************************************)
(* What the review pipeline promises its callers, without saying how: a    *)
(* ledger of change reviews.                                               *)
(*                                                                         *)
(* A run asks for the review of one change under a request id.  It may     *)
(* claim the change if no run has claimed the same id or the same change   *)
(* before; otherwise it is turned away.  Only the claimant settles the     *)
(* change, once, with a terminal state, and it is answered at most once,   *)
(* with the state it settled.  A claimant that could not settle may still  *)
(* be answered (the result is returned although the ledger was not         *)
(* updated), and a run may fail before it claims anything.                 *)
(***************************************************************************)
CONSTANTS
    Runs,       \* invocations
    Asks,       \* what can be asked: records with fields id and key
    Terminal,   \* states that settle a change
    None        \* not settled, not answered

VARIABLES
    ask,       \* run -> what it asks for
    holders,   \* runs that claimed their change
    settled,   \* run -> the state it settled its change with
    answer     \* run -> what its caller was told

ledger == <<ask, holders, settled, answer>>

Clash(v, w) == ask[v].id = ask[w].id \/ ask[v].key = ask[w].key

Init ==
    /\ ask \in [Runs -> Asks]
    /\ holders = {}
    /\ settled = [w \in Runs |-> None]
    /\ answer = [w \in Runs |-> None]

Claim(w) ==
    /\ answer[w] = None
    /\ \A v \in holders : ~Clash(v, w)
    /\ holders' = holders \cup {w}
    /\ UNCHANGED <<ask, settled, answer>>

Settle(w, s) ==
    /\ w \in holders
    /\ answer[w] = None
    /\ settled[w] = None
    /\ settled' = [settled EXCEPT ![w] = s]
    /\ UNCHANGED <<ask, holders, answer>>

Reply(w, s) ==
    /\ w \in holders
    /\ answer[w] = None
    /\ settled[w] \in {s, None}
    /\ answer' = [answer EXCEPT ![w] = s]
    /\ UNCHANGED <<ask, holders, settled>>

TurnAway(w) ==
    /\ w \notin holders
    /\ answer[w] = None
    /\ \E v \in holders : Clash(v, w)
    /\ answer' = [answer EXCEPT ![w] = "ignored"]
    /\ UNCHANGED <<ask, holders, settled>>

Break(w) ==
    /\ w \notin holders
    /\ answer[w] = None
    /\ answer' = [answer EXCEPT ![w] = "broken"]
    /\ UNCHANGED <<ask, holders, settled>>

Next ==
    \E w \in Runs :
        \/ Claim(w) \/ TurnAway(w) \/ Break(w)
        \/ \E s \in Terminal : Settle(w, s) \/ Reply(w, s)

Spec == Init /\ [][Next]_ledger
=============================================================================
