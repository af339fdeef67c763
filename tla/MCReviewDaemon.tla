--------------------------- MODULE MCReviewDaemon ---------------------------
(***************************************************************************)
(* An instance of the daemon and its clients for TLC.                      *)
(***************************************************************************)
EXTENDS ReviewDaemon, TLC

CONSTANTS c1, c2, c3, c4, k1

\* Two calls of jemmin_cli for the same change and two other clients.
MCChangeOf == c1 :> k1 @@ c2 :> k1 @@ c3 :> k1 @@ c4 :> k1
MCKindOf == c1 :> "review" @@ c2 :> "review" @@ c3 :> "unsupported" @@ c4 :> "garbled"

\* Two calls of jemmin_cli.
TwoChangeOf == c1 :> k1 @@ c2 :> k1
TwoKindOf == c1 :> "review" @@ c2 :> "review"

CallSymmetry == Permutations({c1, c2})
=============================================================================
