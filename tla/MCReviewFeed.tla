---------------------------- MODULE MCReviewFeed ----------------------------
(***************************************************************************)
(* Instances of the review feed for TLC.                                   *)
(***************************************************************************)
EXTENDS ReviewFeed, TLC

CONSTANTS w1, w2, w3, t1, t2, d1, d2

\* A process of the mini reviewer, whose process id keeps its temporary file
\* apart, and two runs of run_once, which name one temporary file.
MixedTemps == w1 :> t1 @@ w2 :> t2 @@ w3 :> t2

\* Two documents, and a target that has no URI.
MixedTargets == w1 :> NoUri @@ w2 :> d1 @@ w3 :> d2
=============================================================================
