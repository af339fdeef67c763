--------------------------- MODULE MCMiniReviewer ---------------------------
(***************************************************************************)
(* Instances of the mini reviewer for TLC.                                 *)
(***************************************************************************)
EXTENDS MiniReviewer, TLC

CONSTANTS g1, g2, g3, t1, t2, f1, f2

\* g1 takes the staged files, g2 is called with two paths, and g3, with one
\* path, is told to skip.
GateArguments == g1 :> <<>> @@ g2 :> <<f1, f2>> @@ g3 :> <<f1>>

\* No gate.
Nobody == <<>>
=============================================================================
