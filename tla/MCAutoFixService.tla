-------------------------- MODULE MCAutoFixService --------------------------
(***************************************************************************)
(* An instance of the auto-fix service for TLC: a patch of two files, one  *)
(* of the same target only, and one of a request without a target.         *)
(***************************************************************************)
EXTENDS AutoFixService, TLC

CONSTANTS c1, c2, c3, f1, f2

MCTargetOf == c1 :> f1 @@ c2 :> f1 @@ c3 :> NoFile
MCTouchesOf == c1 :> {f1, f2} @@ c2 :> {f1} @@ c3 :> {f2}
=============================================================================
