--------------------------- MODULE MCReviewContext --------------------------
(***************************************************************************)
(* An instance of the context stage for TLC: two files of one directory.   *)
(***************************************************************************)
EXTENDS ReviewContext, TLC

CONSTANTS t1, t2, f1, f2, dir

MCHashes == Files \X (0 .. MaxVersion)
MCUnder == f1 :> {f1} @@ dir :> {f1, f2}

ThreadSymmetry == Permutations({t1, t2})
=============================================================================
