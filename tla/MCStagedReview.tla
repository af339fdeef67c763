--------------------------- MODULE MCStagedReview ---------------------------
(***************************************************************************)
(* An instance of jemmin_cli --staged for TLC: two staged files, reviewed  *)
(* twice.                                                                  *)
(***************************************************************************)
EXTENDS StagedReview

MCStaged == <<"a.py", "b.py">>
=============================================================================
