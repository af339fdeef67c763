---------------------------- MODULE MCCodeActions ----------------------------
(***************************************************************************)
(* An instance of the code actions for TLC: every script of up to          *)
(* MaxScript lines, cut into hunks in every way.                           *)
(***************************************************************************)
EXTENDS CodeActions
=============================================================================
