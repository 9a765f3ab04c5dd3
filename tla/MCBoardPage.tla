---------------------------- MODULE MCBoardPage ----------------------------
(***************************************************************************)
(* BoardPage for TLC.                                                      *)
(***************************************************************************)
EXTENDS BoardPage, TLC

\* No property tells one request of the page from another.
Interchangeable == Permutations(Mine)
=============================================================================
