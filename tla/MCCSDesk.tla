------------------------------ MODULE MCCSDesk ------------------------------
(* Instances of CSDesk for TLC.  Runs are interchangeable, so safety is     *)
(* checked up to permutations of them.                                     *)
EXTENDS CSDesk, TLC

Symmetry == Permutations(Loop)

\* Bound: a run is cut off only where no more than two messages are ever written.
CutEarly == Len(mail') > 2 => aborts' = 0
=============================================================================
