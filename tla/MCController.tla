--------------------------- MODULE MCController ----------------------------
(***************************************************************************)
(* Instances of ControllerService for TLC.                                 *)
(***************************************************************************)
EXTENDS ControllerService, TLC

\* Volume identifiers are interchangeable, and so are claims.
Symmetry == Permutations(Claims) \cup Permutations(Volumes)

=============================================================================
