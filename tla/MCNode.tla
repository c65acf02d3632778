------------------------------- MODULE MCNode -------------------------------
(***************************************************************************)
(* Instances of NodeService for TLC.                                       *)
(***************************************************************************)
EXTENDS NodeService, TLC

\* Places for handlers are interchangeable, and so are volumes where no name is
\* contained in another.
Symmetry == Permutations(Slots) \cup Permutations(Volumes)

=============================================================================
