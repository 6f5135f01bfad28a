------------------------ MODULE MCIntegrationJournal ------------------------
(***************************************************************************)
(* IntegrationJournal for TLC.  Cameras and answers are only compared for  *)
(* equality, so each set is symmetric (the run checks no liveness).        *)
(***************************************************************************)
EXTENDS IntegrationJournal

Symmetry == Permutations(Camera) \cup Permutations(Answer)

=============================================================================
