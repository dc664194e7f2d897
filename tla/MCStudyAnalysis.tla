-------------------------- MODULE MCStudyAnalysis --------------------------
(***************************************************************************)
(* A small instance of StudyAnalysis for TLC.                              *)
(***************************************************************************)
EXTENDS StudyAnalysis, TLC

\* Participants and sessions are only compared.
Symmetry == Permutations(Participants) \cup Permutations(Sessions)

MCChanges == {-1}
=============================================================================
