----------------------- MODULE MCContestParticipation -----------------------
(* Instances of ContestParticipation for TLC.                              *)
EXTENDS ContestParticipation, TLC

\* Threads are interchangeable.
Symmetry == Permutations(Threads)
=============================================================================
