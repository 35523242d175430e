------------------------- MODULE MCCandidatePipeline -------------------------
(***************************************************************************)
(* Small instances of CandidatePipeline: versions and candidates are        *)
(* interchangeable model values.                                            *)
(***************************************************************************)
EXTENDS CandidatePipeline, TLC

\* Sound for the safety runs only.
Symmetry == Permutations(Versions) \cup Permutations(Candidates)
===============================================================================
