-------------------------- MODULE MCAnalysisInline --------------------------
(* AnalysisInline on a small instance. *)
EXTENDS AnalysisInline, TLC

\* Calls are interchangeable, and so are the images where no call is for the whole inspection.
Symmetry == Permutations(Calls) \cup Permutations(Images)
=============================================================================
