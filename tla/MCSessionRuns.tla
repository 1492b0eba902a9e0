---------------------------- MODULE MCSessionRuns ---------------------------
EXTENDS SessionRuns, TLC

\* The runs of a session are interchangeable.
Symmetry == Permutations(Runs)
=============================================================================
