-------------------------- MODULE MCAnalyzePipeline --------------------------
\* Instances of AnalyzePipeline for TLC.
EXTENDS AnalyzePipeline, TLC

Symmetry == Permutations(Requests) \cup Permutations(Files)
=============================================================================
