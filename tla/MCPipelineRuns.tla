--------------------------- MODULE MCPipelineRuns ---------------------------
(* Small instances of PipelineRuns for TLC. *)
EXTENDS PipelineRuns, TLC

CONSTANTS f1, f2, f3, p1, p2

Symmetry == Permutations(Procs)

=============================================================================
