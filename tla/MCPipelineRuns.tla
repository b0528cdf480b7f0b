-------------------------- MODULE MCPipelineRuns ---------------------------
(* Small instances of PipelineRuns for TLC.  Flow runs are interchangeable,  *)
(* and every property is a safety property, so the symmetry is sound.        *)
EXTENDS PipelineRuns, TLC

RunSymmetry == Permutations(Runs)
=============================================================================
