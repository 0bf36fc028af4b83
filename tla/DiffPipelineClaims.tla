------------------------- MODULE DiffPipelineClaims -------------------------
(***************************************************************************)
(* What the documentation says of the pipeline's answer, and the pipeline  *)
(* does not keep.                                                          *)
(***************************************************************************)
EXTENDS DiffPipeline

(* The status reported per hunk shows what was applied: a hunk reported as *)
(* succeeded is in the file.                                               *)
SuccessIsInTheFile == pc = "done" => Succeeded \subseteq file
=============================================================================
