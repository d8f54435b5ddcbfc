------------------------------- MODULE MCWatch -------------------------------
(* One seat watches three voxels in two chunks: a sensor may reach one of  *)
(* the near chunk, and none reaches the far one while the fog lasts.       *)
EXTENDS Watch

MCChunkOf == [v \in Voxels |-> IF v = "far" THEN 1 ELSE 0]
MCGround  == [v \in Voxels |-> "rock"]
MCSights  == {{}, {"near"}}
=============================================================================
