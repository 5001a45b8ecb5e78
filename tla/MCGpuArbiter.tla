---------------------------- MODULE MCGpuArbiter ----------------------------
(* A chat, two drafts and a reviewer in bash on one endpoint.              *)
EXTENDS GpuArbiter

CONSTANTS chat, draft1, draft2, reviewer

MCProcs == {chat, draft1, draft2, reviewer}
MCRank == [p \in MCProcs |-> IF p = chat THEN 0 ELSE IF p = reviewer THEN 1 ELSE 2]
=============================================================================
