----------------------------- MODULE MCService -----------------------------
(* The values of MCPipeline; a restart for clients that wait.              *)
EXTENDS Service, MCPipeline

MCQuota == [serial |-> 4, concurrent |-> 3]
MCStarts == [serial |-> 2, concurrent |-> 1]
=============================================================================
