---------------------------- MODULE MCMcpClient ----------------------------
(* McpClient with two callers that overlap.                                 *)
EXTENDS McpClient, TLC
=============================================================================
