---------------------------- MODULE MCMcpServer -----------------------------
(* Small instances of McpServer.tla for TLC. *)
EXTENDS McpServer
=============================================================================
