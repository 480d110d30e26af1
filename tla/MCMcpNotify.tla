----------------------------- MODULE MCMcpNotify -----------------------------
(* Small instances of McpNotify for TLC. *)
EXTENDS McpNotify, TLC

NotifySymmetry == Permutations(Requests) \cup Permutations(Ids)
=============================================================================
