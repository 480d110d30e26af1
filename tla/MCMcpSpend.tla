----------------------------- MODULE MCMcpSpend -----------------------------
(* Small instances of McpSpend for TLC. *)
EXTENDS McpSpend, TLC

PostSymmetry == Permutations(Posts)
=============================================================================
