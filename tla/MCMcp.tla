------------------------------- MODULE MCMcp -------------------------------
(* Small instances of McpServer for TLC. *)
EXTENDS McpServer, TLC

McpSymmetry == Permutations(Tokens) \cup Permutations(SessionIds) \cup Permutations(Posts)

=============================================================================
