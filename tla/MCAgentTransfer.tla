--------------------------- MODULE MCAgentTransfer ---------------------------
(* AgentTransfer with small sets, for TLC.                                 *)
EXTENDS AgentTransfer, TLC

Symmetry == Permutations(Transfer) \union Permutations(Request)
            \union Permutations(Contact)
=============================================================================
