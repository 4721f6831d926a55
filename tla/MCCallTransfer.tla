--------------------------- MODULE MCCallTransfer ---------------------------
(* CallTransfer with small sets, for TLC.                                  *)
EXTENDS CallTransfer, TLC

Symmetry == Permutations(Request) \union Permutations(Transfer)
            \union Permutations(Log) \union Permutations(Member)
=============================================================================
