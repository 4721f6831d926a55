--------------------------- MODULE MCRefreshTokens ---------------------------
(* RefreshTokens with small sets, for TLC.                                 *)
EXTENDS RefreshTokens, TLC

Symmetry == Permutations(Request) \union Permutations(Login) \union Permutations(Row)
                                    \union Permutations(Claims)
=============================================================================
