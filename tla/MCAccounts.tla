------------------------------ MODULE MCAccounts ------------------------------
(* Accounts with small sets, for TLC.                                      *)
EXTENDS Accounts, TLC
=============================================================================
