---------------------------- MODULE MCConversation ----------------------------
(* Conversation with small sets, for TLC.                                  *)
EXTENDS Conversation, TLC

Symmetry == Permutations(Contact) \union Permutations(Request)
=============================================================================
