--------------------------- MODULE MCConversation ---------------------------
(* Instances of Conversation for TLC.                                      *)
EXTENDS Conversation, TLC

Interchangeable == Permutations(Runs) \union Permutations(Compressors)
=============================================================================
