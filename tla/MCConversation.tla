--------------------------- MODULE MCConversation ---------------------------
(***************************************************************************)
(* Small instances of the conversation store under arbitrary callers.      *)
(***************************************************************************)
EXTENDS Conversation, TLC

\* Ids and tenants are only compared, and every property of the run is a
\* safety property.
ConversationSymmetry ==
    Permutations(Responses) \cup Permutations(Conversations) \cup Permutations(Tenants)
=============================================================================
