---------------------------- MODULE MCLifecycle ----------------------------
(***************************************************************************)
(* Small instances of the response lifecycle.                              *)
(***************************************************************************)
EXTENDS LifecycleProps

\* Every response is a turn of the one conversation.
OneConversation == [r \in Responses |-> CHOOSE c \in Conversations : TRUE]

\* The key of a request that names none is its response's own id.
OwnKey == [r \in Responses |-> r]
=============================================================================
