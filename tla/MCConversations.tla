-------------------------- MODULE MCConversations --------------------------
(***************************************************************************)
(* Instances of Conversations for TLC.                                     *)
(***************************************************************************)
EXTENDS Conversations, TLC

\* Requests of a kind are interchangeable, and so are ids and accounts.
Symmetric ==
    UNION {Permutations(S) : S \in {Senders, Readers, Conv, Owner}}

=============================================================================
