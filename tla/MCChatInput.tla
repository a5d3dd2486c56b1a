---------------------------- MODULE MCChatInput ----------------------------
(***************************************************************************)
(* Instances of ChatInput for TLC.                                         *)
(***************************************************************************)
EXTENDS ChatInput, TLC

\* Turns are interchangeable.
Symmetric == Permutations(Turn)

=============================================================================
