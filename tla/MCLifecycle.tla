---------------------------- MODULE MCLifecycle -----------------------------
(***************************************************************************)
(* Instances of Lifecycle for TLC.  Messages are interchangeable, but      *)
(* symmetry is not sound for liveness.                                     *)
(***************************************************************************)
EXTENDS Lifecycle

=============================================================================
