---------------------------- MODULE MCGoogleKeys ----------------------------
(***************************************************************************)
(* Instances of GoogleKeys for TLC.  Calls, and keys, are interchangeable, *)
(* but symmetry is not sound for liveness.                                 *)
(***************************************************************************)
EXTENDS GoogleKeys

=============================================================================
