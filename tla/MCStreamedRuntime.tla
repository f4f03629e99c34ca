-------------------------- MODULE MCStreamedRuntime --------------------------
(***************************************************************************)
(* Instances of StreamedRuntime for TLC.                                   *)
(***************************************************************************)
EXTENDS StreamedRuntime, TLC
=============================================================================
