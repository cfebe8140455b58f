---------------------------- MODULE MCSandboxJob ----------------------------
(***************************************************************************)
(* Instances of SandboxJob for TLC.                                        *)
(***************************************************************************)
EXTENDS SandboxJob
=============================================================================
