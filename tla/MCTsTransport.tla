---------------------------- MODULE MCTsTransport ----------------------------
(***************************************************************************)
(* Instances of TsTransport for TLC.                                       *)
(***************************************************************************)
EXTENDS TsTransport
=============================================================================
