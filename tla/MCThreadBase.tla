---------------------------- MODULE MCThreadBase ----------------------------
(***************************************************************************)
(* Instances of ThreadBase for TLC.                                        *)
(***************************************************************************)
EXTENDS ThreadBase
=============================================================================
