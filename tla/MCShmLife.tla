----------------------------- MODULE MCShmLife -----------------------------
(***************************************************************************)
(* Instances of ShmLife for TLC.                                           *)
(***************************************************************************)
EXTENDS ShmLife
=============================================================================
