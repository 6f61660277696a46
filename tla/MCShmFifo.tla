----------------------------- MODULE MCShmFifo -----------------------------
(***************************************************************************)
(* Instances of ShmFifo for TLC.                                           *)
(***************************************************************************)
EXTENDS ShmFifo
=============================================================================
