--------------------------- MODULE MCUpdateThread ---------------------------
(***************************************************************************)
(* Instances of UpdateThread for TLC.                                      *)
(***************************************************************************)
EXTENDS UpdateThread
=============================================================================
