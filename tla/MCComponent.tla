---------------------------- MODULE MCComponent ----------------------------
(***************************************************************************)
(* Instances of Component for TLC.                                         *)
(***************************************************************************)
EXTENDS Component
=============================================================================
