------------------------------ MODULE MCServe ------------------------------
(***************************************************************************)
(* Instances of Serve for TLC.                                             *)
(***************************************************************************)
EXTENDS Serve
=============================================================================
