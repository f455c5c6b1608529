------------------------------ MODULE MCHHClient ------------------------------
(* Instances of HHClient for TLC. *)
EXTENDS HHClient, TLC
=============================================================================
