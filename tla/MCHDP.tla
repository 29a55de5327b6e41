------------------------------ MODULE MCHDP --------------------------------
(***************************************************************************)
(* HDP on the instances of Tracks, against the reference values.           *)
(***************************************************************************)
EXTENDS HDP, Tracks

=============================================================================
