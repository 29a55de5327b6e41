------------------------------ MODULE MCFRTDP ------------------------------
(***************************************************************************)
(* FRTDP on the instances of Tracks.                                       *)
(***************************************************************************)
EXTENDS FRTDP, Tracks

=============================================================================
