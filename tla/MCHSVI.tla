------------------------------- MODULE MCHSVI -------------------------------
(***************************************************************************)
(* HSVI on the discounted instances of Tracks, against the reference       *)
(* values.  (Without a discount a trial of HSVI need not end.)             *)
(***************************************************************************)
EXTENDS HSVI, Tracks

DiscountedTracks ==
  {[p EXCEPT !.discount = d] : p \in ScaledTracks, d \in {2, 3}}

SoundTracks == {p \in DiscountedTracks : ValidHeuristics(p, OptimalValue(p))}

\* (A name for Optimal, which has TLC evaluate it only once.)
Values == Optimal
=============================================================================
