--------------------------- MODULE MCUseCacheLoop ---------------------------
(***************************************************************************)
(* All cached and fresh values out of four, for three actions: every order *)
(* of the values, with and without ties.                                   *)
(***************************************************************************)
EXTENDS UseCacheLoop

FewValues  == 0 .. 3
Undefined  == -1000
NoProblems == {}
=============================================================================
