------------------------------- MODULE MCElevator ------------------------------
(***************************************************************************)
(* Elevator for TLC.  The threads that serve requests are interchangeable.*)
(***************************************************************************)
EXTENDS Elevator, TLC

Symmetry == Permutations(Requests)
================================================================================
