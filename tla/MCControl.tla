------------------------------ MODULE MCControl ------------------------------
(***************************************************************************)
(* Control for TLC.  The slots Target objects live in are interchangeable: *)
(* no definition of Control tells them apart.                              *)
(***************************************************************************)
EXTENDS Control, TLC

SlotSymmetry == Permutations(Targets)
==============================================================================
