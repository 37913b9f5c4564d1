---------------------------- MODULE MCCameraStore -----------------------------
(***************************************************************************)
(* CameraStore with cameras TLC may take for one another: nothing tells    *)
(* them apart, and every property of the run is one of safety.             *)
(***************************************************************************)
EXTENDS CameraStore, TLC

Symmetry == Permutations(Cameras)
==============================================================================
