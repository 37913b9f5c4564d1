--------------------------- MODULE MCIntervalometer ---------------------------
(***************************************************************************)
(* Intervalometer for TLC.  No definition of it tells one camera from      *)
(* another.                                                                *)
(***************************************************************************)
EXTENDS Intervalometer, TLC

CameraSymmetry == Permutations(Cameras)
==============================================================================
