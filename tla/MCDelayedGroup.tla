---------------------------- MODULE MCDelayedGroup ----------------------------
(* Symmetry for the model-checking instances of DelayedGroup. *)
EXTENDS DelayedGroup, TLC

CameraSymmetry == Permutations(Cameras)
===============================================================================
