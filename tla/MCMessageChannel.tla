--------------------------- MODULE MCMessageChannel ---------------------------
(* Symmetry for the model-checking instances of MessageChannel. *)
EXTENDS MessageChannel, TLC

CameraSymmetry == Permutations(Cameras)
===============================================================================
