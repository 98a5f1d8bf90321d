--------------------------- MODULE MCCargoTransport ---------------------------
(* Symmetry for the model-checking instances of CargoTransport. *)
EXTENDS CargoTransport, TLC

WarehouseSymmetry == Permutations(Warehouses)
===============================================================================
