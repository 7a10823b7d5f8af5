---------------------------- MODULE MCInventory ----------------------------
(* A small household for TLC: names are interchangeable.                   *)
EXTENDS Inventory, TLC

NameSymmetry == Permutations(Name)
=============================================================================
