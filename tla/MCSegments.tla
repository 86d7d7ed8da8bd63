------------------------------ MODULE MCSegments ------------------------------
(* Segments on small instances.                                            *)
EXTENDS Segments, TLC

CONSTANTS p1, p2

OneDisk == <<3>>
TwoDisks == <<2, 1>>
SmallDisk == <<2>>

(* Partitions are interchangeable.                                         *)
PartSymmetry == Permutations(Parts)
===============================================================================
