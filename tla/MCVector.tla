------------------------------ MODULE MCVector ------------------------------
(* Model-checking instance of Vector: vectors and heap blocks are model   *)
(* values and interchangeable, element values are not (Default differs). *)
EXTENDS Vector, TLC

Symmetry == Permutations(Vectors) \cup Permutations(Blocks)

(* lastOp is a history variable no action reads, so states that differ    *)
(* only in it have the same successors and are explored once.            *)
View == <<size, capacity, outline, mem, heap, faults, trivial>>
=============================================================================
