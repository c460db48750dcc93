----------------------------- MODULE MCUtf32View -----------------------------
EXTENDS Utf32View, TLC

(* Views and iterators are interchangeable slots. *)
Symmetry == Permutations(Views) \cup Permutations(Iters)
====
