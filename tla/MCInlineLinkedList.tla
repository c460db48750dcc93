------------------------- MODULE MCInlineLinkedList -------------------------
(***************************************************************************)
(* InlineLinkedList for TLC.  Lists and nodes are interchangeable model   *)
(* values: no action tells two lists, or two nodes, apart except by their *)
(* links.  lastOp is left out of the view: no action reads it, so states  *)
(* that differ only in it have the same successors, and ImplementsNodeSeq *)
(* is still checked on every transition TLC generates.                    *)
(***************************************************************************)
EXTENDS InlineLinkedList

Symmetry == Permutations(Lists) \cup Permutations(Nodes)

View == <<head, tail, prev, next, faults>>
====
