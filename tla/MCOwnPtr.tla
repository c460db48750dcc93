----------------------------- MODULE MCOwnPtr ------------------------------
(* OwnPtr for TLC: the history variable lastOp is left out of the view. *)
EXTENDS OwnPtr

View == <<m_ptr, inScope, heap, raw, faults>>
=============================================================================
