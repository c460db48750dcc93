\* Three lists and five nodes, used as spec section 4.3 asks of callers: a
\* splice between two lists while the third holds nodes.
CONSTANTS
    Lists = {L1, L2, L3}
    Nodes = {n1, n2, n3, n4, n5}
    NULL = NULL
    SelfSplice = FALSE
SPECIFICATION Spec
SYMMETRY Symmetry
VIEW View
INVARIANT TypeOK NoUndefinedBehaviour WellFormed
PROPERTY ImplementsNodeSeq
