\* As InlineLinkedList.cfg, but a caller may splice a list onto itself.
CONSTANTS
    Lists = {L1, L2}
    Nodes = {n1, n2, n3}
    NULL = NULL
    SelfSplice = TRUE
SPECIFICATION Spec
SYMMETRY Symmetry
VIEW View
INVARIANT NoUndefinedBehaviour
