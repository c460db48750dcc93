\* Three handles (a move between two while a third holds an object) and
\* two objects (one owned, one raw or reused after delete) and a third so
\* that every handle can own one while the program holds none.
CONSTANTS
    Handles = {h1, h2, h3}
    Objects = {o1, o2, o3}
    NULL = NULL
SPECIFICATION Spec
VIEW View
INVARIANT ExclusiveOwnership
PROPERTY ImplementsOwnership
