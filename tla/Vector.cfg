\* Vector<T, 2> for a trivially copyable T and for a non-trivial T: two vectors,
\* three heap blocks, up to 3 elements.
CONSTANTS
    Vectors = {v1, v2}
    Tmp = tmp
    Blocks = {b1, b2, b3}
    NULL = NULL
    Val = {a, d}
    Default = d
    Moved = Moved
    None = None
    InlineCap = 2
    MaxSize = 3
    Kinds = {TRUE, FALSE}
SPECIFICATION Spec
SYMMETRY Symmetry
VIEW View
INVARIANT TypeOK NoUndefinedBehaviour OwnershipExact QueriesAgree
PROPERTY ImplementsVectorSeq
