\* Vector<T, 2> with a non-trivial T: does any placement new land on a live object?
CONSTANTS
    Vectors = {v1, v2}
    Tmp = tmp
    Blocks = {b1, b2, b3}
    NULL = NULL
    Val = {a, d}
    Default = d
    Moved = Moved
    None = None
    InlineCap = 2
    MaxSize = 3
    Kinds = {FALSE}
SPECIFICATION Spec
SYMMETRY Symmetry
VIEW View
INVARIANT NoObjectOverwritten
