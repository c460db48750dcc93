\* A buffer of three code points, two views and two iterators.
CONSTANTS
    N = 3
    Views = {v1, v2}
    Iters = {i1, i2}
SPECIFICATION Spec
SYMMETRY Symmetry
INVARIANT TypeOK NoVerifyFailure IterationFaithful
