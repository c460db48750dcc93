\* Three impls: two Strings and a FlyString can hold three distinct texts,
\* and a literal can be interned while two impls are live.
CONSTANTS
    Impls = {i1, i2, i3}
    Strs = {s1, s2}
    Flys = {f1, f2}
    Contents <- MCContents
    NULL = NULL
SPECIFICATION Spec
SYMMETRY Symmetry
INVARIANT TableConsistent Canonical EqualityAgrees
