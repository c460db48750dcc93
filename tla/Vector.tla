------------------------------- MODULE Vector -------------------------------
(***************************************************************************)
(* AK::Vector<T, inline_capacity> (src/AK/Vector.h) at the level of its    *)
(* storage.  Each vector object owns an inline buffer of InlineCap slots;  *)
(* m_outline_buffer, when not null, is a heap block from kmalloc and then  *)
(* it, not the inline buffer, holds the elements (data()).  Every slot     *)
(* holds an element value, a live moved-from object (Moved) or no object   *)
(* (None), so that placement new, ~T(), kmalloc and kfree can be checked   *)
(* for what C++ leaves undefined or leaks.  Element values are small model *)
(* values; when trivial, T is trivially copyable (Traits<T>::is_trivial()) *)
(* and the code takes its block-copy paths.                                *)
(*                                                                         *)
(* Each operation is one action: the program is single-threaded and no     *)
(* operation calls out while the vector is half-updated.  A fallible       *)
(* operation whose kmalloc fails before it changed anything is a stutter   *)
(* and is left out; the strict forms VERIFY the result and abort.          *)
(* TypedTransfer<T>::move/copy (not in this repository) are modelled by    *)
(* the contract Vector.h relies on: construct each destination slot from   *)
(* the source slot, walking backwards when the ranges overlap upwards, and *)
(* leave the sources alive (moved-from) for the caller to destroy.         *)
(***************************************************************************)
EXTENDS Naturals, Sequences, FiniteSets

CONSTANTS
    Vectors,    \* the Vector objects of the program
    Tmp,        \* the local `Vector tmp` of try_append/try_prepend(Vector&&)
    Blocks,     \* the heap blocks kmalloc can return
    NULL,       \* nullptr, and a failed kmalloc
    Val,        \* element values
    Default,    \* the value a default-constructed T holds
    Moved,      \* a live object whose value was moved out
    None,       \* a slot holding no object
    InlineCap,  \* inline_capacity
    MaxSize,    \* bound on m_size, so that the heap stays finite
    Kinds       \* the values Traits<T>::is_trivial() is checked with

ASSUME InlineCap \in Nat /\ MaxSize \in Nat /\ Kinds \subseteq BOOLEAN
ASSUME Default \in Val /\ {Moved, None, NULL} \cap Val = {}

SX == INSTANCE SequencesExt

Objs    == Vectors \cup {Tmp}
Regions == Objs \cup Blocks

(* padded_capacity: the growth policy, max(4, c + c/4 + 4). *)
Padded(c) == IF c + c \div 4 + 4 > 4 THEN c + c \div 4 + 4 ELSE 4

(* No operation within the bounds asks kmalloc for more slots than this; *)
(* ensure_capacity is called with up to this many, so that an outline    *)
(* buffer is itself reallocated.                                         *)
MaxLen == Padded(MaxSize)
Slots  == 0..(MaxLen - 1)
Cells  == Val \cup {Moved, None}

VARIABLES
    size,      \* m_size
    capacity,  \* m_capacity
    outline,   \* m_outline_buffer: a block, or NULL
    mem,       \* the contents of every inline buffer and heap block
    heap,      \* the length kmalloc gave each block; 0 when it is free
    faults,    \* undefined or leaking memory operations performed so far
    trivial,   \* Traits<T>::is_trivial(): fixed per instantiation of Vector<T>
    lastOp     \* history: the member function just called, with its arguments

vars == <<size, capacity, outline, mem, heap, faults, trivial, lastOp>>

(***************************************************************************)
(* Operations are functions of a "world" record holding every variable, so *)
(* that a member function reads as the sequence of steps the code takes.   *)
(***************************************************************************)
World == [size |-> size, capacity |-> capacity, outline |-> outline,
          mem |-> mem, heap |-> heap, faults |-> faults]


Up(lo, hi)   == [k \in 1..(hi - lo + 1) |-> lo + k - 1]
Down(hi, lo) == [k \in 1..(hi - lo + 1) |-> hi - k + 1]
ForEach(W, ks, Step(_, _)) == SX!FoldLeft(Step, W, ks)

(* data(): the outline buffer when there is one, else the inline buffer. *)
Data(W, o)   == IF W.outline[o] = NULL THEN o ELSE W.outline[o]
Extent(W, r) == IF r \in Objs THEN InlineCap ELSE W.heap[r]

(* The state after the call op.  For a trivial T a slot outside          *)
(* data()[0..size) holds stale bytes no operation reads as an element, so *)
(* it is recorded as holding nothing.                                     *)
Live(W, r, i) == \E o \in Objs : Data(W, o) = r /\ i < W.size[o]
Commit(W, op) ==
    /\ size' = W.size /\ capacity' = W.capacity /\ outline' = W.outline
    /\ mem' = IF trivial
              THEN [r \in Regions |-> [i \in Slots |->
                        IF Live(W, r, i) THEN W.mem[r][i] ELSE None]]
              ELSE W.mem
    /\ heap' = W.heap /\ faults' = W.faults /\ trivial' = trivial /\ lastOp' = op

Raise(W, k) == [W EXCEPT !.faults = @ \cup {k}]
Cell(W, r, i) == IF i \in Slots THEN W.mem[r][i] ELSE None
Put(W, r, i, c) == IF i \in Slots THEN [W EXCEPT !.mem[r][i] = c] ELSE W

(* Every access to slot(i) is checked against the storage it lies in. *)
Access(W, r, i) ==
    IF r \in Blocks /\ W.heap[r] = 0 THEN Raise(W, "UseAfterFree")
    ELSE IF i < 0 \/ i >= Extent(W, r) THEN Raise(W, "OutOfBounds")
    ELSE W

(* new (slot(i)) T(x) *)
Construct(W, r, i, x) ==
    LET A == Access(W, r, i)
        B == IF ~trivial /\ Cell(A, r, i) # None
             THEN Raise(A, "ConstructOverLive") ELSE A
    IN  Put(B, r, i, x)

(* slot(i)->~T() *)
Destroy(W, r, i) ==
    LET A == Access(W, r, i)
        B == IF ~trivial /\ Cell(A, r, i) = None
             THEN Raise(A, "DoubleDestroy") ELSE A
    IN  Put(B, r, i, None)

(* Any use of the object in slot(i). *)
Use(W, r, i) ==
    LET A == Access(W, r, i)
    IN  IF Cell(A, r, i) = None THEN Raise(A, "UseOfDeadSlot") ELSE A

(* move(slot): the object stays alive, its value is taken. *)
MoveOut(W, r, i) == IF trivial THEN Use(W, r, i) ELSE Put(Use(W, r, i), r, i, Moved)

(* new (dst) T(move(src)) and new (dst) T(src) *)
MoveCell(W, dr, di, sr, si) == Construct(MoveOut(W, sr, si), dr, di, Cell(W, sr, si))
CopyCell(W, dr, di, sr, si) == Construct(Use(W, sr, si), dr, di, Cell(W, sr, si))

(* new (dst) T(move(src)); src.~T() -- the non-trivial element-wise move. *)
Relocate(W, dr, di, sr, si) == Destroy(MoveCell(W, dr, di, sr, si), sr, si)

(* Mutant: a transfer that always walks forwards, smearing the first     *)
(* source element over an upward-overlapping range.                      *)
TransferOrderForwards(dr, d0, sr, s0, n) == Up(0, n - 1)

(* The order TypedTransfer<T> walks n slots in: backwards when the       *)
(* destination overlaps the source from above.                           *)
TransferOrder(dr, d0, sr, s0, n) ==
    IF dr = sr /\ d0 > s0 THEN Down(n - 1, 0) ELSE Up(0, n - 1)

(* TypedTransfer<T>::move (how = "move") or ::copy (how = "copy") of n   *)
(* slots.                                                                *)
Transfer(W, dr, d0, sr, s0, n, how) ==
    ForEach(W, TransferOrder(dr, d0, sr, s0, n),
            LAMBDA w, k : IF how = "move" THEN MoveCell(w, dr, d0 + k, sr, s0 + k)
                                         ELSE CopyCell(w, dr, d0 + k, sr, s0 + k))

(* kfree: a block still holding live objects leaks them (they stay visible *)
(* in mem, owned by nobody).                                               *)
KFree(W, b) ==
    IF W.heap[b] = 0 THEN Raise(W, "DoubleFree")
    ELSE [W EXCEPT !.heap[b] = 0,
                   !.mem[b] = [i \in Slots |-> IF trivial THEN None ELSE @[i]]]

(***************************************************************************)
(* Member functions other operations call, as functions of the world.      *)
(***************************************************************************)

(* clear_with_capacity(): destroy every element, keep the storage. *)
DoClearWithCapacity(W, o) ==
    [ForEach(W, Up(0, W.size[o] - 1), LAMBDA w, k : Destroy(w, Data(W, o), k))
        EXCEPT !.size[o] = 0]

(* clear(): also free the outline buffer and reset_capacity(). *)
DoClear(W, o) ==
    LET A == DoClearWithCapacity(W, o)
        B == IF A.outline[o] # NULL
             THEN [KFree(A, A.outline[o]) EXCEPT !.outline[o] = NULL]
             ELSE A
    IN  [B EXCEPT !.capacity[o] = InlineCap]

(* try_ensure_capacity(n) with kmalloc returning b: it fails, changing     *)
(* nothing, exactly when capacity < n and b is NULL.                       *)
EnsureOk(W, o, n, b) == W.capacity[o] >= n \/ b # NULL

(* b is a possible result of the kmalloc the call makes: none (NULL) when  *)
(* the capacity suffices, else a free block or NULL for failure.           *)
Kmalloc(W, o, n, b) ==
    b \in IF W.capacity[o] >= n THEN {NULL}
           ELSE {NULL} \cup {f \in Blocks : W.heap[f] = 0}

DoEnsureCapacity(W, o, n, b) ==
    IF W.capacity[o] >= n THEN W
    ELSE LET A   == [W EXCEPT !.heap[b] = n]
             old == Data(W, o)
             B   == IF trivial
                    THEN Transfer(A, b, 0, old, 0, W.size[o], "copy")
                    ELSE ForEach(A, Up(0, W.size[o] - 1),
                                 LAMBDA w, k : Relocate(w, b, k, old, k))
             C   == IF W.outline[o] # NULL THEN KFree(B, W.outline[o]) ELSE B
         IN  [C EXCEPT !.outline[o] = b, !.capacity[o] = n]

(* try_grow_capacity(n): ensure the padded capacity when short of n. *)
DoGrowCapacity(W, o, n, b) ==
    IF W.capacity[o] >= n THEN W ELSE DoEnsureCapacity(W, o, Padded(n), b)

(* Mutant: the move leaves other's m_outline_buffer pointing at the block. *)
DoMoveFromKeepingOutline(W, o, other) ==
    LET A == [W EXCEPT !.size[o] = W.size[other],
                       !.capacity[o] = W.capacity[other],
                       !.outline[o] = W.outline[other]]
        B == IF InlineCap > 0 /\ W.outline[other] = NULL
             THEN ForEach(A, Up(0, W.size[other] - 1),
                          LAMBDA w, k : Relocate(w, o, k, other, k))
             ELSE A
    IN  [B EXCEPT !.size[other] = 0, !.capacity[other] = InlineCap]

(* The body of Vector(Vector&& other) and of operator=(Vector&&) after its *)
(* clear(): take other's size, capacity and outline buffer, move inline    *)
(* elements across one by one, and leave other empty with inline capacity.*)
DoMoveFrom(W, o, other) ==
    LET A == [W EXCEPT !.size[o] = W.size[other],
                       !.capacity[o] = W.capacity[other],
                       !.outline[o] = W.outline[other]]
        B == IF InlineCap > 0 /\ W.outline[other] = NULL
             THEN ForEach(A, Up(0, W.size[other] - 1),
                          LAMBDA w, k : Relocate(w, o, k, other, k))
             ELSE A
    IN  [B EXCEPT !.outline[other] = NULL, !.size[other] = 0,
                  !.capacity[other] = InlineCap]

(* operator=(Vector&&) *)
DoMoveAssign(W, o, other) ==
    IF o = other THEN W ELSE DoMoveFrom(DoClear(W, o), o, other)

(* Mutant: remove(index) whose shifting loop runs one slot past the end. *)
DoRemovePastEnd(W, o, i) ==
    LET d == Data(W, o)
        n == W.size[o]
        A == IF trivial
             THEN Transfer(W, d, i, d, i + 1, n - i, "copy")
             ELSE ForEach(Destroy(W, d, i), Up(i + 1, n),
                          LAMBDA w, k : Relocate(w, d, k - 1, d, k))
    IN  [A EXCEPT !.size[o] = n - 1]

(* remove(index) *)
DoRemove(W, o, i) ==
    LET d == Data(W, o)
        n == W.size[o]
        A == IF trivial
             THEN Transfer(W, d, i, d, i + 1, n - i - 1, "copy")
             ELSE ForEach(Destroy(W, d, i), Up(i + 1, n - 1),
                          LAMBDA w, k : Relocate(w, d, k - 1, d, k))
    IN  [A EXCEPT !.size[o] = n - 1]

(* remove(index, count), for count > 0 *)
DoRemoveCount(W, o, i, c) ==
    LET d == Data(W, o)
        n == W.size[o]
        A == IF trivial
             THEN Transfer(W, d, i, d, i + c, n - i - c, "copy")
             ELSE ForEach(ForEach(W, Up(i, i + c - 1), LAMBDA w, k : Destroy(w, d, k)),
                          Up(i + c, n - 1),
                          LAMBDA w, k : Relocate(w, d, k - c, d, k))
    IN  [A EXCEPT !.size[o] = n - c]

(* shrink(n, keep_capacity), for n <= size *)
DoShrink(W, o, n, keep) ==
    IF n = W.size[o] THEN W
    ELSE IF n = 0
    THEN IF keep THEN DoClearWithCapacity(W, o) ELSE DoClear(W, o)
    ELSE [ForEach(W, Up(n, W.size[o] - 1), LAMBDA w, k : Destroy(w, Data(W, o), k))
            EXCEPT !.size[o] = n]

(* take_last(): move the last element out, destroy its slot. *)
DoTakeLast(W, o) ==
    LET d == Data(W, o)
        l == W.size[o] - 1
    IN  [Destroy(MoveOut(W, d, l), d, l) EXCEPT !.size[o] = l]

(* Mutant: remove_all_matching advancing i after a removal as well. *)
RECURSIVE DoRemoveAllMatchingSkipping(_, _, _, _)
DoRemoveAllMatchingSkipping(W, o, P, i) ==
    IF i >= W.size[o] THEN W
    ELSE IF Cell(W, Data(W, o), i) \in P
    THEN DoRemoveAllMatchingSkipping(DoRemove(Use(W, Data(W, o), i), o, i), o, P, i + 1)
    ELSE DoRemoveAllMatchingSkipping(Use(W, Data(W, o), i), o, P, i + 1)

(* remove_all_matching(callback): the loop re-tests index i after a removal. *)
RECURSIVE DoRemoveAllMatching(_, _, _, _)
DoRemoveAllMatching(W, o, P, i) ==
    IF i >= W.size[o] THEN W
    ELSE IF Cell(W, Data(W, o), i) \in P
    THEN DoRemoveAllMatching(DoRemove(Use(W, Data(W, o), i), o, i), o, P, i)
    ELSE DoRemoveAllMatching(Use(W, Data(W, o), i), o, P, i + 1)

(***************************************************************************)
(* The public operations.  v and w range over Vectors, b is what kmalloc   *)
(* returns if the operation allocates: a free block, or NULL for failure.  *)
(***************************************************************************)
(* try_append(T&&) / append / try_empend *)
TryAppend(v, x, b) ==
    /\ size[v] < MaxSize
    /\ Kmalloc(World, v, size[v] + 1, b) /\ EnsureOk(World, v, size[v] + 1, b)
    /\ LET A == DoGrowCapacity(World, v, size[v] + 1, b)
       IN  Commit([Construct(A, Data(A, v), size[v], x) EXCEPT !.size[v] = @ + 1],
                  <<"append", v, x>>)

(* unchecked_append: VERIFY((size() + 1) <= capacity()) *)
UncheckedAppend(v, x) ==
    /\ size[v] < MaxSize /\ size[v] + 1 <= capacity[v]
    /\ Commit([Construct(World, Data(World, v), size[v], x) EXCEPT !.size[v] = @ + 1],
              <<"append", v, x>>)

(* try_insert(index, value) / insert / try_prepend(T) / insert_before_matching *)
TryInsert(v, i, x, b) ==
    /\ i < size[v] /\ size[v] < MaxSize
    /\ Kmalloc(World, v, size[v] + 1, b) /\ EnsureOk(World, v, size[v] + 1, b)
    /\ LET A == [DoGrowCapacity(World, v, size[v] + 1, b) EXCEPT !.size[v] = @ + 1]
           d == Data(A, v)
           n == A.size[v]
           B == IF trivial
                THEN Transfer(A, d, i + 1, d, i, n - i - 1, "move")
                ELSE ForEach(A, Down(n - 1, i + 1),
                             LAMBDA w, k : Relocate(w, d, k, d, k - 1))
       IN  Commit(Construct(B, d, i, x), <<"insert", v, i, x>>)

(* remove(index) / remove_first_matching *)
Remove(v, i) == i < size[v] /\ Commit(DoRemove(World, v, i), <<"remove", v, i>>)

(* remove(index, count) *)
RemoveCount(v, i, c) ==
    /\ c > 0 /\ i + c <= size[v]
    /\ Commit(DoRemoveCount(World, v, i, c), <<"remove_count", v, i, c>>)

(* take(index) / take_first(): move the element out, then remove(index). *)
Take(v, i) ==
    /\ i < size[v]
    /\ Commit(DoRemove(MoveOut(World, Data(World, v), i), v, i), <<"take", v, i>>)

(* Mutant: take_last() without its VERIFY(!is_empty()). *)
TakeLastUnchecked(v) == Commit(DoTakeLast(World, v), <<"take_last", v>>)

TakeLast(v) == size[v] > 0 /\ Commit(DoTakeLast(World, v), <<"take_last", v>>)

(* unstable_take(index): swap with the last element, then take_last(). *)
UnstableTake(v, i) ==
    /\ i < size[v]
    /\ LET d == Data(World, v)
           l == size[v] - 1
           A == Use(Use(World, d, i), d, l)
           B == Put(Put(A, d, i, Cell(A, d, l)), d, l, Cell(A, d, i))
       IN  Commit(DoTakeLast(B, v), <<"unstable_take", v, i>>)

RemoveAllMatching(v, P) == Commit(DoRemoveAllMatching(World, v, P, 0), <<"remove_all_matching", v, P>>)

(* try_append(Vector&&): other is moved into tmp before the allocation, so *)
(* a failure destroys other's elements when tmp goes out of scope.         *)
TryAppendVector(v, w, b) ==
    /\ v # w /\ size[v] + size[w] <= MaxSize
    /\ IF size[v] = 0
       THEN b = NULL /\ Commit(DoMoveAssign(World, v, w), <<"append_vector", v, w, TRUE>>)
       ELSE LET n == size[w]
                A == DoMoveFrom(World, Tmp, w)
            IN  Kmalloc(A, v, size[v] + n, b) /\
                IF ~EnsureOk(A, v, size[v] + n, b)
                THEN Commit(DoClear(A, Tmp), <<"append_vector", v, w, FALSE>>)
                ELSE LET B == DoGrowCapacity(A, v, size[v] + n, b)
                         C == Transfer(B, Data(B, v), size[v], Data(B, Tmp), 0, n, "move")
                     IN  Commit(DoClear([C EXCEPT !.size[v] = @ + n], Tmp),
                                <<"append_vector", v, w, TRUE>>)

(* try_append(const Vector&): w may be v itself. *)
TryAppendCopy(v, w, b) ==
    /\ size[v] + size[w] <= MaxSize
    /\ Kmalloc(World, v, size[v] + size[w], b) /\ EnsureOk(World, v, size[v] + size[w], b)
    /\ LET A == DoGrowCapacity(World, v, size[v] + size[w], b)
           B == Transfer(A, Data(A, v), size[v], Data(A, w), 0, size[w], "copy")
       IN  Commit([B EXCEPT !.size[v] = @ + A.size[w]], <<"append_copy", v, w>>)

(* try_prepend(Vector&&): shift this up by other's size, then move other in. *)
TryPrependVector(v, w, b) ==
    /\ v # w /\ size[w] > 0 /\ size[v] + size[w] <= MaxSize
    /\ IF size[v] = 0
       THEN b = NULL /\ Commit(DoMoveAssign(World, v, w), <<"prepend_vector", v, w>>)
       ELSE LET n == size[w]
            IN  /\ Kmalloc(World, v, size[v] + n, b) /\ EnsureOk(World, v, size[v] + n, b)
                /\ LET A == DoGrowCapacity(World, v, size[v] + n, b)
                       d == Data(A, v)
                       B == ForEach(A, Down(size[v] + n - 1, n),
                                    LAMBDA w2, k : Relocate(w2, d, k, d, k - n))
                       C == DoMoveFrom(B, Tmp, w)
                       D == Transfer(C, d, 0, Data(C, Tmp), 0, n, "move")
                   IN  Commit(DoClear([D EXCEPT !.size[v] = @ + n], Tmp),
                              <<"prepend_vector", v, w>>)

(* try_append(const T* values, count): values is the caller's array s. *)
TryAppendValues(v, s, b) ==
    /\ Kmalloc(World, v, size[v] + Len(s), b) /\ EnsureOk(World, v, size[v] + Len(s), b)
    /\ LET A == DoGrowCapacity(World, v, size[v] + Len(s), b)
           B == ForEach(A, Up(0, Len(s) - 1),
                        LAMBDA w, k : Construct(w, Data(A, v), size[v] + k, s[k + 1]))
       IN  Commit([B EXCEPT !.size[v] = @ + Len(s)], <<"append_values", v, s>>)

(* try_prepend(const T* values, count) *)
TryPrependValues(v, s, b) ==
    /\ Kmalloc(World, v, size[v] + Len(s), b) /\ EnsureOk(World, v, size[v] + Len(s), b)
    /\ LET A == DoGrowCapacity(World, v, size[v] + Len(s), b)
           d == Data(A, v)
           B == Transfer(A, d, Len(s), d, 0, size[v], "move")
           C == ForEach(B, Up(0, Len(s) - 1),
                        LAMBDA w, k : Construct(w, d, k, s[k + 1]))
       IN  Commit([C EXCEPT !.size[v] = @ + Len(s)], <<"prepend_values", v, s>>)

(* try_ensure_capacity / ensure_capacity *)
EnsureCapacity(v, n, b) ==
    Kmalloc(World, v, n, b) /\ EnsureOk(World, v, n, b) /\ Commit(DoEnsureCapacity(World, v, n, b), <<"reserve", v>>)

(* try_grow_capacity / grow_capacity *)
GrowCapacity(v, n, b) ==
    Kmalloc(World, v, n, b) /\ EnsureOk(World, v, n, b) /\ Commit(DoGrowCapacity(World, v, n, b), <<"reserve", v>>)

Clear(v) == Commit(DoClear(World, v), <<"clear", v>>)
ClearWithCapacity(v) == Commit(DoClearWithCapacity(World, v), <<"clear", v>>)

(* shrink(new_size, keep_capacity): VERIFY(new_size <= size()) *)
Shrink(v, n, keep) == n <= size[v] /\ Commit(DoShrink(World, v, n, keep), <<"shrink", v, n>>)

(* try_resize(new_size, keep_capacity): grows by default-constructed T, *)
(* which for a trivial T is whatever the storage held (any value g).    *)
TryResize(v, n, keep, g, b) ==
    IF n <= size[v] THEN b = NULL /\ Commit(DoShrink(World, v, n, keep), <<"resize", v, n, g>>)
    ELSE /\ Kmalloc(World, v, n, b) /\ EnsureOk(World, v, n, b)
         /\ LET A == DoEnsureCapacity(World, v, n, b)
                B == ForEach(A, Up(size[v], n - 1),
                             LAMBDA w, k : Construct(w, Data(A, v), k, g))
            IN  Commit([B EXCEPT !.size[v] = n], <<"resize", v, n, g>>)

MoveAssign(v, w) == Commit(DoMoveAssign(World, v, w), <<"move_assign", v, w>>)

(* operator=(const Vector&): clear(), then the strict ensure_capacity,     *)
(* whose allocation failure aborts.                                        *)
CopyAssign(v, w, b) ==
    /\ v # w
    /\ LET A == DoClear(World, v)
       IN  /\ Kmalloc(A, v, size[w], b) /\ EnsureOk(A, v, size[w], b)
           /\ LET B == DoEnsureCapacity(A, v, size[w], b)
                  C == Transfer(B, Data(B, v), 0, Data(B, w), 0, size[w], "copy")
              IN  Commit([C EXCEPT !.size[v] = size[w]], <<"copy_assign", v, w>>)

(***************************************************************************)
(* A vector is default-constructed (capacity inline_capacity) or made by   *)
(* the copy or initializer-list constructor from nothing, which leave      *)
(* m_capacity at its member initializer 0.                                 *)
(***************************************************************************)
Init ==
    /\ size = [o \in Objs |-> 0]
    /\ capacity \in {c \in [Objs -> {0, InlineCap}] : c[Tmp] = InlineCap}
    /\ outline = [o \in Objs |-> NULL]
    /\ mem = [r \in Regions |-> [i \in Slots |-> None]]
    /\ heap = [b \in Blocks |-> 0]
    /\ faults = {}
    /\ trivial \in Kinds
    /\ lastOp = <<"none">>

Values(n) == UNION {[1..k -> Val] : k \in 1..n}

Alloc == Blocks \cup {NULL}
Idx   == 0..MaxSize

Next ==
    \E v \in Vectors :
        \/ \E x \in Val, b \in Alloc : TryAppend(v, x, b)
        \/ \E x \in Val : UncheckedAppend(v, x)
        \/ \E i \in Idx, x \in Val, b \in Alloc : TryInsert(v, i, x, b)
        \/ \E i \in Idx : Remove(v, i) \/ Take(v, i) \/ UnstableTake(v, i)
        \/ \E i \in Idx, c \in 1..MaxSize : RemoveCount(v, i, c)
        \/ TakeLast(v)
        \/ \E P \in SUBSET Val : RemoveAllMatching(v, P)
        \/ \E w \in Vectors, b \in Alloc :
              \/ TryAppendVector(v, w, b)
              \/ TryAppendCopy(v, w, b)
              \/ TryPrependVector(v, w, b)
              \/ CopyAssign(v, w, b)
        \/ \E w \in Vectors : MoveAssign(v, w)
        \/ \E s \in Values(MaxSize - size[v]), b \in Alloc :
              TryAppendValues(v, s, b) \/ TryPrependValues(v, s, b)
        \/ \E n \in 0..MaxLen, b \in Alloc : EnsureCapacity(v, n, b)
        \/ \E i \in Idx, b \in Alloc : GrowCapacity(v, i, b)
        \/ Clear(v)
        \/ ClearWithCapacity(v)
        \/ \E i \in Idx, keep \in BOOLEAN : Shrink(v, i, keep)
        \/ \E i \in Idx, keep \in BOOLEAN, b \in Alloc,
              g \in IF trivial THEN Val ELSE {Default} : TryResize(v, i, keep, g, b)

Spec == Init /\ [][Next]_vars

(***************************************************************************)
(* The read-only members (Vector.h 129-189, 367-389, 670-677) read through *)
(* at(i), which VERIFYs i < m_size: a read past the end is Abort.  T's     *)
(* equality (Traits<T>::equals, TypedTransfer<T>::compare) is equality of  *)
(* values; a callback is the set P of values it accepts.                   *)
(***************************************************************************)
(* The elements of v, data()[0..size). *)
Contents(v) == [k \in 1..size[v] |-> Cell(World, Data(World, v), k - 1)]

at(v, i) == IF 0 <= i /\ i < size[v] THEN Cell(World, Data(World, v), i) ELSE "Abort"

(* first_matching: i counts up from 0 while i < size(). *)
RECURSIVE FirstMatchingFrom(_, _, _)
FirstMatchingFrom(v, P, i) ==
    IF i >= size[v] THEN None
    ELSE IF at(v, i) \in P \cup {"Abort"} THEN at(v, i)
    ELSE FirstMatchingFrom(v, P, i + 1)

first_matching(v, P) == FirstMatchingFrom(v, P, 0)

(* Mutant: the reverse loop stopping at i > 0. *)
RECURSIVE LastMatchingFromSkipFirst(_, _, _)
LastMatchingFromSkipFirst(v, P, i) ==
    IF i <= 0 THEN None
    ELSE IF at(v, i) \in P \cup {"Abort"} THEN at(v, i)
    ELSE LastMatchingFromSkipFirst(v, P, i - 1)

(* last_matching: ssize_t i counts down from size() - 1 while i >= 0, so *)
(* an empty vector starts at -1 and reads nothing.                       *)
RECURSIVE LastMatchingFrom(_, _, _)
LastMatchingFrom(v, P, i) ==
    IF i < 0 THEN None
    ELSE IF at(v, i) \in P \cup {"Abort"} THEN at(v, i)
    ELSE LastMatchingFrom(v, P, i - 1)

last_matching(v, P) == LastMatchingFrom(v, P, size[v] - 1)

(* contains_slow(value), and find_first_index(value): AK::find_index gives *)
(* the first index holding value, or size() when there is none.          *)
contains_slow(v, x) == first_matching(v, {x}) # None

RECURSIVE FindIndexFrom(_, _, _)
FindIndexFrom(v, x, i) ==
    IF i >= size[v] \/ at(v, i) = x THEN i ELSE FindIndexFrom(v, x, i + 1)

(* find(value): the iterator AK::find stops at, its index; end() is size(). *)
find(v, x) == FindIndexFrom(v, x, 0)

find_first_index(v, x) ==
    LET index == find(v, x) IN IF index < size[v] THEN index ELSE None

(* first() is at(0) and last() at(size() - 1): on an empty vector the     *)
(* size_t index wraps and at()'s VERIFY aborts.                           *)
first(v) == at(v, 0)
last(v) == at(v, size[v] - 1)
is_empty(v) == size[v] = 0

(* operator==: sizes first, then the elements pairwise. *)
equals(v, w) ==
    /\ size[v] = size[w]
    /\ \A i \in 0..(size[v] - 1) : at(v, i) = at(w, i)

(***************************************************************************)
(* Properties                                                              *)
(***************************************************************************)
TypeOK ==
    /\ size \in [Objs -> 0..MaxSize]
    /\ capacity \in [Objs -> 0..MaxLen]
    /\ outline \in [Objs -> Blocks \cup {NULL}]
    /\ mem \in [Regions -> [Slots -> Cells]]
    /\ heap \in [Blocks -> 0..MaxLen]
    /\ faults \subseteq {"OutOfBounds", "UseAfterFree", "DoubleFree", "DoubleDestroy",
                         "UseOfDeadSlot", "ConstructOverLive"}
    /\ trivial \in Kinds

(* Memory safety of every operation: no slot outside the inline buffer or  *)
(* the kmalloc'd block is touched (the size/capacity/outline bookkeeping   *)
(* of the growth, move and shift code), no freed block is read or freed    *)
(* again, no element is destroyed twice and no dead slot is read.         *)
NoUndefinedBehaviour ==
    faults \cap {"OutOfBounds", "UseAfterFree", "DoubleFree", "DoubleDestroy",
                 "UseOfDeadSlot"} = {}

(* Ownership after every operation: each allocated block is the outline    *)
(* buffer of exactly one vector and nothing points at a freed block (move  *)
(* construction/assignment hand the pointer over and null the source);     *)
(* tmp is empty again; and for a non-trivial T the live objects are        *)
(* exactly the first size slots of each vector's data(), so no element is  *)
(* leaked in a freed or abandoned buffer and none is duplicated.           *)
OwnershipExact ==
    /\ \A b \in Blocks : heap[b] > 0 <=> \E o \in Objs : outline[o] = b
    /\ \A o1, o2 \in Objs : o1 # o2 /\ outline[o1] # NULL => outline[o1] # outline[o2]
    /\ size[Tmp] = 0 /\ outline[Tmp] = NULL
    /\ ~trivial =>
         \A r \in Regions, i \in Slots :
            mem[r][i] # None <=> Live(World, r, i)

(* No placement new lands on a slot whose object is still alive (its      *)
(* destructor would never run).                                           *)
NoObjectOverwritten == "ConstructOverLive" \notin faults

(* Vector's searches and comparison report what the elements, read from   *)
(* data()[0..size) as the refinement reads them, say: the first and the   *)
(* last element a callback accepts (the reverse loop reaching index 0 and *)
(* reading nothing of an empty vector), membership, the first index of a  *)
(* value (find's iterator, end() when absent), first() and last() (which  *)
(* abort on an empty vector), emptiness, and equality of two vectors; and *)
(* no search reads past the end.                                           *)
QueriesAgree ==
    \A v \in Vectors :
        LET s == Contents(v)
            Hits(P) == {k \in DOMAIN s : s[k] \in P}
            Lowest(K) == CHOOSE k \in K : \A j \in K : k <= j
            Highest(K) == CHOOSE k \in K : \A j \in K : k >= j
        IN
        /\ \A P \in SUBSET Val :
              /\ first_matching(v, P) = IF Hits(P) = {} THEN None ELSE s[Lowest(Hits(P))]
              /\ last_matching(v, P) = IF Hits(P) = {} THEN None ELSE s[Highest(Hits(P))]
        /\ is_empty(v) = (s = <<>>)
        /\ first(v) = IF s = <<>> THEN "Abort" ELSE s[1]
        /\ last(v) = IF s = <<>> THEN "Abort" ELSE s[Len(s)]
        /\ \A x \in Val :
              /\ contains_slow(v, x) = (Hits({x}) # {})
              /\ find(v, x) = IF Hits({x}) = {} THEN Len(s) ELSE Lowest(Hits({x})) - 1
              /\ find_first_index(v, x) = IF Hits({x}) = {} THEN None ELSE Lowest(Hits({x})) - 1
        /\ \A w \in Vectors : equals(v, w) = (s = Contents(w))

(* Refinement: the elements of each vector, read from data()[0..size),    *)
(* change exactly as VectorSeq says the member function just called        *)
(* (lastOp) changes them: every shift, block copy, relocation and          *)
(* tmp hand-over of the code lands each element where the call promises.   *)
Abstract == INSTANCE VectorSeq WITH seqs <- [v \in Vectors |-> Contents(v)], lastOp <- lastOp
ImplementsVectorSeq == Abstract!Spec
=============================================================================
