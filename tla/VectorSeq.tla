----------------------------- MODULE VectorSeq -----------------------------
(***************************************************************************)
(* What each member function of AK::Vector promises its caller: each       *)
(* vector is a sequence of elements, and each call is a named sequence     *)
(* operation.  lastOp names the call just made and its arguments, so a     *)
(* step of an implementation must do what that particular call promises,  *)
(* not merely something some call could have done.  Storage and capacity  *)
(* are invisible here: capacity-only calls change no sequence.  A fallible *)
(* call whose allocation fails changes nothing, except                     *)
(* try_append(Vector&&), which has already moved the source away when it   *)
(* fails and so returns false with the source emptied.                     *)
(***************************************************************************)
EXTENDS Naturals, Sequences, SequencesExt

CONSTANTS Vectors, Val, MaxSize

VARIABLES seqs, lastOp

Elems(n) == UNION {[1..k -> Val] : k \in 0..n}

TypeOK == seqs \in [Vectors -> Elems(MaxSize)]

Init == seqs = [v \in Vectors |-> <<>>] /\ lastOp = <<"none">>

Set(v, s) == seqs' = [seqs EXCEPT ![v] = s]
Splice(v, w, s) == seqs' = [seqs EXCEPT ![v] = s, ![w] = <<>>]

Append1(v, x) == lastOp' = <<"append", v, x>> /\ Set(v, Append(seqs[v], x))

Insert(v, i, x) ==
    /\ lastOp' = <<"insert", v, i, x>>
    /\ i < Len(seqs[v])
    /\ Set(v, InsertAt(seqs[v], i + 1, x))

RemoveOne(v, i, name) ==
    /\ lastOp' = <<name, v, i>>
    /\ i < Len(seqs[v])
    /\ Set(v, RemoveAt(seqs[v], i + 1))

RemoveRange(v, i, c) ==
    /\ lastOp' = <<"remove_count", v, i, c>>
    /\ c > 0 /\ i + c <= Len(seqs[v])
    /\ Set(v, SubSeq(seqs[v], 1, i) \o SubSeq(seqs[v], i + c + 1, Len(seqs[v])))

TakeLast(v) ==
    /\ lastOp' = <<"take_last", v>>
    /\ seqs[v] # <<>>
    /\ Set(v, Front(seqs[v]))

(* The last element takes the place of element i. *)
UnstableTake(v, i) ==
    /\ lastOp' = <<"unstable_take", v, i>>
    /\ i < Len(seqs[v])
    /\ Set(v, Front(ReplaceAt(seqs[v], i + 1, Last(seqs[v]))))

RemoveAllMatching(v, P) ==
    /\ lastOp' = <<"remove_all_matching", v, P>>
    /\ Set(v, SelectSeq(seqs[v], LAMBDA x : x \notin P))

(* On success v is followed by w's elements; either way w is emptied. *)
AppendVector(v, w, ok) ==
    /\ lastOp' = <<"append_vector", v, w, ok>>
    /\ v # w
    /\ Splice(v, w, IF ok THEN seqs[v] \o seqs[w] ELSE seqs[v])

AppendCopy(v, w) == lastOp' = <<"append_copy", v, w>> /\ Set(v, seqs[v] \o seqs[w])

PrependVector(v, w) ==
    /\ lastOp' = <<"prepend_vector", v, w>>
    /\ v # w /\ seqs[w] # <<>>
    /\ Splice(v, w, seqs[w] \o seqs[v])

AppendValues(v, s)  == lastOp' = <<"append_values", v, s>> /\ Set(v, seqs[v] \o s)
PrependValues(v, s) == lastOp' = <<"prepend_values", v, s>> /\ Set(v, s \o seqs[v])

Reserve(v) == lastOp' = <<"reserve", v>> /\ UNCHANGED seqs

Clear(v) == lastOp' = <<"clear", v>> /\ Set(v, <<>>)

Shrink(v, n) ==
    /\ lastOp' = <<"shrink", v, n>>
    /\ n <= Len(seqs[v])
    /\ Set(v, SubSeq(seqs[v], 1, n))

(* resize(n): truncate, or extend by default-constructed elements g. *)
Resize(v, n, g) ==
    /\ lastOp' = <<"resize", v, n, g>>
    /\ Set(v, IF n <= Len(seqs[v]) THEN SubSeq(seqs[v], 1, n)
              ELSE seqs[v] \o [k \in 1..(n - Len(seqs[v])) |-> g])

MoveAssign(v, w) ==
    /\ lastOp' = <<"move_assign", v, w>>
    /\ IF v = w THEN UNCHANGED seqs ELSE Splice(v, w, seqs[w])

CopyAssign(v, w) == lastOp' = <<"copy_assign", v, w>> /\ v # w /\ Set(v, seqs[w])

Idx == 0..MaxSize

Next ==
    \E v \in Vectors :
        \/ \E x \in Val : Append1(v, x)
        \/ \E i \in Idx, x \in Val : Insert(v, i, x)
        \/ \E i \in Idx : \/ RemoveOne(v, i, "remove") \/ RemoveOne(v, i, "take")
                          \/ UnstableTake(v, i) \/ Shrink(v, i)
        \/ \E i \in Idx, c \in Idx : RemoveRange(v, i, c)
        \/ TakeLast(v)
        \/ Reserve(v)
        \/ Clear(v)
        \/ \E P \in SUBSET Val : RemoveAllMatching(v, P)
        \/ \E i \in Idx, g \in Val : Resize(v, i, g)
        \/ \E w \in Vectors :
              \/ \E ok \in BOOLEAN : AppendVector(v, w, ok)
              \/ AppendCopy(v, w) \/ PrependVector(v, w)
              \/ MoveAssign(v, w) \/ CopyAssign(v, w)
        \/ \E s \in Elems(MaxSize - Len(seqs[v])) : AppendValues(v, s) \/ PrependValues(v, s)

Spec == Init /\ [][Next]_<<seqs, lastOp>>
=============================================================================
