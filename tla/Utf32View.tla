------------------------------ MODULE Utf32View ------------------------------
(***************************************************************************)
(* AK::Utf32View and Utf32CodepointIterator (src/AK/Utf32View.h) over one *)
(* buffer of N code points.  A pointer is an address: nullptr is 0 and     *)
(* the buffer's code points are at 1..N.  view[v] is a view's              *)
(* m_code_points and m_length, iter[i] an iterator's m_ptr and m_length.   *)
(*                                                                         *)
(* The program keeps the contract the VERIFYs state: it takes substrings  *)
(* within the view, and it dereferences, increments or asks the offset of *)
(* an iterator only while the iterator differs from its view's end().     *)
(* ghost[v] is the text view v stands for, and an iterator remembers the  *)
(* view it came from (src) and how many code points it has passed (k);  *)
(* a default-constructed iterator (m_ptr nullptr, m_length -1) has no    *)
(* view (src = NoView) and the program only assigns to it.              *)
(***************************************************************************)
EXTENDS Integers, Sequences, SequencesExt

CONSTANTS N, Views, Iters

VARIABLES view, ghost, iter, faults

vars == <<view, ghost, iter, faults>>

(* The code point at address a. *)
Buf(a) == 100 + a

Buffer == [k \in 1..N |-> Buf(k)]

Verify(c, kind) == IF c THEN {} ELSE {kind}

(* The code points a view reads: m_length of them from m_code_points. *)
Content(w) == [k \in 1..w.len |-> Buf(w.ptr + k - 1)]

(* Utf32View(code_points, length), and Utf32View() = nullptr, 0. *)
MakeView(ptr, len) == [ptr |-> ptr, len |-> len]

EndKeepingLength(w) == [ptr |-> w.ptr + w.len, len |-> w.len]

(* begin() and end(). *)
begin(w) == [ptr |-> w.ptr, len |-> w.len]
end(w)   == [ptr |-> w.ptr + w.len, len |-> 0]

SameIterator(a, b) == a.ptr = b.ptr /\ a.len = b.len

done(it) == it.len = 0

(* The src of an iterator no view has been assigned to. *)
NoView == [ptr |-> 0, len |-> -1]

Init ==
    /\ view = [v \in Views |-> MakeView(0, 0)]
    /\ ghost = [v \in Views |-> <<>>]
    /\ iter = [i \in Iters |-> [ptr |-> 0, len |-> -1, src |-> NoView,
                                 text |-> <<>>, k |-> 0]]
    /\ faults = {}

(* v = Utf32View(buffer + off, len) over part of the buffer. *)
ViewOfBuffer(v, off, len) ==
    /\ off + len <= N
    /\ view' = [view EXCEPT ![v] = MakeView(1 + off, len)]
    /\ ghost' = [ghost EXCEPT ![v] = SubSeq(Buffer, off + 1, off + len)]
    /\ faults' = faults \cup Verify(1 + off # 0 \/ len = 0, "verify")
    /\ UNCHANGED iter

(***************************************************************************)
(* w = view[v].substring_view(off, len): an empty view for length 0,      *)
(* otherwise the VERIFYs and Utf32View(m_code_points + off, len).  The   *)
(* sum of two numbers no larger than N does not overflow size_t.         *)
(***************************************************************************)
SubstringNoEarlyReturn(x, off, len) ==
    <<MakeView(x.ptr + off, len),
      Verify(off < x.len, "verify") \cup Verify(off + len <= x.len, "verify")>>

substring_view(x, off, len) ==
    IF len = 0 THEN <<MakeView(0, 0), {}>>
    ELSE <<MakeView(x.ptr + off, len),
           Verify(off < x.len, "verify") \cup Verify(off + len <= x.len, "verify")>>

Substring(w, v, off, len) ==
    /\ off + len <= view[v].len
    /\ LET r == substring_view(view[v], off, len)
       IN  /\ view' = [view EXCEPT ![w] = r[1]]
           /\ faults' = faults \cup r[2]
    /\ ghost' = [ghost EXCEPT ![w] = SubSeq(ghost[v], off + 1, off + len)]
    /\ UNCHANGED iter

(* i = view[v].begin() or view[v].end(). *)
Begin(i, v) ==
    /\ iter' = [iter EXCEPT ![i] = [ptr |-> begin(view[v]).ptr, len |-> begin(view[v]).len,
                                    src |-> view[v], text |-> ghost[v], k |-> 0]]
    /\ UNCHANGED <<view, ghost, faults>>

End(i, v) ==
    /\ iter' = [iter EXCEPT ![i] = [ptr |-> end(view[v]).ptr, len |-> end(view[v]).len,
                                    src |-> view[v], text |-> ghost[v], k |-> Len(ghost[v])]]
    /\ UNCHANGED <<view, ghost, faults>>

(* The iterator came from a view and is not that view's end(): the      *)
(* caller's loop condition.                                               *)
Live(i) == iter[i].src # NoView /\ ~SameIterator(iter[i], end(iter[i].src))

(* ++it: VERIFY(m_length > 0); m_ptr++; m_length--. *)
IncrementPtrOnly(it) == [it EXCEPT !.ptr = @ + 1]

increment(it) == [it EXCEPT !.ptr = @ + 1, !.len = @ - 1]

Increment(i) ==
    /\ Live(i)
    /\ faults' = faults \cup Verify(iter[i].len > 0, "verify")
    /\ iter' = [iter EXCEPT ![i] = [increment(@) EXCEPT !.k = @ + 1]]
    /\ UNCHANGED <<view, ghost>>

(* *it: VERIFY(m_length > 0); the code point at m_ptr, which must be the *)
(* next one of the text the iterator's view stands for.                  *)
Deref(i) ==
    LET it == iter[i]
    IN  /\ Live(i)
        /\ faults' = faults \cup Verify(it.len > 0, "verify")
                            \cup Verify(it.ptr \in 1..N, "out_of_bounds")
                            \cup Verify(it.k < Len(it.text)
                                        /\ Buf(it.ptr) = it.text[it.k + 1], "wrong")
        /\ UNCHANGED <<view, ghost, iter>>

(* view.iterator_offset(it), for the view the iterator came from. *)
IteratorOffset(i) ==
    LET it == iter[i]
        w  == it.src
    IN  /\ Live(i)
        /\ faults' = faults \cup Verify(it.ptr >= w.ptr, "verify")
                            \cup Verify(it.ptr < w.ptr + w.len, "verify")
                            \cup Verify(it.ptr - w.ptr = it.k, "wrong")
        /\ UNCHANGED <<view, ghost, iter>>

(* it - other: m_ptr - other.m_ptr, for two iterators of the same view, *)
(* which must be the number of code points between them.               *)
Difference(i, j) ==
    /\ iter[i].src # NoView /\ iter[i].src = iter[j].src
    /\ faults' = faults \cup Verify(iter[i].ptr - iter[j].ptr = iter[i].k - iter[j].k, "wrong")
    /\ UNCHANGED <<view, ghost, iter>>

Next ==
    \/ \E v \in Views, off, len \in 0..N : ViewOfBuffer(v, off, len)
    \/ \E v, w \in Views, off, len \in 0..N : Substring(w, v, off, len)
    \/ \E i \in Iters :
          \/ Increment(i) \/ Deref(i) \/ IteratorOffset(i)
          \/ \E v \in Views : Begin(i, v) \/ End(i, v)
          \/ \E j \in Iters : Difference(i, j)

Spec == Init /\ [][Next]_vars

(***************************************************************************)
(* Properties.                                                            *)
(***************************************************************************)
ViewRecords == [ptr : 0..N + 1, len : 0..N]
TypeOK ==
    /\ view \in [Views -> ViewRecords]
    /\ ghost \in [Views -> Seq(1..N + 100)]
    /\ \A i \in Iters : iter[i].ptr \in 0..N + 1 /\ iter[i].len \in -1..N
                        /\ iter[i].k \in 0..N
    /\ faults \subseteq {"verify", "out_of_bounds", "wrong"}

(* A program that keeps the contract never trips a VERIFY: substrings of  *)
(* every offset and length within the view, the empty ones at the view's *)
(* end included, and the range-for loop over begin() and end().          *)
NoVerifyFailure == "verify" \notin faults

(* Every view, made directly or by substrings of substrings, reads the     *)
(* text it stands for; a loop from begin() to end() reads that text in    *)
(* order, one code point per step, never outside the buffer; an iterator *)
(* is done() exactly when it equals its view's end(), and                *)
(* iterator_offset counts the steps taken.                                *)
IterationFaithful ==
    /\ faults \cap {"out_of_bounds", "wrong"} = {}
    /\ \A v \in Views : Content(view[v]) = ghost[v]
    /\ \A i \in Iters : iter[i].src # NoView => (done(iter[i]) <=> ~Live(i))
=============================================================================
