-------------------------- MODULE InlineLinkedList --------------------------
(***************************************************************************)
(* AK::InlineLinkedList<T> (src/AK/InlineLinkedList.h): an intrusive      *)
(* doubly linked list.  Each list holds m_head and m_tail; each node      *)
(* embeds m_prev and m_next.  Nodes are model values and NULL is nullptr. *)
(*                                                                         *)
(* A member function is one action.  Its body is a composition of         *)
(* operators on a record W of all variables, each operator one statement  *)
(* of the C++, applied in the order the C++ performs them, so a pointer   *)
(* read after a write sees that write.  A failed VERIFY, and a read or    *)
(* write through a null pointer, is recorded in faults.  A write through  *)
(* null also lands in the "null page": it adds NULL to the domain of the  *)
(* link function written, which is how TypeOK sees it.                    *)
(***************************************************************************)
EXTENDS Naturals, Sequences, FiniteSets, TLC

CONSTANTS Lists, Nodes, NULL,
          SelfSplice    \* whether a caller may call l.append(l)

ASSUME NULL \notin Nodes /\ SelfSplice \in BOOLEAN

VARIABLES head, tail, prev, next, faults, lastOp

vars == <<head, tail, prev, next, faults, lastOp>>

Ptr == Nodes \cup {NULL}

Faults == {"verify_failed", "null_deref"}

World == [head |-> head, tail |-> tail, prev |-> prev, next |-> next,
          faults |-> faults]

Commit(W, op) ==
    /\ head' = W.head /\ tail' = W.tail
    /\ prev' = W.prev /\ next' = W.next
    /\ faults' = W.faults
    /\ lastOp' = op

Fault(W, f) == [W EXCEPT !.faults = @ \cup {f}]

(* VERIFY(c): the process aborts when c is false. *)
Verify(W, c) == IF c THEN W ELSE Fault(W, "verify_failed")

(* Dereferencing p, to read or write one of its links. *)
Deref(W, p) == IF p = NULL THEN Fault(W, "null_deref") ELSE W

PrevOf(W, n) == IF n \in DOMAIN W.prev THEN W.prev[n] ELSE NULL
NextOf(W, n) == IF n \in DOMAIN W.next THEN W.next[n] ELSE NULL

SetPrev(W, n, p) == [Deref(W, n) EXCEPT !.prev = (n :> p) @@ @]
SetNext(W, n, p) == [Deref(W, n) EXCEPT !.next = (n :> p) @@ @]

(***************************************************************************)
(* The list as iteration sees it: the nodes reached from m_head along     *)
(* next() until null (contains_slow, size_slow, for_each).  The walk is   *)
(* cut after one step more than there are nodes, so a cycle shows up as a *)
(* repeated node instead of an endless walk.                              *)
(***************************************************************************)
(* InlineLinkedListIterator: begin() is Iterator(m_head), end() the null *)
(* iterator, and ++ is m_node = m_node->next().                          *)
begin(l) == head[l]

Advance(W, p) == NextOf(W, p)

RECURSIVE Chain(_, _)
Chain(p, k) ==
    IF p = NULL \/ k = 0 THEN <<>> ELSE <<p>> \o Chain(Advance(World, p), k - 1)

Walk(l) == Chain(begin(l), Cardinality(Nodes) + 1)

Members(l) == {Walk(l)[i] : i \in DOMAIN Walk(l)}

Linked == UNION {Members(l) : l \in Lists}

Init ==
    /\ head = [l \in Lists |-> NULL]
    /\ tail = [l \in Lists |-> NULL]
    /\ prev = [n \in Nodes |-> NULL]
    /\ next = [n \in Nodes |-> NULL]
    /\ faults = {}
    /\ lastOp = <<"none">>

(***************************************************************************)
(* The member functions, as operators on W.                               *)
(***************************************************************************)
DoClear(W, l) == [W EXCEPT !.head[l] = NULL, !.tail[l] = NULL]

DoPrepend(W, l, n) ==
    IF W.head[l] = NULL
    THEN LET W1 == [Verify(W, W.tail[l] = NULL) EXCEPT !.head[l] = n, !.tail[l] = n]
         IN  SetNext(SetPrev(W1, n, NULL), n, NULL)
    ELSE LET W1 == SetPrev(Verify(W, W.tail[l] # NULL), W.head[l], n)
             W2 == SetPrev(SetNext(W1, n, W1.head[l]), n, NULL)
         IN  [W2 EXCEPT !.head[l] = n]

DoAppend(W, l, n) ==
    IF W.tail[l] = NULL
    THEN LET W1 == [Verify(W, W.head[l] = NULL) EXCEPT !.head[l] = n, !.tail[l] = n]
         IN  SetNext(SetPrev(W1, n, NULL), n, NULL)
    ELSE LET W1 == SetNext(Verify(W, W.head[l] # NULL), W.tail[l], n)
             W2 == SetNext(SetPrev(W1, n, W1.tail[l]), n, NULL)
         IN  [W2 EXCEPT !.tail[l] = n]

(* insert_before copying the head case's VERIFY into the other branch. *)
DoInsertBeforeHeadVerify(W, l, b, n) ==
    LET W0 == Verify(Verify(W, b # n), W.head[l] # NULL) IN
    IF W0.head[l] = b
    THEN LET W1 == [Verify(W0, PrevOf(W0, b) = NULL) EXCEPT !.head[l] = n]
         IN  SetPrev(SetNext(SetPrev(W1, n, NULL), n, b), b, n)
    ELSE LET W1 == Verify(W0, PrevOf(W0, b) = NULL)
             W2 == SetPrev(W1, n, PrevOf(W1, b))
             W3 == SetNext(W2, PrevOf(W2, b), n)
         IN  SetPrev(SetNext(W3, n, b), b, n)

(* before_node and node are pointers to nodes, so VERIFY(before_node) and *)
(* VERIFY(node) hold.                                                      *)
DoInsertBefore(W, l, b, n) ==
    LET W0 == Verify(Verify(W, b # n), W.head[l] # NULL) IN
    IF W0.head[l] = b
    THEN LET W1 == [Verify(W0, PrevOf(W0, b) = NULL) EXCEPT !.head[l] = n]
         IN  SetPrev(SetNext(SetPrev(W1, n, NULL), n, b), b, n)
    ELSE LET W1 == Verify(W0, PrevOf(W0, b) # NULL)
             W2 == SetPrev(W1, n, PrevOf(W1, b))
             W3 == SetNext(W2, PrevOf(W2, b), n)
         IN  SetPrev(SetNext(W3, n, b), b, n)

(* insert_after without after_node->next()->set_prev(node). *)
DoInsertAfterNoBackLink(W, l, a, n) ==
    LET W0 == Verify(Verify(W, a # n), W.head[l] # NULL) IN
    IF W0.tail[l] = a
    THEN LET W1 == [Verify(W0, NextOf(W0, a) = NULL) EXCEPT !.tail[l] = n]
         IN  SetNext(SetNext(SetPrev(W1, n, a), n, NULL), a, n)
    ELSE LET W1 == SetPrev(Verify(W0, NextOf(W0, a) # NULL), n, a)
             W2 == SetNext(W1, n, NextOf(W1, a))
         IN  SetNext(W2, a, n)

DoInsertAfter(W, l, a, n) ==
    LET W0 == Verify(Verify(W, a # n), W.head[l] # NULL) IN
    IF W0.tail[l] = a
    THEN LET W1 == [Verify(W0, NextOf(W0, a) = NULL) EXCEPT !.tail[l] = n]
         IN  SetNext(SetNext(SetPrev(W1, n, a), n, NULL), a, n)
    ELSE LET W1 == SetPrev(Verify(W0, NextOf(W0, a) # NULL), n, a)
             W2 == SetNext(W1, n, NextOf(W1, a))
             W3 == SetPrev(W2, NextOf(W2, a), n)
         IN  SetNext(W3, a, n)

(* remove without the node->prev() test: it always patches the predecessor. *)
DoRemoveNoHeadCase(W, l, n) ==
    LET W1 == SetNext(W, PrevOf(W, n), NextOf(W, n))
        W2 == IF NextOf(W1, n) # NULL
              THEN SetPrev(Verify(W1, n # W1.tail[l]), NextOf(W1, n), PrevOf(W1, n))
              ELSE [Verify(W1, n = W1.tail[l]) EXCEPT !.tail[l] = PrevOf(W1, n)]
    IN  SetPrev(SetNext(W2, n, NULL), n, NULL)

DoRemove(W, l, n) ==
    LET W1 == IF PrevOf(W, n) # NULL
              THEN SetNext(Verify(W, n # W.head[l]), PrevOf(W, n), NextOf(W, n))
              ELSE [Verify(W, n = W.head[l]) EXCEPT !.head[l] = NextOf(W, n)]
        W2 == IF NextOf(W1, n) # NULL
              THEN SetPrev(Verify(W1, n # W1.tail[l]), NextOf(W1, n), PrevOf(W1, n))
              ELSE [Verify(W1, n = W1.tail[l]) EXCEPT !.tail[l] = PrevOf(W1, n)]
    IN  SetPrev(SetNext(W2, n, NULL), n, NULL)

(* remove_head taking tail() instead of head(). *)
DoRemoveHeadFromTail(W, l) == IF W.tail[l] = NULL THEN W ELSE DoRemove(W, l, W.tail[l])

DoRemoveHead(W, l) == IF W.head[l] = NULL THEN W ELSE DoRemove(W, l, W.head[l])

DoRemoveTail(W, l) == IF W.tail[l] = NULL THEN W ELSE DoRemove(W, l, W.tail[l])

(* append(other): the splice.  other.clear() comes before m_tail is read, *)
(* so when other is this list m_tail is null by then.                     *)
DoAppendList(W, l, o) ==
    IF W.head[o] = NULL THEN W
    ELSE IF W.head[l] = NULL
    THEN DoClear([W EXCEPT !.head[l] = W.head[o], !.tail[l] = W.tail[o]], o)
    ELSE LET W0 == Verify(Verify(W, W.tail[l] # NULL), W.head[o] # NULL)
             oh == W0.head[o]
             ot == W0.tail[o]
             W1 == DoClear(W0, o)
             W2 == Verify(Deref(W1, W1.tail[l]), NextOf(W1, W1.tail[l]) = NULL)
             W3 == SetNext(W2, W2.tail[l], oh)
             W4 == SetPrev(Verify(W3, PrevOf(W3, oh) = NULL), oh, W3.tail[l])
         IN  [W4 EXCEPT !.tail[l] = ot]

(***************************************************************************)
(* The actions: one per public mutating member function.  The caller's    *)
(* side of the contract (spec section 4.3) is the guard: a node inserted  *)
(* is in no list, and an anchor or a node removed is a member of l.  The  *)
(* code itself checks none of this.                                       *)
(***************************************************************************)
Prepend(l, n) ==
    /\ n \notin Linked
    /\ Commit(DoPrepend(World, l, n), <<"prepend", l, n>>)

AppendNode(l, n) ==
    /\ n \notin Linked
    /\ Commit(DoAppend(World, l, n), <<"append", l, n>>)

InsertBefore(l, b, n) ==
    /\ b \in Members(l) /\ n \notin Linked
    /\ Commit(DoInsertBefore(World, l, b, n), <<"insert_before", l, b, n>>)

InsertAfter(l, a, n) ==
    /\ a \in Members(l) /\ n \notin Linked
    /\ Commit(DoInsertAfter(World, l, a, n), <<"insert_after", l, a, n>>)

Remove(l, n) ==
    /\ n \in Members(l)
    /\ Commit(DoRemove(World, l, n), <<"remove", l, n>>)

RemoveHead(l) == Commit(DoRemoveHead(World, l), <<"remove_head", l>>)

RemoveTail(l) == Commit(DoRemoveTail(World, l), <<"remove_tail", l>>)

AppendList(l, o) ==
    /\ o # l \/ SelfSplice
    /\ Commit(DoAppendList(World, l, o), <<"append_list", l, o>>)

Clear(l) == Commit(DoClear(World, l), <<"clear", l>>)

Next ==
    \E l \in Lists :
        \/ RemoveHead(l) \/ RemoveTail(l) \/ Clear(l)
        \/ \E o \in Lists : AppendList(l, o)
        \/ \E n \in Nodes :
              \/ Prepend(l, n) \/ AppendNode(l, n) \/ Remove(l, n)
              \/ \E m \in Nodes : InsertBefore(l, m, n) \/ InsertAfter(l, m, n)

Spec == Init /\ [][Next]_vars

(***************************************************************************)
(* Properties.                                                            *)
(***************************************************************************)

(* Every link field belongs to a node: no call writes through a null     *)
(* pointer, which would put NULL in the domain of prev or next.           *)
TypeOK ==
    /\ head \in [Lists -> Ptr] /\ tail \in [Lists -> Ptr]
    /\ prev \in [Nodes -> Ptr] /\ next \in [Nodes -> Ptr]
    /\ faults \subseteq Faults

(* Used as the caller promises, no member function fails one of its      *)
(* VERIFYs or dereferences null; in particular append(other) never reads *)
(* m_tail->next() with m_tail null.                                       *)
NoUndefinedBehaviour == faults = {}

(* The symmetric invariant of spec section 4.3, for every list after     *)
(* every call: walking next() from m_head reaches null after distinct     *)
(* nodes, the last of them m_tail; each member's prev() is the node       *)
(* before it, null exactly for m_head; and no node is in two lists.       *)
WellFormed ==
    \A l \in Lists :
        LET s == Walk(l) IN
        /\ Len(s) = Cardinality(Members(l))
        /\ tail[l] = IF s = <<>> THEN NULL ELSE s[Len(s)]
        /\ \A i \in DOMAIN s : prev[s[i]] = IF i = 1 THEN NULL ELSE s[i - 1]
        /\ \A k \in Lists \ {l} : Members(l) \cap Members(k) = {}

(* Each call changes the lists, as iteration from m_head sees them,      *)
(* exactly as NodeSeq says that call does.                                *)
Abstract == INSTANCE NodeSeq WITH lists <- [l \in Lists |-> Walk(l)], lastOp <- lastOp

ImplementsNodeSeq == Abstract!Spec
====
