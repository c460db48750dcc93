----------------------------- MODULE NodeSeq -------------------------------
(***************************************************************************)
(* What AK::InlineLinkedList promises its caller (spec section 4.3): each *)
(* list is a sequence of distinct nodes, no node is in two lists, and     *)
(* each member function is a named sequence operation.  lastOp names the  *)
(* call just made and its arguments.  The guards are the caller's side of *)
(* the contract: a node inserted is in no list, and a node named as an    *)
(* anchor or removed is a member of the list it is given to.              *)
(***************************************************************************)
EXTENDS Naturals, Sequences, SequencesExt

CONSTANTS Lists, Nodes

VARIABLES lists, lastOp

Linked == UNION {ToSet(lists[l]) : l \in Lists}

Pos(l, n) == SelectInSeq(lists[l], LAMBDA m : m = n)

Set(l, s) == lists' = [lists EXCEPT ![l] = s]

Init == lists = [l \in Lists |-> <<>>] /\ lastOp = <<"none">>

PrependNode(l, n) ==
    /\ lastOp' = <<"prepend", l, n>>
    /\ n \notin Linked
    /\ Set(l, <<n>> \o lists[l])

AppendNode(l, n) ==
    /\ lastOp' = <<"append", l, n>>
    /\ n \notin Linked
    /\ Set(l, Append(lists[l], n))

InsertBefore(l, b, n) ==
    /\ lastOp' = <<"insert_before", l, b, n>>
    /\ b \in ToSet(lists[l]) /\ n \notin Linked
    /\ Set(l, InsertAt(lists[l], Pos(l, b), n))

InsertAfter(l, a, n) ==
    /\ lastOp' = <<"insert_after", l, a, n>>
    /\ a \in ToSet(lists[l]) /\ n \notin Linked
    /\ Set(l, InsertAt(lists[l], Pos(l, a) + 1, n))

RemoveNode(l, n) ==
    /\ lastOp' = <<"remove", l, n>>
    /\ n \in ToSet(lists[l])
    /\ Set(l, RemoveAt(lists[l], Pos(l, n)))

(* On an empty list remove_head and remove_tail return null and do nothing. *)
RemoveHead(l) ==
    /\ lastOp' = <<"remove_head", l>>
    /\ Set(l, IF lists[l] = <<>> THEN <<>> ELSE Tail(lists[l]))

RemoveTail(l) ==
    /\ lastOp' = <<"remove_tail", l>>
    /\ Set(l, IF lists[l] = <<>> THEN <<>> ELSE Front(lists[l]))

(* append(other): other's nodes follow l's, and other is left empty. *)
AppendList(l, o) ==
    /\ lastOp' = <<"append_list", l, o>>
    /\ l # o
    /\ lists' = [lists EXCEPT ![l] = @ \o lists[o], ![o] = <<>>]

ClearList(l) == lastOp' = <<"clear", l>> /\ Set(l, <<>>)

Next ==
    \E l \in Lists :
        \/ RemoveHead(l) \/ RemoveTail(l) \/ ClearList(l)
        \/ \E o \in Lists : AppendList(l, o)
        \/ \E n \in Nodes :
              \/ PrependNode(l, n) \/ AppendNode(l, n) \/ RemoveNode(l, n)
              \/ \E m \in Nodes : InsertBefore(l, m, n) \/ InsertAfter(l, m, n)

Spec == Init /\ [][Next]_<<lists, lastOp>>
=============================================================================
