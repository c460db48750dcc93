---------------------------- MODULE Ownership ------------------------------
(***************************************************************************)
(* What the exclusive-ownership handle AK::OwnPtr promises (spec sections *)
(* 3 and 4.2): every heap object has exactly one owner, which is either   *)
(* one handle in scope or the program itself ("raw": a raw pointer or a   *)
(* NonnullOwnPtr the program holds); "free" objects are not allocated.    *)
(* Ownership moves only by the named operations; lastOp names the call    *)
(* just made and its arguments.                                            *)
(***************************************************************************)
CONSTANTS Handles, Objects, NULL

VARIABLES owner, scope, lastOp

Owners == Handles \cup {"raw", "free"}

(* The object a handle owns, or NULL. *)
Owned(h) == IF \E o \in Objects : owner[o] = h
            THEN CHOOSE o \in Objects : owner[o] = h ELSE NULL

(* Every object o passes to the owner f(o). *)
Move(f(_)) == owner' = [o \in Objects |-> f(o)]

FreeOwnedBy(h) == [o \in Objects |-> IF owner[o] = h THEN "free" ELSE owner[o]]

Init == owner = [o \in Objects |-> "free"] /\ scope = {} /\ lastOp = <<"none">>

New(o) ==
    /\ lastOp' = <<"new", o>> /\ owner[o] = "free"
    /\ owner' = [owner EXCEPT ![o] = "raw"] /\ UNCHANGED scope

DeleteRaw(o) ==
    /\ lastOp' = <<"delete", o>> /\ owner[o] = "raw"
    /\ owner' = [owner EXCEPT ![o] = "free"] /\ UNCHANGED scope

Construct(h, p) ==
    /\ lastOp' = <<"construct", h, p>> /\ h \notin scope
    /\ p = NULL \/ owner[p] = "raw"
    /\ Move(LAMBDA o : IF o = p THEN h ELSE owner[o])
    /\ scope' = scope \cup {h}

MoveConstruct(h, g) ==
    /\ lastOp' = <<"move_construct", h, g>> /\ h \notin scope /\ g \in scope
    /\ Move(LAMBDA o : IF owner[o] = g THEN h ELSE owner[o])
    /\ scope' = scope \cup {h}

Destroy(h) ==
    /\ lastOp' = <<"destroy", h>> /\ h \in scope
    /\ owner' = FreeOwnedBy(h) /\ scope' = scope \ {h}

(* h = move(g): h's object is freed and h takes g's; a move to self is a *)
(* no-op.                                                                 *)
MoveAssign(h, g) ==
    /\ lastOp' = <<"move_assign", h, g>> /\ h \in scope /\ g \in scope
    /\ Move(LAMBDA o : CASE h = g      -> owner[o]
                         [] owner[o] = g -> h
                         [] owner[o] = h -> "free"
                         [] OTHER        -> owner[o])
    /\ UNCHANGED scope

(* reset(p): the object owned before is freed unless it is p itself. *)
Reset(h, p, op) ==
    /\ lastOp' = <<op, h, p>> /\ h \in scope
    /\ p = NULL \/ owner[p] \in {"raw", h}
    /\ Move(LAMBDA o : CASE o = p         -> h
                         [] owner[o] = h -> "free"
                         [] OTHER        -> owner[o])
    /\ UNCHANGED scope

Clear(h) ==
    /\ lastOp' = <<"clear", h>> /\ h \in scope
    /\ owner' = FreeOwnedBy(h) /\ UNCHANGED scope

(* leak_ptr and release_nonnull hand the object to the program. *)
Release(h, op) ==
    /\ lastOp' = <<op, h>> /\ h \in scope
    /\ op = "release_nonnull" => Owned(h) # NULL
    /\ Move(LAMBDA o : IF owner[o] = h THEN "raw" ELSE owner[o])
    /\ UNCHANGED scope

Swap(h, g) ==
    /\ lastOp' = <<"swap", h, g>> /\ h \in scope /\ g \in scope
    /\ Move(LAMBDA o : CASE owner[o] = h -> g
                         [] owner[o] = g -> h
                         [] OTHER        -> owner[o])
    /\ UNCHANGED scope

(* A handle reaches its object through operator-> or operator*: only a *)
(* handle that owns an object can, and the object is the one it owns.  *)
Use(h) ==
    /\ h \in scope /\ Owned(h) # NULL
    /\ lastOp' = <<"use", h, Owned(h)>>
    /\ UNCHANGED <<owner, scope>>

Next ==
    \/ \E o \in Objects : New(o) \/ DeleteRaw(o)
    \/ \E h \in Handles :
          \/ Destroy(h) \/ Clear(h) \/ Use(h)
          \/ \E op \in {"leak_ptr", "release_nonnull"} : Release(h, op)
          \/ \E p \in Objects \cup {NULL} :
                \/ Construct(h, p)
                \/ \E op \in {"assign_raw", "assign_nonnull"} : Reset(h, p, op)
          \/ \E g \in Handles : MoveConstruct(h, g) \/ MoveAssign(h, g) \/ Swap(h, g)

Spec == Init /\ [][Next]_<<owner, scope, lastOp>>
=============================================================================
