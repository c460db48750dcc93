------------------------------ MODULE OwnPtr -------------------------------
(***************************************************************************)
(* AK::OwnPtr<T> (src/AK/OwnPtr.h), a handle owning at most one heap      *)
(* object.  Handles and objects are model values and NULL is nullptr.     *)
(* m_ptr is each handle's pointer, inScope the handles whose lifetime has *)
(* begun and not ended, heap the objects allocated and not deleted, raw   *)
(* the objects the program holds by raw pointer or by NonnullOwnPtr.  A   *)
(* delete of an object not in heap is recorded in faults.                 *)
(*                                                                         *)
(* The program around the handles allocates objects (new T) and deletes   *)
(* the ones it holds raw.  It keeps the contract of spec section 5: it    *)
(* never dereferences or releases a null handle (the VERIFYs at 125, 132, *)
(* 141-159 abort on that) and never hands a handle a pointer another      *)
(* owner still holds.                                                     *)
(***************************************************************************)
EXTENDS Naturals, FiniteSets

CONSTANTS Handles, Objects, NULL

ASSUME NULL \notin Objects

VARIABLES m_ptr, inScope, heap, raw, faults, lastOp

vars == <<m_ptr, inScope, heap, raw, faults, lastOp>>

Ptr == Objects \cup {NULL}

(* delete p: deleting nullptr does nothing; deleting a freed object is a *)
(* double free.                                                          *)
Delete(p) ==
    /\ heap' = heap \ {p}
    /\ faults' = faults \cup (IF p = NULL \/ p \in heap THEN {} ELSE {"double_free"})

(* clear(): delete m_ptr; m_ptr = nullptr. *)
clear(h) == Delete(m_ptr[h]) /\ m_ptr' = [m_ptr EXCEPT ![h] = NULL]

Init ==
    /\ m_ptr = [h \in Handles |-> NULL]
    /\ inScope = {} /\ heap = {} /\ raw = {} /\ faults = {}
    /\ lastOp = <<"none">>

(* The program allocates: new T. *)
New(o) ==
    /\ lastOp' = <<"new", o>> /\ o \notin heap
    /\ heap' = heap \cup {o} /\ raw' = raw \cup {o}
    /\ UNCHANGED <<m_ptr, inScope, faults>>

(* The program deletes an object it holds raw. *)
DeleteRaw(o) ==
    /\ lastOp' = <<"delete", o>> /\ o \in raw
    /\ Delete(o) /\ raw' = raw \ {o}
    /\ UNCHANGED <<m_ptr, inScope>>

(* OwnPtr(), OwnPtr(T* ptr), OwnPtr(NonnullOwnPtr&&): m_ptr is the object *)
(* given, whose ownership the program hands over.                         *)
Construct(h, p) ==
    /\ lastOp' = <<"construct", h, p>> /\ h \notin inScope
    /\ p \in raw \cup {NULL}
    /\ m_ptr' = [m_ptr EXCEPT ![h] = p]
    /\ inScope' = inScope \cup {h} /\ raw' = raw \ {p}
    /\ UNCHANGED <<heap, faults>>

(* OwnPtr(OwnPtr&& other): m_ptr(other.leak_ptr()). *)
MoveConstruct(h, g) ==
    /\ lastOp' = <<"move_construct", h, g>> /\ h \notin inScope /\ g \in inScope
    /\ m_ptr' = [m_ptr EXCEPT ![g] = NULL, ![h] = m_ptr[g]]
    /\ inScope' = inScope \cup {h}
    /\ UNCHANGED <<heap, raw, faults>>

(* ~OwnPtr(): clear(). *)
Destroy(h) ==
    /\ lastOp' = <<"destroy", h>> /\ h \in inScope
    /\ clear(h) /\ inScope' = inScope \ {h}
    /\ UNCHANGED raw

(***************************************************************************)
(* operator=(OwnPtr&& other): OwnPtr ptr(move(other)); swap(ptr); and the *)
(* temporary ptr is destroyed on return.  The three steps in order: ptr   *)
(* takes other's object (other becomes null), this and ptr swap, and ptr  *)
(* deletes what it then holds.  With other = this, ptr takes this's own   *)
(* object, so the swap gives it back and ptr deletes nullptr.             *)
(***************************************************************************)
MoveAssignClearFirst(h, g) ==
    LET left == [m_ptr EXCEPT ![h] = NULL]
    IN  /\ Delete(m_ptr[h])
        /\ m_ptr' = [left EXCEPT ![g] = NULL, ![h] = left[g]]

MoveAssignSteps(h, g) ==
    LET tmp  == m_ptr[g]
        left == [m_ptr EXCEPT ![g] = NULL]
    IN  /\ Delete(left[h])
        /\ m_ptr' = [left EXCEPT ![h] = tmp]

MoveAssign(h, g) ==
    /\ lastOp' = <<"move_assign", h, g>> /\ h \in inScope /\ g \in inScope
    /\ MoveAssignSteps(h, g)
    /\ UNCHANGED <<inScope, raw>>

(* operator=(NonnullOwnPtr&& other): as the move assignment, then        *)
(* VERIFY(m_ptr), which holds because other is never null.               *)
AssignNonnull(h, o) ==
    /\ lastOp' = <<"assign_nonnull", h, o>> /\ h \in inScope /\ o \in raw
    /\ Delete(m_ptr[h])
    /\ m_ptr' = [m_ptr EXCEPT ![h] = o]
    /\ raw' = raw \ {o} /\ UNCHANGED inScope

AssignRawAlways(h, p) ==
    /\ Delete(m_ptr[h])
    /\ m_ptr' = [m_ptr EXCEPT ![h] = p]

(* operator=(T* ptr): if (m_ptr != ptr) delete m_ptr; m_ptr = ptr.  The  *)
(* program may hand back the handle's own pointer.                       *)
AssignRawSteps(h, p) ==
    /\ IF m_ptr[h] # p THEN Delete(m_ptr[h]) ELSE UNCHANGED <<heap, faults>>
    /\ m_ptr' = [m_ptr EXCEPT ![h] = p]

AssignRaw(h, p) ==
    /\ lastOp' = <<"assign_raw", h, p>> /\ h \in inScope
    /\ p \in raw \cup {NULL, m_ptr[h]}
    /\ AssignRawSteps(h, p)
    /\ raw' = raw \ {p} /\ UNCHANGED inScope

(* operator=(nullptr) and clear(). *)
Clear(h) ==
    /\ lastOp' = <<"clear", h>> /\ h \in inScope
    /\ clear(h) /\ UNCHANGED <<inScope, raw>>

(* leak_ptr(), and release_nonnull(), which is VERIFY(m_ptr) then a      *)
(* NonnullOwnPtr adopting *leak_ptr().                                   *)
Release(h, op) ==
    /\ lastOp' = <<op, h>> /\ h \in inScope
    /\ op = "release_nonnull" => m_ptr[h] # NULL
    /\ m_ptr' = [m_ptr EXCEPT ![h] = NULL]
    /\ raw' = raw \cup ({m_ptr[h]} \ {NULL})
    /\ UNCHANGED <<inScope, heap, faults>>

(* swap(other): ::swap(m_ptr, other.m_ptr). *)
Swap(h, g) ==
    /\ lastOp' = <<"swap", h, g>> /\ h \in inScope /\ g \in inScope
    /\ m_ptr' = [m_ptr EXCEPT ![h] = m_ptr[g], ![g] = m_ptr[h]]
    /\ UNCHANGED <<inScope, heap, raw, faults>>

(* operator->() and operator*(): VERIFY(m_ptr), then the program reads  *)
(* the object.  The program tests the handle first (operator bool,     *)
(* operator!), so the VERIFY holds; the object read must still be live. *)
Use(h) ==
    /\ lastOp' = <<"use", h, m_ptr[h]>> /\ h \in inScope /\ m_ptr[h] # NULL
    /\ faults' = faults \cup (IF m_ptr[h] \in heap THEN {} ELSE {"use_after_free"})
    /\ UNCHANGED <<m_ptr, inScope, heap, raw>>

Next ==
    \/ \E o \in Objects : New(o) \/ DeleteRaw(o) \/ \E h \in Handles : AssignNonnull(h, o)
    \/ \E h \in Handles :
          \/ Destroy(h) \/ Clear(h) \/ Use(h)
          \/ \E op \in {"leak_ptr", "release_nonnull"} : Release(h, op)
          \/ \E p \in Ptr : Construct(h, p) \/ AssignRaw(h, p)
          \/ \E g \in Handles : MoveConstruct(h, g) \/ MoveAssign(h, g) \/ Swap(h, g)

Spec == Init /\ [][Next]_vars

(* Every allocated object has exactly one owner, one handle in scope or  *)
(* the program, no handle in scope points at freed memory, and nothing  *)
(* was deleted twice.  Breaking it takes a sequence of moves, swaps,    *)
(* resets and releases in which some handle keeps or loses an object   *)
(* it should not.                                                        *)
ExclusiveOwnership ==
    /\ faults = {}
    /\ raw \subseteq heap
    /\ \A h \in inScope : m_ptr[h] \in heap \cup {NULL}
    /\ \A o \in heap :
          Cardinality({h \in inScope : m_ptr[h] = o}) + (IF o \in raw THEN 1 ELSE 0) = 1

(* The owner of each object as the promise of Ownership sees it; an      *)
(* object allocated and owned by nobody is "lost", which no state of    *)
(* Ownership has.                                                        *)
OwnerOf(o) ==
    CASE o \notin heap                        -> "free"
      [] o \in raw                            -> "raw"
      [] \E h \in inScope : m_ptr[h] = o      -> CHOOSE h \in inScope : m_ptr[h] = o
      [] OTHER                                -> "lost"

Abstract == INSTANCE Ownership
    WITH owner <- [o \in Objects |-> OwnerOf(o)], scope <- inScope

(* Each member function of OwnPtr moves ownership as the contract says:  *)
(* a move assignment frees the target's old object and a move to self  *)
(* keeps it, a reset frees the old object unless it is reset to itself, *)
(* a release hands the object to the program, and so on.                *)
ImplementsOwnership == Abstract!Spec
=============================================================================
