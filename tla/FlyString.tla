----------------------------- MODULE FlyString -----------------------------
(***************************************************************************)
(* AK::FlyString (src/AK/FlyString.cpp, FlyString.h): strings interned in *)
(* the process-wide table fly_impls(), a hash set of StringImpl pointers   *)
(* whose equality is content equality (FlyStringImplTraits).               *)
(*                                                                         *)
(* StringImpls are model values Impls; rc[i] is i's reference count (0:    *)
(* not allocated), content[i] its characters, fly[i] its is_fly flag.      *)
(* str and fs are the program's String and FlyString variables, each a     *)
(* RefPtr<StringImpl>.  StringImpl and String are not in this repository:  *)
(* their reference counting and their destructor's call of                *)
(* FlyString::did_destroy_impl for a fly impl are taken from spec          *)
(* sections 3, 4.2 and 6.  Every action is a composition of operators on   *)
(* a record W of all variables, applied in the order the C++ runs them.    *)
(***************************************************************************)
EXTENDS Naturals, Sequences

CONSTANTS Impls, Strs, Flys, Contents, NULL

ASSUME NULL \notin Impls

VARIABLES rc, content, fly, table, str, fs, faults

vars == <<rc, content, fly, table, str, fs, faults>>

Ptr == Impls \cup {NULL}

World == [rc |-> rc, content |-> content, fly |-> fly, table |-> table,
          str |-> str, fs |-> fs, faults |-> faults]

Commit(W) ==
    /\ rc' = W.rc /\ content' = W.content /\ fly' = W.fly
    /\ table' = W.table /\ str' = W.str /\ fs' = W.fs /\ faults' = W.faults

Verify(W, c) == IF c THEN W ELSE [W EXCEPT !.faults = @ \cup {"verify_failed"}]

(* FlyStringImplTraits::equals: VERIFY(a); VERIFY(b); return *a == *b.   *)
SameContent(W, a, b) == W.content[a] = W.content[b]

(* FlyString::did_destroy_impl: fly_impls().remove(&impl), which removes *)
(* the entry the table's equality finds equal to impl.                   *)
DidDestroyImplSkipped(W, i) == W

did_destroy_impl(W, i) == [W EXCEPT !.table = {j \in @ : ~SameContent(W, j, i)}]

(* RefPtr's unref: the last reference destroys the StringImpl, whose     *)
(* destructor calls did_destroy_impl when it is fly.                     *)
Unref(W, i) ==
    IF i = NULL THEN W
    ELSE LET W1 == [W EXCEPT !.rc[i] = @ - 1]
         IN  IF W1.rc[i] > 0 THEN W1
             ELSE IF W1.fly[i] THEN did_destroy_impl([W1 EXCEPT !.fly[i] = FALSE], i)
                  ELSE W1

Ref(W, i) == IF i = NULL THEN W ELSE [W EXCEPT !.rc[i] = @ + 1]

(* StringImpl::create: a fresh impl with one reference. *)
Create(W, i, c) == [W EXCEPT !.rc[i] = 1, !.content[i] = c, !.fly[i] = FALSE]

Free(W) == {i \in Impls : W.rc[i] = 0}

(***************************************************************************)
(* FlyString(const String&), lines 33-50, for the impl p of the String:   *)
(* the impl the new FlyString holds, and the world after the lookup.      *)
(***************************************************************************)
Found(W, p) == {j \in W.table : SameContent(W, j, p)}

InternedImplOwn(W, p) == p

InternedImpl(W, p) ==
    CASE p = NULL              -> NULL
      [] W.fly[p]              -> p
      [] Found(W, p) = {}      -> p
      [] OTHER                 -> CHOOSE j \in Found(W, p) : TRUE

InternWorld(W, p) ==
    CASE p = NULL \/ W.fly[p]  -> W
      [] Found(W, p) = {}      -> [W EXCEPT !.table = @ \cup {p}, !.fly[p] = TRUE]
      [] OTHER                 -> Verify(W, W.fly[CHOOSE j \in Found(W, p) : TRUE])

(* The FlyString temporary constructed from p takes its reference. *)
FlyFrom(W, p) == Ref(InternWorld(W, p), InternedImpl(W, p))

(* f = <FlyString holding q>: RefPtr's move assignment drops f's old    *)
(* reference after f holds q.                                            *)
MoveInto(W, f, q) == Unref([W EXCEPT !.fs[f] = q], W.fs[f])

(* String::to_lowercase over the model's characters "a", "A" and "b". *)
Lower(c) == [k \in DOMAIN c |-> IF c[k] = "A" THEN "a" ELSE c[k]]

(* Assign a RefPtr variable: take the new reference, then drop the old. *)
SetStr(W, s, p) == Unref([Ref(W, p) EXCEPT !.str[s] = p], W.str[s])

Init ==
    /\ rc = [i \in Impls |-> 0]
    /\ content = [i \in Impls |-> CHOOSE c \in Contents : TRUE]
    /\ fly = [i \in Impls |-> FALSE]
    /\ table = {}
    /\ str = [s \in Strs |-> NULL]
    /\ fs = [f \in Flys |-> NULL]
    /\ faults = {}

(* s = String(c): a new impl is created and moved into s. *)
NewString(s, c) ==
    \E i \in Free(World) :
        Commit(Unref([Create(World, i, c) EXCEPT !.str[s] = i], str[s]))

(* s = t, String's copy assignment. *)
CopyString(s, t) == Commit(SetStr(World, s, str[t]))

(* s = {}: the String's reference is dropped. *)
DropString(s) == Commit(SetStr(World, s, NULL))

(* f = FlyString(str[s]). *)
Intern(f, s) == Commit(MoveInto(FlyFrom(World, str[s]), f, InternedImpl(World, str[s])))

(* f = FlyString(const char* s) (57-60; from a StringView, 52-55):     *)
(* a temporary String of the characters is interned and destroyed, and *)
(* then the FlyString is moved into f.                                   *)
InternText(W, f, c) ==
    \E i \in Free(W) :
        LET W0 == Create(W, i, c)
            W1 == Unref(FlyFrom(W0, i), i)
        IN  Commit(MoveInto(W1, f, InternedImpl(W0, i)))

InternLiteral(f, c) == InternText(World, f, c)

(* f = g.to_lowercase(): String of *m_impl, lowercased, then interned;  *)
(* caller only asks it of a non-null FlyString (m_impl is dereferenced). *)
ToLowercase(f, g) ==
    /\ fs[g] # NULL
    /\ InternText(World, f, Lower(content[fs[g]]))

(* f = g: FlyString's copy assignment, m_impl = other.m_impl. *)
CopyFly(f, g) ==
    Commit(MoveInto(Ref(World, fs[g]), f, fs[g]))

(* f = move(g): g's pointer moves to f (g becomes null) and f's old      *)
(* reference is dropped; a move to self keeps the pointer.               *)
MoveFly(f, g) ==
    LET p == fs[g]
        W1 == [World EXCEPT !.fs[g] = NULL]
    IN  Commit(MoveInto(W1, f, p))

(* ~FlyString() or f = {}. *)
DropFly(f) == Commit(MoveInto(World, f, NULL))

Next ==
    \/ \E s \in Strs :
          \/ DropString(s)
          \/ \E c \in Contents : NewString(s, c)
          \/ \E t \in Strs : CopyString(s, t)
    \/ \E f \in Flys :
          \/ DropFly(f)
          \/ \E s \in Strs : Intern(f, s)
          \/ \E c \in Contents : InternLiteral(f, c)
          \/ \E g \in Flys : ToLowercase(f, g) \/ CopyFly(f, g) \/ MoveFly(f, g)

Spec == Init /\ [][Next]_vars

(***************************************************************************)
(* The comparison operators, for the impl p of a FlyString.  memcmp reads *)
(* n characters of each; a String's characters end in a NUL terminator.   *)
(***************************************************************************)
Chars(x, n) == [k \in 1..n |-> IF k <= Len(x) THEN x[k] ELSE "nul"]

(* operator==(const String&) (109-124), against the String's impl q;     *)
(* operator==(const StringView&) (126-129) compares with String(view).   *)
EqualsStringNoLength(W, p, q) ==
    CASE p = q     -> TRUE
      [] p = NULL  -> q = NULL
      [] q = NULL  -> FALSE
      [] OTHER     -> Chars(W.content[p], Len(W.content[p]))
                        = Chars(W.content[q], Len(W.content[p]))

EqualsString(W, p, q) ==
    CASE p = q     -> TRUE
      [] p = NULL  -> q = NULL
      [] q = NULL  -> FALSE
      [] Len(W.content[p]) # Len(W.content[q]) -> FALSE
      [] OTHER     -> Chars(W.content[p], Len(W.content[p]))
                        = Chars(W.content[q], Len(W.content[p]))

(* operator==(const FlyString&) (FlyString.h:38): m_impl == other.m_impl. *)
EqualsFly(p, q) == p = q

(* is_one_of(args...) (FlyString.h:71-80): *this == each argument in     *)
(* turn, FALSE once the pack is empty.  An argument is <<"fly", impl>> or *)
(* <<"string", impl>>, and == is the overload of its type.               *)
RECURSIVE is_one_of(_, _, _)
is_one_of(W, p, args) ==
    IF args = <<>> THEN FALSE
    ELSE LET a == Head(args)
             equal == IF a[1] = "fly" THEN EqualsFly(p, a[2]) ELSE EqualsString(W, p, a[2])
         IN  equal \/ is_one_of(W, p, Tail(args))

(* What equality of two strings means: both null, or the same text. *)
SameText(p, q) ==
    \/ p = NULL /\ q = NULL
    \/ p # NULL /\ q # NULL /\ content[p] = content[q]

(***************************************************************************)
(* The table holds exactly the live interned impls: an impl leaves it when *)
(* its last reference (String, FlyString or temporary) goes, so the table *)
(* never keeps a pointer to a freed impl that a later lookup of the same  *)
(* text would hand out; no two entries have the same text; no VERIFY      *)
(* fails.                                                                  *)
(***************************************************************************)
TableConsistent ==
    /\ faults = {}
    /\ table = {i \in Impls : rc[i] > 0 /\ fly[i]}
    /\ \A i, j \in table : content[i] = content[j] => i = j

(* FlyString's operator== compares pointers only; that is right exactly  *)
(* when interning gives any two FlyStrings of equal text the same impl, *)
(* however they were made (from a String, a literal, to_lowercase, a     *)
(* copy or a move) and whatever was dropped in between.                  *)
Canonical ==
    \A f, g \in Flys : EqualsFly(fs[f], fs[g]) = SameText(fs[f], fs[g])

(* FlyString's comparison with a String, and is_one_of over a mixed pack  *)
(* of FlyStrings and Strings, agree with text equality in every reachable *)
(* state.                                                                 *)
EqualityAgrees ==
    /\ \A f \in Flys, s \in Strs :
          EqualsString(World, fs[f], str[s]) = SameText(fs[f], str[s])
    /\ \A f, g \in Flys, s \in Strs :
          is_one_of(World, fs[f], << <<"fly", fs[g]>>, <<"string", str[s]>> >>)
            = (SameText(fs[f], fs[g]) \/ SameText(fs[f], str[s]))
=============================================================================
