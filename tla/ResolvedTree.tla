---------------------------- MODULE ResolvedTree ----------------------------
(***************************************************************************)
(* The tree of resolved declarations (ResolvedElement.kt) and the edits    *)
(* the mapping engine makes in it.                                         *)
(*                                                                         *)
(* An element object is a number.  A tree t records, for every object, its *)
(* children (kids), its parent pointer (up, NoElement when null), the key  *)
(* that its equals() compares (classes, fields and namespaces are Kotlin   *)
(* data classes, equal when their constructor properties are; a method is  *)
(* equal to itself only) and its kind.  Children lists are appended to     *)
(* only, and objects are numbered in the order they are made, so the order *)
(* of a children list is the order of the numbers in the set kids[p].      *)
(***************************************************************************)
EXTENDS Naturals, FiniteSets

CONSTANTS
  MaxElements    \* bound: how many element objects one behaviour can make

ASSUME MaxElementsAssumption == MaxElements \in Nat

NoElement == 0

Ids == 1 .. MaxElements

Kinds == {"class", "method"}

Trees ==
  [kids : [Ids -> SUBSET Ids],
   up   : [Ids -> Ids \cup {NoElement}],
   key  : [Ids -> Ids],
   kind : [Ids -> Kinds]]

\* equals() of two elements.
Equal(t, x, y) == t.key[x] = t.key[y]

\* The element that indexOf(c) and remove(c) find in p's children list: the
\* first one equal to c.  A set, empty when there is none.
FirstEqual(t, p, c) ==
  {x \in t.kids[p] : /\ Equal(t, x, c)
                     /\ \A y \in t.kids[p] : Equal(t, y, c) => x <= y}

\* Mutant of HasEqualChild: addChild without its require.
HasEqualChildNotAsked(t, p, c) == FALSE

\* The require(...) of addChild: whether p's children list contains(c).
HasEqualChild(t, p, c) == \E x \in t.kids[p] : Equal(t, x, c)

\* Mutant of AddChild: child.parent = this is missing.
AddChildWithoutParent(t, p, c) == [t EXCEPT !.kids[p] = @ \cup {c}]

\* addChild appends c and points it at its new parent.
AddChild(t, p, c) ==
  [t EXCEPT !.kids[p] = @ \cup {c},
            !.up[c]   = p]

\* removeChild takes c, or the first element equal to it, out of the list;
\* the parent pointer of what was removed stays as it was.
RemoveChild(t, p, c) ==
  [t EXCEPT !.kids[p] = @ \ FirstEqual(t, p, c)]

-----------------------------------------------------------------------------
(* The subtree a client sends back in a mapping result. *)

\* A shape says what the client made of the new element: whose copy it is
\* (NoElement: of nothing), its kind, and whether it carries one method of
\* its own.  A copy of a method is not equal to the original; a copy of a
\* class is equal to it when nothing but its children was changed (same).
Shapes ==
  {s \in [copyOf : Ids \cup {NoElement}, kind : Kinds, same : BOOLEAN, leaf : BOOLEAN] :
     /\ s.same => s.copyOf # NoElement /\ s.kind = "class"
     /\ s.leaf => s.kind = "class"}

\* How many objects decoding a shape makes.
Size(s) == IF s.leaf THEN 2 ELSE 1

\* Mutant of Decode: a copy that shares the children of what it copies.
DecodeSharing(t, n, s) ==
  [t EXCEPT !.kind[n] = s.kind,
            !.kids[n] = IF s.copyOf = NoElement THEN {} ELSE t.kids[s.copyOf]]

\* Decoding a shape makes the object n, and n + 1 for its child.  The parent
\* pointer is @Transient: it is null in every decoded element.
Decode(t, n, s) ==
  [t EXCEPT !.key[n]  = IF s.same THEN t.key[s.copyOf] ELSE n,
            !.kind[n] = s.kind,
            !.kids[n] = IF s.leaf THEN {n + 1} ELSE {}]

-----------------------------------------------------------------------------
(* The trees resolving can produce. *)

\* The parent functions of the forests over 1 .. k whose numbering is the
\* depth-first order in which recursiveSequence() lists the elements: what
\* stands between an element and its parent is below that parent.
Forests(k) ==
  {u \in [1 .. k -> 0 .. k] :
     /\ \A i \in 1 .. k : u[i] < i
     /\ \A i, j \in 1 .. k : u[j] < i /\ i < j => u[i] >= u[j]}

\* The tree with the parent function u, whose elements in cls are classes;
\* only a class has children, and no two resolved elements are equal.
TreeOf(k, u, cls) ==
  [kids |-> [p \in Ids |-> {c \in 1 .. k : u[c] = p}],
   up   |-> [c \in Ids |-> IF c \in 1 .. k THEN u[c] ELSE NoElement],
   key  |-> [c \in Ids |-> c],
   kind |-> [c \in Ids |-> IF c \in cls THEN "class" ELSE "method"]]

-----------------------------------------------------------------------------
(* What the edits preserve. *)

\* The objects 1 .. n - 1 form a forest: a child is younger than its parent,
\* an object is a child of one parent at most, a parent pointer names an
\* older object, and what has not been made yet is blank.
IsForest(t, n) ==
  /\ \A p \in Ids : \A c \in t.kids[p] : p < c /\ c < n
  /\ \A p, q \in Ids : \A c \in t.kids[p] : c \in t.kids[q] => p = q
  /\ \A c \in Ids : t.up[c] < c
  /\ \A c \in Ids : c >= n => t.up[c] = NoElement

\* Parent pointers name the parent that lists the element, but for elements
\* above o, which a client sent: theirs may be null.
PointersAgree(t, o) ==
  \A p \in Ids : \A c \in t.kids[p] :
     t.up[c] = p \/ (t.up[c] = NoElement /\ p > o /\ c > o)

\* No two children of one parent are equal.
NoEqualSiblings(t) ==
  \A p \in Ids : \A x, y \in t.kids[p] : Equal(t, x, y) => x = y

=============================================================================
