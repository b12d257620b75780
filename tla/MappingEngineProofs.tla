------------------------- MODULE MappingEngineProofs -------------------------
(***************************************************************************)
(* Proofs about MappingEngine, for every bound on elements, mappings and   *)
(* results.  The inductive invariant is the type invariant with the three  *)
(* facts about the tree: that siblings differ makes removeChild take out   *)
(* the element meant, that pointers agree makes the request show it, and   *)
(* that the objects are a forest whose new members are unattached makes    *)
(* every addition keep the other two.                                      *)
(***************************************************************************)
EXTENDS MappingEngine, TLAPS

\* The facts about a tree t whose objects are 1 .. n - 1, the first o of them
\* from resolving.
TreeInv(t, o, n) ==
  /\ t \in Trees
  /\ IsForest(t, n)
  /\ PointersAgree(t, o)
  /\ NoEqualSiblings(t)

IInv ==
  /\ TypeOK
  /\ TreeInv(tree, originals, next)

-----------------------------------------------------------------------------
(* The edits of the tree. *)

\* removeChild only shortens one children list, so it keeps every fact.
LEMMA RemoveChildKeeps ==
  ASSUME NEW t, NEW o \in Nat, NEW n \in Nat, TreeInv(t, o, n),
         NEW p \in Ids, NEW c \in Ids
  PROVE  TreeInv(RemoveChild(t, p, c), o, n)
<1> DEFINE r == RemoveChild(t, p, c)
<1>1. t \in Trees
  BY DEF TreeInv
<1>2. /\ r.up = t.up /\ r.key = t.key /\ r.kind = t.kind
      /\ r.kids \in [Ids -> SUBSET Ids]
      /\ \A q \in Ids : r.kids[q] \subseteq t.kids[q]
      /\ r \in Trees
  BY <1>1 DEF RemoveChild, Trees
<1>3. IsForest(r, n)
  BY <1>2 DEF TreeInv, IsForest
<1>4. PointersAgree(r, o)
  BY <1>2 DEF TreeInv, PointersAgree
<1>5. NoEqualSiblings(r)
  BY <1>2 DEF TreeInv, NoEqualSiblings, Equal
<1> QED
  BY <1>2, <1>3, <1>4, <1>5 DEF TreeInv

\* Decoding what a client sent makes unattached objects, at most one below
\* the other, and touches nothing that was made before.
LEMMA DecodeKeeps ==
  ASSUME NEW t, NEW o \in Nat, NEW n \in Nat \ {0}, TreeInv(t, o, n), o < n,
         NEW s \in Shapes, n + Size(s) <= MaxElements + 1
  PROVE  /\ TreeInv(Decode(t, n, s), o, n + Size(s))
         /\ \A p \in Ids : n \notin Decode(t, n, s).kids[p]
         /\ Decode(t, n, s).up = t.up
<1> DEFINE d == Decode(t, n, s)
<1> USE MaxElementsAssumption
<1>1. /\ t \in Trees
      /\ n \in Ids
      /\ Size(s) \in {1, 2}
      /\ s.leaf => n + 1 \in Ids /\ Size(s) = 2
      /\ s.kind \in Kinds
      /\ s.same => s.copyOf \in Ids
  BY DEF TreeInv, Size, Shapes, Ids, NoElement
<1>2. /\ d.up = t.up
      /\ d.kids = [t.kids EXCEPT ![n] = IF s.leaf THEN {n + 1} ELSE {}]
      /\ d \in Trees
  BY ZenonT(60), <1>1 DEF Decode, Trees
<1>3. \A p \in Ids : \A c \in t.kids[p] : p < c /\ c < n
  BY DEF TreeInv, IsForest
<1>4. /\ \A p \in Ids \ {n} : d.kids[p] = t.kids[p]
      /\ d.kids[n] = IF s.leaf THEN {n + 1} ELSE {}
  BY <1>1, <1>2 DEF Trees
<1>5. t.kids \in [Ids -> SUBSET Ids]
  BY <1>1 DEF Trees
<1>6. \A p \in Ids : n \notin d.kids[p]
  BY <1>1, <1>3, <1>4, <1>5 DEF Ids
<1>7. IsForest(d, n + Size(s))
  <2>1. \A p \in Ids : \A c \in d.kids[p] : p < c /\ c < n + Size(s)
    <3> SUFFICES ASSUME NEW p \in Ids, NEW c \in d.kids[p]
                 PROVE  p < c /\ c < n + Size(s)
      OBVIOUS
    <3>1. CASE p = n
      <4>1. s.leaf /\ c = n + 1 /\ Size(s) = 2
        BY <3>1, <1>1, <1>4
      <4> QED
        BY <3>1, <4>1
    <3>2. CASE p # n
      <4>1. c \in t.kids[p] /\ c \in Ids
        BY <3>2, <1>4, <1>5
      <4>2. p < c /\ c < n
        BY <4>1, <1>3
      <4> QED
        BY <4>1, <4>2, <1>1 DEF Ids
    <3> QED
      BY <3>1, <3>2
  <2>2. ASSUME NEW p \in Ids, NEW q \in Ids, NEW c \in d.kids[p], c \in d.kids[q]
        PROVE  p = q
    <3>1. CASE p # n /\ q # n
      BY <3>1, <2>2, <1>4 DEF TreeInv, IsForest
    <3>2. CASE p = n /\ q # n
      \* c is n + 1, too young to be listed by an older tree.
      BY <3>2, <2>2, <1>1, <1>3, <1>4, <1>5 DEF Ids
    <3>3. CASE p # n /\ q = n
      BY SMTT(30), <3>3, <2>2, <1>1, <1>3, <1>4, <1>5 DEF Ids
    <3> QED
      BY <3>1, <3>2, <3>3
  <2>3. /\ \A c \in Ids : d.up[c] < c
        /\ \A c \in Ids : c >= n + Size(s) => d.up[c] = NoElement
    BY <1>1, <1>2 DEF Ids, TreeInv, IsForest
  <2> QED
    BY <2>1, <2>2, <2>3 DEF IsForest
<1>8. PointersAgree(d, o)
  <2> SUFFICES ASSUME NEW p \in Ids, NEW c \in d.kids[p]
               PROVE  d.up[c] = p \/ (d.up[c] = NoElement /\ p > o /\ c > o)
    BY DEF PointersAgree
  <2>1. CASE p = n
    BY <2>1, <1>1, <1>2, <1>4 DEF TreeInv, IsForest, Ids
  <2>2. CASE p # n
    BY <2>2, <1>2, <1>4 DEF TreeInv, PointersAgree
  <2> QED
    BY <2>1, <2>2
<1>9. NoEqualSiblings(d)
  <2> SUFFICES ASSUME NEW p \in Ids, NEW x \in d.kids[p], NEW y \in d.kids[p],
                      Equal(d, x, y)
               PROVE  x = y
    BY DEF NoEqualSiblings
  <2>1. CASE p = n
    BY <2>1, <1>4
  <2>2. CASE p # n
    <3>1. x \in t.kids[p] /\ y \in t.kids[p]
      BY <2>2, <1>4
    <3>2. x # n /\ y # n /\ x \in Ids /\ y \in Ids
      BY <3>1, <1>3, <1>5, <1>1 DEF Ids
    <3>3. d.key[x] = t.key[x] /\ d.key[y] = t.key[y]
      BY <3>2, <1>1 DEF Decode, Trees
    <3> QED
      BY <3>1, <3>3 DEF TreeInv, NoEqualSiblings, Equal
  <2> QED
    BY <2>1, <2>2
<1> QED
  BY <1>2, <1>6, <1>7, <1>8, <1>9 DEF TreeInv

\* Adding an unattached object below an older one that lists nothing equal.
LEMMA AddChildKeeps ==
  ASSUME NEW t, NEW o \in Nat, NEW n \in Nat, TreeInv(t, o, n),
         NEW p \in Ids, NEW c \in Ids, p < c, c < n,
         \A q \in Ids : c \notin t.kids[q],
         ~HasEqualChild(t, p, c)
  PROVE  TreeInv(AddChild(t, p, c), o, n)
<1> DEFINE a == AddChild(t, p, c)
<1>1. t \in Trees
  BY DEF TreeInv
<1>2. /\ a \in Trees
      /\ a.key = t.key
      /\ a.kids = [t.kids EXCEPT ![p] = @ \cup {c}]
      /\ a.up = [t.up EXCEPT ![c] = p]
  BY <1>1 DEF AddChild, Trees
<1>3. /\ \A q \in Ids \ {p} : a.kids[q] = t.kids[q]
      /\ a.kids[p] = t.kids[p] \cup {c}
      /\ \A x \in Ids \ {c} : a.up[x] = t.up[x]
      /\ a.up[c] = p
      /\ t.kids \in [Ids -> SUBSET Ids]
  BY <1>1, <1>2 DEF Trees
<1>4. IsForest(a, n)
  <2>1. \A q \in Ids : \A x \in a.kids[q] : q < x /\ x < n
    BY <1>3 DEF TreeInv, IsForest
  <2>2. \A q, r \in Ids : \A x \in a.kids[q] : x \in a.kids[r] => q = r
    BY <1>3 DEF TreeInv, IsForest
  <2>3. \A x \in Ids : a.up[x] < x
    BY <1>3 DEF TreeInv, IsForest
  <2>4. \A x \in Ids : x >= n => a.up[x] = NoElement
    BY <1>3 DEF TreeInv, IsForest, Ids
  <2> QED
    BY <2>1, <2>2, <2>3, <2>4 DEF IsForest
<1>5. PointersAgree(a, o)
  BY <1>3 DEF TreeInv, PointersAgree
<1>6. NoEqualSiblings(a)
  BY <1>2, <1>3 DEF TreeInv, NoEqualSiblings, Equal, HasEqualChild
<1> QED
  BY <1>2, <1>4, <1>5, <1>6 DEF TreeInv

-----------------------------------------------------------------------------
(* The invariant. *)

\* The tree that resolving makes: every parent pointer is the parent, and
\* every element is equal to itself only.
LEMMA ResolvedTreeInv ==
  ASSUME NEW k \in 0 .. MaxElements, NEW u \in Forests(k), NEW cls
  PROVE  TreeInv(TreeOf(k, u, cls), k, k + 1)
<1> DEFINE r == TreeOf(k, u, cls)
<1> USE MaxElementsAssumption
<1>1. /\ r.kids = [p \in Ids |-> {c \in 1 .. k : u[c] = p}]
      /\ r.up = [c \in Ids |-> IF c \in 1 .. k THEN u[c] ELSE NoElement]
      /\ r.key = [c \in Ids |-> c]
      /\ r.kind = [c \in Ids |-> IF c \in cls THEN "class" ELSE "method"]
      /\ r = [kids |-> r.kids, up |-> r.up, key |-> r.key, kind |-> r.kind]
  BY DEF TreeOf
<1>2. /\ k \in Nat
      /\ 1 .. k \subseteq Ids
      /\ \A c \in 1 .. k : u[c] \in 0 .. k /\ u[c] < c
  BY DEF Forests, Ids
<1>3. r \in Trees
  <2>1. r.kids \in [Ids -> SUBSET Ids]
    BY <1>1, <1>2
  <2>2. r.up \in [Ids -> Ids \cup {NoElement}]
    BY <1>1, <1>2 DEF Ids, NoElement
  <2>3. r.key \in [Ids -> Ids] /\ r.kind \in [Ids -> Kinds]
    BY <1>1 DEF Kinds
  <2> QED
    BY <1>1, <2>1, <2>2, <2>3 DEF Trees
<1>4. IsForest(r, k + 1)
  BY <1>1, <1>2 DEF IsForest, Ids, NoElement
<1>5. PointersAgree(r, k)
  BY <1>1, <1>2 DEF PointersAgree
<1>6. NoEqualSiblings(r)
  BY <1>1, <1>2 DEF NoEqualSiblings, Equal
<1> QED
  BY <1>3, <1>4, <1>5, <1>6 DEF TreeInv

\* Initially there is no element.
LEMMA InitInv == Init => IInv
<1> SUFFICES ASSUME Init PROVE IInv
  OBVIOUS
<1> USE MaxElementsAssumption, BoundsAssumption
<1>1. <<>> \in Forests(0)
  BY DEF Forests
<1>2. TreeInv(tree, 0, 1)
  BY <1>1, ResolvedTreeInv DEF Init
<1>3. TypeOK
  BY <1>2 DEF TypeOK, Init, NoRequest, Ids, NoElement, Phases, ResultKinds, TreeInv
<1> QED
  BY <1>2, <1>3 DEF IInv, Init

\* An addition, from the decoded tree t in which object next is unattached.
LEMMA AddNewKeeps ==
  ASSUME IInv, NEW t, NEW p \in Ids, NEW s \in Shapes,
         p < next, next + Size(s) <= MaxElements + 1,
         TreeInv(t, originals, next + Size(s)),
         \A q \in Ids : next \notin t.kids[q],
         AddNew(t, p, s)
  PROVE  /\ TreeInv(tree', originals, next')
         /\ next' \in originals + 1 .. MaxElements + 1
         /\ phase' \in {phase, "failed"}
<1> USE MaxElementsAssumption, BoundsAssumption
<1>1. /\ originals \in Nat
      /\ next \in Ids
      /\ Size(s) \in {1, 2}
      /\ next + Size(s) \in originals + 1 .. MaxElements + 1
      /\ next + Size(s) \in Nat /\ next < next + Size(s)
  BY SMTT(30) DEF IInv, TypeOK, Size, Ids
<1>2. ASSUME ~HasEqualChild(t, p, next)
      PROVE  TreeInv(AddChild(t, p, next), originals, next + Size(s))
  BY <1>1, <1>2, AddChildKeeps
<1> QED
  BY <1>1, <1>2 DEF AddNew

\* The elements an edit is aimed at were made before the new one.
LEMMA EditTargets ==
  ASSUME IInv, phase = "applying"
  PROVE  /\ element \in Ids /\ element < next
         /\ Parent # NoElement => Parent \in Ids /\ Parent < next
         /\ Grandparent # NoElement => Grandparent \in Ids /\ Grandparent < next /\ Parent # NoElement
<1> USE MaxElementsAssumption, BoundsAssumption
<1>1. element \in Ids /\ element < next
  BY DEF IInv, TypeOK, Ids
<1>2. /\ \A c \in Ids : tree.up[c] \in Ids \cup {NoElement}
      /\ \A c \in Ids : tree.up[c] < c
  BY DEF IInv, TreeInv, Trees, IsForest
<1>3. next \in Nat
  BY DEF IInv, TypeOK
<1>4. Parent # NoElement => Parent \in Ids /\ Parent < next
  BY <1>1, <1>2, <1>3 DEF Parent, Ids, NoElement
<1>5. Grandparent # NoElement => Grandparent \in Ids /\ Grandparent < next /\ Parent # NoElement
  BY <1>2, <1>3, <1>4 DEF Grandparent, Ids, NoElement
<1> QED
  BY <1>1, <1>4, <1>5

\* What the loop does when it goes on keeps the type invariant.
LEMMA AdvanceTypes ==
  ASSUME IInv, phase \in {"visiting", "applying"}, Advance
  PROVE  /\ element' \in Nat \ {0} /\ mapping' \in Nat \ {0}
         /\ phase' \in {"visiting", "written"}
         /\ element' \in 1 .. originals
  BY BoundsAssumption DEF IInv, TypeOK, Advance, LastVisited

\* Every action keeps the invariant.
LEMMA StepInv == IInv /\ [Next]_vars => IInv'
<1> SUFFICES ASSUME IInv, [Next]_vars PROVE IInv'
  OBVIOUS
<1> USE MaxElementsAssumption, BoundsAssumption
<1>1. TypeOK /\ TreeInv(tree, originals, next)
  BY DEF IInv
<1>2. ASSUME UNCHANGED <<tree, originals, next>>
      PROVE  /\ TreeInv(tree', originals', next')
             /\ tree' \in Trees
  BY <1>1, <1>2 DEF TreeInv
<1>3. CASE FilterAndResolve
  <2>1. PICK k \in 0 .. MaxOriginals : \E u \in Forests(k) : \E cls \in SUBSET (1 .. k) :
           tree' = TreeOf(k, u, cls) /\ originals' = k /\ next' = k + 1
    BY <1>3 DEF FilterAndResolve
  <2>2. k \in 0 .. MaxElements
    OBVIOUS
  <2>3. TreeInv(tree', originals', next')
    <3>1. PICK u \in Forests(k) : \E cls \in SUBSET (1 .. k) : tree' = TreeOf(k, u, cls)
      BY <2>1
    <3>2. PICK cls \in SUBSET (1 .. k) : tree' = TreeOf(k, u, cls)
      BY <3>1
    <3> QED
      BY <2>1, <2>2, <3>2, ResolvedTreeInv
  <2>4. TypeOK'
    BY <1>1, <1>3, <2>1, <2>3 DEF FilterAndResolve, TypeOK, TreeInv
  <2> QED
    BY <2>3, <2>4 DEF IInv
<1>4. CASE AddMapping
  BY <1>1, <1>2, <1>4 DEF AddMapping, IInv, TypeOK
<1>5. CASE WriteTo
  BY <1>1, <1>2, <1>5 DEF WriteTo, IInv, TypeOK, Phases
<1>6. CASE Skip
  BY <1>1, <1>2, <1>6, AdvanceTypes DEF Skip, IInv, TypeOK, Phases
<1>7. CASE Ask
  <2>1. element \in Ids
    BY <1>1, <1>7 DEF Ask, TypeOK, Ids
  <2>2. tree.up[element] \in Ids \cup {NoElement}
    BY <1>1, <2>1 DEF TypeOK, Trees
  <2>3. \A p \in Ids : FirstEqual(tree, p, element) \subseteq Ids
    BY <1>1 DEF FirstEqual, TypeOK, Trees
  <2>4. RequestFor(tree, element) \in [parent : Ids \cup {NoElement}, child : Ids \cup {NoElement}]
    <3> DEFINE p == tree.up[element]
    <3>1. CASE p = NoElement
      BY <3>1, <2>1 DEF RequestFor
    <3>2. CASE p # NoElement /\ FirstEqual(tree, p, element) = {}
      BY <3>2, <2>2 DEF RequestFor
    <3>3. CASE p # NoElement /\ FirstEqual(tree, p, element) # {}
      <4>1. (CHOOSE x \in FirstEqual(tree, p, element) : TRUE) \in Ids
        BY <3>3, <2>2, <2>3
      <4> QED
        BY <3>3, <4>1, <2>2 DEF RequestFor
    <3> QED
      BY <3>1, <3>2, <3>3
  <2> QED
    BY <1>1, <1>2, <1>7, <2>4 DEF Ask, IInv, TypeOK, Phases
<1>8. CASE Answer
  <2>1. PICK n \in 0 .. MaxResults : results' \in [1 .. n -> ResultKinds]
    BY <1>8 DEF Answer
  <2>2. results' \in Seq(ResultKinds) /\ Len(results') <= MaxResults
    BY <2>1
  <2> QED
    BY <1>1, <1>2, <1>8, <2>2 DEF Answer, IInv, TypeOK, Phases
<1>9. CASE HandlerThrows
  BY <1>1, <1>2, <1>9 DEF HandlerThrows, IInv, TypeOK, Phases
<1>10. CASE ApplyResult
  <2>1. /\ phase = "applying"
        /\ results' \in Seq(ResultKinds) /\ Len(results') <= MaxResults
        /\ UNCHANGED <<originals, mappings, element, mapping, request>>
    <3>1. \E kind \in ResultKinds : Applying(kind)
      BY <1>10 DEF ApplyResult, NoChange, RemoveChildResult, RemoveParentResult,
                   AddToChild, AddToParent, ReplaceChild, ReplaceParent, ResultKinds
    <3>2. /\ phase = "applying"
          /\ results # <<>>
          /\ results' = Tail(results)
          /\ UNCHANGED <<originals, mappings, element, mapping, request>>
      BY <3>1 DEF Applying
    <3> QED
      BY <1>1, <3>2 DEF TypeOK
  <2>2. SUFFICES /\ TreeInv(tree', originals, next')
                 /\ next' \in originals + 1 .. MaxElements + 1
                 /\ phase' \in {phase, "failed"}
    BY <1>1, <2>1 DEF IInv, TypeOK, TreeInv, Phases
  <2>3. /\ originals \in Nat /\ next \in Nat \ {0} /\ originals < next
        /\ next \in originals + 1 .. MaxElements + 1
    BY <1>1 DEF TypeOK
  <2>4. \A s \in Shapes : NewChild(s) =>
          /\ next + Size(s) <= MaxElements + 1
          /\ next + Size(s) \in Nat
          /\ TreeInv(Decode(tree, next, s), originals, next + Size(s))
          /\ \A q \in Ids : next \notin Decode(tree, next, s).kids[q]
    <3> SUFFICES ASSUME NEW s \in Shapes, NewChild(s)
                 PROVE  /\ next + Size(s) <= MaxElements + 1
                        /\ next + Size(s) \in Nat
                        /\ TreeInv(Decode(tree, next, s), originals, next + Size(s))
                        /\ \A q \in Ids : next \notin Decode(tree, next, s).kids[q]
      OBVIOUS
    <3>1. next + Size(s) <= MaxElements + 1
      BY DEF NewChild
    <3>2. next + Size(s) \in Nat
      BY <2>3 DEF Size
    <3> QED
      BY <1>1, <2>3, <3>1, <3>2, DecodeKeeps
  <2>5. CASE NoChange
    BY <1>1, <2>3, <2>5 DEF NoChange
  <2>6. CASE RemoveChildResult
    BY <1>1, <2>1, <2>3, <2>6, EditTargets, RemoveChildKeeps DEF RemoveChildResult
  <2>7. CASE RemoveParentResult
    BY <1>1, <2>1, <2>3, <2>7, EditTargets, RemoveChildKeeps DEF RemoveParentResult
  <2>8. ASSUME NEW s \in Shapes, AddToChild(s)
        PROVE  /\ TreeInv(tree', originals, next')
               /\ next' \in originals + 1 .. MaxElements + 1
               /\ phase' \in {phase, "failed"}
    BY <2>1, <2>4, <2>8, EditTargets, AddNewKeeps DEF AddToChild
  <2>9. ASSUME NEW s \in Shapes, AddToParent(s)
        PROVE  /\ TreeInv(tree', originals, next')
               /\ next' \in originals + 1 .. MaxElements + 1
               /\ phase' \in {phase, "failed"}
    BY <1>1, <2>1, <2>3, <2>4, <2>9, EditTargets, AddNewKeeps DEF AddToParent
  <2>10. ASSUME NEW s \in Shapes, NEW p \in Ids, NEW c \in Ids, NewChild(s), p < next,
                AddNew(RemoveChild(Decode(tree, next, s), p, c), p, s)
         PROVE  /\ TreeInv(tree', originals, next')
                /\ next' \in originals + 1 .. MaxElements + 1
                /\ phase' \in {phase, "failed"}
    <3> DEFINE t == RemoveChild(Decode(tree, next, s), p, c)
    <3>1. TreeInv(t, originals, next + Size(s))
      BY <2>3, <2>4, <2>10, RemoveChildKeeps
    <3>2. \A q \in Ids : next \notin t.kids[q]
      <4>1. Decode(tree, next, s) \in Trees
        BY <2>4, <2>10 DEF TreeInv
      <4> QED
        BY <4>1, <2>4, <2>10 DEF RemoveChild, Trees
    <3> QED
      BY <2>4, <2>10, <3>1, <3>2, AddNewKeeps
  <2>11. ASSUME NEW s \in Shapes, ReplaceChild(s)
         PROVE  /\ TreeInv(tree', originals, next')
                /\ next' \in originals + 1 .. MaxElements + 1
                /\ phase' \in {phase, "failed"}
    BY <1>1, <2>1, <2>3, <2>10, <2>11, EditTargets DEF ReplaceChild
  <2>12. ASSUME NEW s \in Shapes, ReplaceParent(s)
         PROVE  /\ TreeInv(tree', originals, next')
                /\ next' \in originals + 1 .. MaxElements + 1
                /\ phase' \in {phase, "failed"}
    BY <1>1, <2>1, <2>3, <2>10, <2>12, EditTargets DEF ReplaceParent
  <2> QED
    BY <1>10, <2>5, <2>6, <2>7, <2>8, <2>9, <2>11, <2>12 DEF ApplyResult
<1>11. CASE Applied
  BY <1>1, <1>2, <1>11, AdvanceTypes DEF Applied, IInv, TypeOK, Phases, NoRequest
<1>12. CASE Close
  BY <1>1, <1>2, <1>12 DEF Close, IInv, TypeOK, Phases
<1>13. CASE Closed \/ UNCHANGED vars
  BY <1>1, <1>2, <1>13 DEF Closed, vars, IInv, TypeOK
<1> QED
  BY <1>3, <1>4, <1>5, <1>6, <1>7, <1>8, <1>9, <1>10, <1>11, <1>12, <1>13 DEF Next

LEMMA Invariance == Spec => []IInv
<1>1. Init => IInv
  BY InitInv
<1>2. IInv /\ [Next]_vars => IInv'
  BY StepInv
<1> QED
  BY <1>1, <1>2, PTL DEF Spec

\* The variables have their types, for every bound.
THEOREM EngineTypeCorrect == Spec => []TypeOK
<1>1. IInv => TypeOK
  BY DEF IInv
<1> QED
  BY <1>1, Invariance, PTL

\* No sequence of results makes the resolved elements anything but a forest
\* (IndexedServiceImpl.applyResult, ResolvedElement.addChild).
THEOREM ElementsFormAForest == Spec => []Forest
<1>1. IInv => Forest
  BY DEF IInv, TreeInv, Forest
<1> QED
  BY <1>1, Invariance, PTL

\* Children know their parents, whatever has been removed and replaced; the
\* inside of what clients sent is the exception.
THEOREM ChildrenKnowTheirParent == Spec => []ParentPointersAgree
<1>1. IInv => ParentPointersAgree
  BY DEF IInv, TreeInv, ParentPointersAgree
<1> QED
  BY <1>1, Invariance, PTL

\* The require of addChild keeps siblings different for good.
THEOREM SiblingsStayDifferent == Spec => []SiblingsDiffer
<1>1. IInv => SiblingsDiffer
  BY DEF IInv, TreeInv, SiblingsDiffer
<1> QED
  BY <1>1, Invariance, PTL

-----------------------------------------------------------------------------
(* Results do what they say to live elements. *)

\* In a tree without equal siblings indexOf and remove find the element itself.
LEMMA FirstEqualIsTheElement ==
  ASSUME NEW t, NEW o \in Nat, NEW n \in Nat, TreeInv(t, o, n),
         NEW p \in Ids, NEW c \in t.kids[p]
  PROVE  FirstEqual(t, p, c) = {c}
<1>1. t.kids[p] \subseteq Ids
  BY DEF TreeInv, Trees
<1>2. \A x \in t.kids[p] : Equal(t, x, c) => x = c
  BY DEF TreeInv, NoEqualSiblings
<1> QED
  BY <1>1, <1>2 DEF FirstEqual, Equal, Ids

\* Removing a child takes out exactly it.
LEMMA RemoveChildExact ==
  ASSUME NEW t, NEW o \in Nat, NEW n \in Nat, TreeInv(t, o, n),
         NEW p \in Ids, NEW c \in t.kids[p]
  PROVE  /\ RemoveChild(t, p, c).kids[p] = t.kids[p] \ {c}
         /\ \A q \in Ids : c \notin RemoveChild(t, p, c).kids[q]
<1> DEFINE r == RemoveChild(t, p, c)
<1>1. FirstEqual(t, p, c) = {c}
  BY FirstEqualIsTheElement
<1>2. /\ t \in Trees
      /\ \A q \in Ids : c \in t.kids[q] => q = p
  BY DEF TreeInv, IsForest
<1>3. r.kids = [t.kids EXCEPT ![p] = @ \ {c}]
  BY <1>1, <1>2 DEF RemoveChild, Trees
<1>4. r.kids[p] = t.kids[p] \ {c} /\ \A q \in Ids \ {p} : r.kids[q] = t.kids[q]
  BY <1>2, <1>3 DEF Trees
<1> QED
  BY <1>2, <1>4

\* Decoding adds nothing below, and nothing above, what was made before.
LEMMA DecodeLeavesTheOld ==
  ASSUME NEW t, NEW o \in Nat, NEW n \in Ids, TreeInv(t, o, n), NEW s \in Shapes
  PROVE  /\ \A p \in Ids : \A c \in Decode(t, n, s).kids[p] : c \in t.kids[p] \/ c = n + 1
         /\ \A p \in Ids \ {n} : Decode(t, n, s).kids[p] = t.kids[p]
         /\ Decode(t, n, s).up = t.up
  BY DEF Decode, Trees, TreeInv

\* One result makes nothing a child again but what it brings, and changes no
\* parent pointer but of what it brings.
LEMMA ResultsBringOnlyTheNew ==
  ASSUME IInv, ApplyResult
  PROVE  /\ \A p \in Ids : \A c \in tree'.kids[p] : c \in tree.kids[p] \/ c >= next
         /\ \A c \in Allocated : tree'.up[c] = tree.up[c]
         /\ originals' = originals
<1> USE MaxElementsAssumption, BoundsAssumption
<1> DEFINE Only(t) == /\ \A p \in Ids : \A c \in t.kids[p] : c \in tree.kids[p] \/ c >= next
                      /\ \A c \in Allocated : t.up[c] = tree.up[c]
<1>1. /\ phase = "applying" /\ originals' = originals
      /\ TreeInv(tree, originals, next) /\ tree \in Trees
      /\ originals \in Nat /\ next \in Nat \ {0} /\ originals < next /\ next <= MaxElements + 1
      /\ Allocated \subseteq Ids
  BY DEF ApplyResult, NoChange, RemoveChildResult, RemoveParentResult, AddToChild, AddToParent,
         ReplaceChild, ReplaceParent, Applying, IInv, TypeOK, TreeInv, Allocated, Ids
<1>2. \A t \in Trees, p \in Ids, c \in Ids : Only(t) => RemoveChild(t, p, c) \in Trees /\ Only(RemoveChild(t, p, c))
  BY SMTT(30) DEF RemoveChild, Trees
<1>3. \A s \in Shapes : NewChild(s) =>
        /\ next \in Ids
        /\ Decode(tree, next, s) \in Trees
        /\ Only(Decode(tree, next, s))
  <2> SUFFICES ASSUME NEW s \in Shapes, NewChild(s)
               PROVE  /\ next \in Ids
                      /\ Decode(tree, next, s) \in Trees
                      /\ Only(Decode(tree, next, s))
    OBVIOUS
  <2>1. next + Size(s) <= MaxElements + 1 /\ Size(s) \in {1, 2}
    BY DEF NewChild, Size
  <2>2. next \in Ids
    BY <1>1, <2>1 DEF Ids
  <2>3. Decode(tree, next, s) \in Trees
    BY <1>1, <2>1, DecodeKeeps DEF TreeInv
  <2>4. next + 1 >= next
    BY <1>1
  <2>5. Only(Decode(tree, next, s))
    BY <1>1, <2>2, <2>4, DecodeLeavesTheOld
  <2> QED
    BY <2>2, <2>3, <2>5
<1>4. ASSUME NEW t \in Trees, NEW p \in Ids, NEW s, next \in Ids, Only(t), AddNew(t, p, s)
      PROVE  Only(tree')
  <2>1. Only(AddChild(t, p, next))
    <3> DEFINE a == AddChild(t, p, next)
    <3>1. /\ a.kids = [t.kids EXCEPT ![p] = @ \cup {next}]
          /\ a.up = [t.up EXCEPT ![next] = p]
      BY <1>4 DEF AddChild, Trees
    <3>2. /\ \A q \in Ids : a.kids[q] \subseteq t.kids[q] \cup {next}
          /\ \A c \in Ids \ {next} : a.up[c] = t.up[c]
      BY <1>4, <3>1 DEF Trees
    <3>3. next >= next /\ next \notin Allocated
      BY <1>1 DEF Allocated
    <3> QED
      BY <1>1, <1>4, <3>2, <3>3
  <2> QED
    BY <1>4, <2>1 DEF AddNew
<1>5. Only(tree)
  OBVIOUS
<1>6. CASE NoChange
  BY <1>1, <1>5, <1>6 DEF NoChange
<1>7. CASE RemoveChildResult
  BY <1>1, <1>2, <1>5, <1>7, EditTargets DEF RemoveChildResult
<1>8. CASE RemoveParentResult
  BY <1>1, <1>2, <1>5, <1>8, EditTargets DEF RemoveParentResult
<1>9. ASSUME NEW s \in Shapes, AddToChild(s) PROVE Only(tree')
  BY <1>1, <1>3, <1>4, <1>9, EditTargets DEF AddToChild
<1>10. ASSUME NEW s \in Shapes, AddToParent(s) PROVE Only(tree')
  BY <1>1, <1>3, <1>4, <1>5, <1>10, EditTargets DEF AddToParent
<1>11. ASSUME NEW s \in Shapes, NEW p \in Ids, NEW c \in Ids, NewChild(s),
              AddNew(RemoveChild(Decode(tree, next, s), p, c), p, s)
       PROVE  Only(tree')
  <2>1. Decode(tree, next, s) \in Trees /\ Only(Decode(tree, next, s)) /\ next \in Ids
    BY <1>3, <1>11
  <2>2. /\ RemoveChild(Decode(tree, next, s), p, c) \in Trees
        /\ Only(RemoveChild(Decode(tree, next, s), p, c))
    BY <1>2, <2>1
  <2> QED
    BY <1>4, <1>11, <2>1, <2>2
<1>12. ASSUME NEW s \in Shapes, ReplaceChild(s) PROVE Only(tree')
  BY <1>1, <1>5, <1>12, <1>11, EditTargets DEF ReplaceChild
<1>13. ASSUME NEW s \in Shapes, ReplaceParent(s) PROVE Only(tree')
  BY <1>1, <1>5, <1>13, <1>11, EditTargets DEF ReplaceParent
<1>14. Only(tree')
  BY <1>6, <1>7, <1>8, <1>9, <1>10, <1>12, <1>13 DEF ApplyResult
<1> QED
  BY <1>1, <1>14

\* The counters, as numbers.
LEMMA Counters ==
  ASSUME IInv
  PROVE  /\ originals \in Nat /\ next \in Nat /\ originals < next /\ next <= MaxElements + 1
         /\ \A e \in Allocated : e \in Ids /\ e < next
         /\ tree \in Trees /\ TreeInv(tree, originals, next)
<1> USE MaxElementsAssumption, BoundsAssumption
<1>1. originals \in Nat /\ next \in Nat /\ originals < next /\ next <= MaxElements + 1
  BY DEF IInv, TypeOK
<1>2. \A e \in Allocated : e \in Ids /\ e < next
  BY <1>1 DEF Allocated, Ids
<1> QED
  BY <1>1, <1>2 DEF IInv, TreeInv

\* What has been taken out of the tree stays out: a later ReplaceChild brings
\* its replacement, never the element itself.
THEOREM RemovedForGood == Spec => RemovedStaysOut
<1> DEFINE Stays == phase # "idle" =>
                      \A e \in Allocated : ~Attached(tree, e) => ~Attached(tree', e)
<1>1. ASSUME IInv, Next, phase # "idle" PROVE Stays
  <2>1. CASE ApplyResult
    <3>1. SUFFICES ASSUME NEW e \in Allocated, Attached(tree', e)
                   PROVE  Attached(tree, e)
      OBVIOUS
    <3>2. e < next
      BY <1>1, <3>1, Counters
    <3>3. \A p \in Ids : e \in tree'.kids[p] => e \in tree.kids[p]
      <4>1. ~(e >= next)
        BY <1>1, <3>1, <3>2, Counters DEF Ids
      <4> QED
        BY <1>1, <2>1, <4>1, ResultsBringOnlyTheNew
    <3>4. tree'.up[e] = tree.up[e]
      BY <2>1, <1>1, <3>1, ResultsBringOnlyTheNew
    <3> QED
      BY <1>1, <3>1, <3>3, <3>4 DEF Attached
  <2>2. CASE tree' = tree
    BY <2>2 DEF Attached
  <2>3. ApplyResult \/ tree' = tree
    BY <1>1 DEF Next, FilterAndResolve, AddMapping, WriteTo, Skip, Ask, Answer, HandlerThrows,
                Applied, Close, Closed, vars
  <2> QED
    BY <2>1, <2>2, <2>3
<1>2. IInv /\ [Next]_vars => [Stays]_vars
  BY <1>1
<1> QED
  BY <1>2, Invariance, PTL DEF Spec, RemovedStaysOut

\* A remove or a replace of an element that is in the tree does just that.
THEOREM EditsOfLiveElements == Spec => EditsTakeEffect
<1> USE MaxElementsAssumption, BoundsAssumption
<1> DEFINE Effect ==
      LET p == Parent
          removes  == RemoveChildResult
          replaces == \E s \in Shapes : ReplaceChild(s)
      IN  p # NoElement /\ element \in tree.kids[p] =>
            /\ removes \/ replaces => ~Attached(tree', element)
            /\ removes => tree'.kids[p] = tree.kids[p] \ {element}
            /\ replaces /\ phase' # "failed" =>
                  tree'.kids[p] = (tree.kids[p] \ {element}) \cup {next}
<1>1. ASSUME IInv, Parent # NoElement, element \in tree.kids[Parent], RemoveChildResult
      PROVE  /\ ~Attached(tree', element)
             /\ tree'.kids[Parent] = tree.kids[Parent] \ {element}
  <2>1. /\ phase = "applying"
        /\ tree' = RemoveChild(tree, Parent, element)
        /\ originals' = originals
    BY <1>1 DEF RemoveChildResult, Applying
  <2>2. Parent \in Ids
    BY <1>1, <2>1, EditTargets
  <2>3. /\ tree'.kids[Parent] = tree.kids[Parent] \ {element}
        /\ \A q \in Ids : element \notin tree'.kids[q]
    <3>1. originals \in Nat /\ next \in Nat /\ TreeInv(tree, originals, next)
      BY <1>1, Counters
    <3>2. /\ RemoveChild(tree, Parent, element).kids[Parent] = tree.kids[Parent] \ {element}
          /\ \A q \in Ids : element \notin RemoveChild(tree, Parent, element).kids[q]
      BY <1>1, <2>2, <3>1, RemoveChildExact
    <3> QED
      BY <2>1, <3>2
  <2>4. tree'.up = tree.up
    BY <1>1, <2>1, Counters DEF RemoveChild, Trees
  <2> QED
    BY <1>1, <2>1, <2>3, <2>4 DEF Attached, Parent
<1>2. ASSUME IInv, Parent # NoElement, element \in tree.kids[Parent],
             NEW s \in Shapes, ReplaceChild(s)
      PROVE  /\ ~Attached(tree', element)
             /\ phase' # "failed" =>
                  tree'.kids[Parent] = (tree.kids[Parent] \ {element}) \cup {next}
  <2> DEFINE d == Decode(tree, next, s)
             r == RemoveChild(d, Parent, element)
  <2>1. /\ phase = "applying" /\ originals' = originals /\ NewChild(s)
        /\ AddNew(r, Parent, s)
    BY <1>1, <1>2 DEF ReplaceChild, Applying
  <2>2. /\ Parent \in Ids /\ Parent < next /\ element \in Ids /\ element < next
        /\ next \in Nat /\ next # element /\ next # Parent
    BY <1>2, <2>1, EditTargets, Counters DEF Ids
  <2>3. /\ next \in Ids
        /\ next + Size(s) \in Nat
        /\ TreeInv(d, originals, next + Size(s))
    <3>1. next + Size(s) <= MaxElements + 1 /\ Size(s) \in {1, 2}
      BY <2>1 DEF NewChild, Size
    <3>2. next \in Ids /\ next \in Nat \ {0} /\ next + Size(s) \in Nat
      BY <1>2, <2>2, <3>1, Counters DEF Ids
    <3> QED
      BY <1>2, <3>1, <3>2, Counters, DecodeKeeps
  <2>4. d.kids[Parent] = tree.kids[Parent] /\ d.up = tree.up
    <3>1. originals \in Nat /\ TreeInv(tree, originals, next) /\ Parent \in Ids \ {next}
      BY <1>2, <2>2, Counters
    <3> QED
      BY <2>3, <3>1, DecodeLeavesTheOld
  <2>5. /\ r.kids[Parent] = tree.kids[Parent] \ {element}
        /\ \A q \in Ids : element \notin r.kids[q]
    <3>1. originals \in Nat /\ element \in d.kids[Parent]
      BY <1>2, <2>4, Counters
    <3>2. /\ r.kids[Parent] = d.kids[Parent] \ {element}
          /\ \A q \in Ids : element \notin r.kids[q]
      BY <2>2, <2>3, <3>1, RemoveChildExact
    <3> QED
      BY <2>4, <3>2
  <2>6. r \in Trees /\ r.up = tree.up
    BY <2>2, <2>3, <2>4 DEF RemoveChild, Trees, TreeInv
  <2>7. /\ \A q \in Ids : element \notin AddChild(r, Parent, next).kids[q]
        /\ AddChild(r, Parent, next).kids[Parent] = r.kids[Parent] \cup {next}
        /\ AddChild(r, Parent, next).up[element] = tree.up[element]
    <3>1. /\ AddChild(r, Parent, next).kids = [r.kids EXCEPT ![Parent] = @ \cup {next}]
          /\ AddChild(r, Parent, next).up = [r.up EXCEPT ![next] = Parent]
      BY <2>6 DEF AddChild, Trees
    <3> QED
      BY <2>2, <2>3, <2>5, <2>6, <3>1 DEF Trees
  <2>8. CASE HasEqualChild(r, Parent, next)
    BY <1>2, <2>1, <2>5, <2>6, <2>8 DEF AddNew, Attached, Parent
  <2>9. CASE ~HasEqualChild(r, Parent, next)
    BY <1>2, <2>1, <2>5, <2>7, <2>9 DEF AddNew, Attached, Parent
  <2> QED
    BY <2>8, <2>9
<1>3. IInv => Effect
  BY <1>1, <1>2
<1> QED
  BY <1>3, Invariance, PTL DEF Spec, EditsTakeEffect

-----------------------------------------------------------------------------
(* The request. *)

\* While a handler is running nothing moves, so the request still says where
\* the element is.
Asked == phase = "asked" => request = RequestFor(tree, element)

LEMMA AskedInvariance == Spec => []Asked
<1>1. Init => Asked
  BY DEF Init, Asked
<1>2. Asked /\ [Next]_vars => Asked'
  <2> SUFFICES ASSUME Asked, [Next]_vars PROVE Asked'
    OBVIOUS
  <2>1. CASE Ask
    BY <2>1 DEF Ask, Asked
  <2>2. CASE Skip \/ Applied
    BY <2>2 DEF Skip, Applied, Advance, Asked
  <2>3. CASE ApplyResult
    <3>1. phase = "applying"
      BY <2>3 DEF ApplyResult, NoChange, RemoveChildResult, RemoveParentResult, AddToChild,
                  AddToParent, ReplaceChild, ReplaceParent, Applying
    <3>2. phase' \in {phase, "failed"}
      BY <2>3 DEF ApplyResult, NoChange, RemoveChildResult, RemoveParentResult, AddToChild,
                  AddToParent, ReplaceChild, ReplaceParent, AddNew
    <3> QED
      BY <3>1, <3>2 DEF Asked
  <2>4. CASE FilterAndResolve \/ AddMapping \/ WriteTo \/ Answer \/ HandlerThrows \/ Close
    BY <2>4 DEF FilterAndResolve, AddMapping, WriteTo, Answer, HandlerThrows, Close, Asked
  <2>5. CASE Closed \/ UNCHANGED vars
    BY <2>5 DEF Closed, vars, Asked, RequestFor
  <2> QED
    BY <2>1, <2>2, <2>3, <2>4, <2>5 DEF Next
<1> QED
  BY <1>1, <1>2, PTL DEF Spec

\* The handler is shown the element it was registered for, below the parent
\* that lists it, as long as no earlier mapping has taken the element out.
THEOREM LiveElementsAreRequested == Spec => []LiveElementIsRequested
<1>1. ASSUME IInv, Asked, phase = "asked", Attached(tree, element)
      PROVE  /\ request.child = element
             /\ request.parent # element => element \in tree.kids[request.parent]
  <2> DEFINE p == tree.up[element]
  <2>1. /\ request = RequestFor(tree, element)
        /\ element \in 1 .. originals
        /\ originals \in Nat /\ next \in Nat
        /\ TreeInv(tree, originals, next)
    BY <1>1, Counters DEF Asked, IInv, TypeOK
  <2>2. CASE p = NoElement
    BY <2>1, <2>2 DEF RequestFor
  <2>3. CASE p # NoElement
    <3>1. PICK q \in Ids : element \in tree.kids[q]
      BY <1>1, <2>3 DEF Attached
    <3>2. q = p
      BY <2>1, <2>3, <3>1 DEF TreeInv, PointersAgree
    <3>3. FirstEqual(tree, p, element) = {element}
      BY <2>1, <3>1, <3>2, FirstEqualIsTheElement
    <3>4. request.parent = p /\ request.child = element
      BY <2>1, <2>3, <3>3 DEF RequestFor
    <3> QED
      BY <3>1, <3>2, <3>4
  <2> QED
    BY <2>2, <2>3
<1>2. IInv /\ Asked => LiveElementIsRequested
  BY <1>1 DEF LiveElementIsRequested
<1> QED
  BY <1>2, Invariance, AskedInvariance, PTL

=============================================================================
