------------------------- MODULE MappingScopeProofs -------------------------
(***************************************************************************)
(* Proofs about MappingScope, for requests and handlers of any size: types,*)
(* that the results of a call are answers to this request's calls, and     *)
(* that what a handler has read is never written.  A copy is always made   *)
(* at the next free object; the invariant says that parent pointers, along *)
(* which a call climbs, name objects made before it.  Then, about the      *)
(* trees themselves: results are finite, and one edit at any depth is one  *)
(* exact result.                                                           *)
(***************************************************************************)
EXTENDS MappingScope, InductionLemmas, SequenceTheorems, TLAPS

\* t is a tree of the objects below n, so that climbing from one of them stays
\* below n.
MadeBefore(t, n) ==
  /\ t \in Trees
  /\ \A c \in Ids : t.up[c] < n

ResultKinds ==
  {"RemoveChild", "RemoveParent", "ReplaceChild", "ReplaceParent", "AddToChild", "AddToParent"}

Ops == {"remove", "replaceWith", "add"}

\* The results, each for one call; a call that climbs has none yet.
Answers ==
  /\ modifications \in Seq([kind : ResultKinds, element : Ids \cup {NoElement}])
  /\ edits \in Seq([op : Ops, on : Ids, with : Ids \cup {NoElement}])
  /\ Len(modifications) <= Len(edits)
  /\ phase = "climbing" => Len(modifications) < Len(edits)

IInv ==
  /\ TypeOK
  /\ MadeBefore(tree, next)
  /\ Answers
  /\ bounds \in Bounds
  /\ pending \in [target : 0 .. next - 1, other : 0 .. next - 1]
  /\ phase = "climbing" => pending.target # NoElement /\ pending.other # NoElement

-----------------------------------------------------------------------------
(* Numbers of objects. *)

LEMMA ObjectsAreIds ==
  ASSUME NEW n \in Nat, n <= MaxElements + 1
  PROVE  0 .. n - 1 \subseteq Ids \cup {NoElement}
BY MaxElementsAssumption DEF Ids, NoElement

LEMMA ObjectsStay ==
  ASSUME NEW n \in Nat \ {0}, NEW m \in Nat, n <= m
  PROVE  {NoElement} \cup (1 .. n - 1) \subseteq 0 .. m - 1
BY DEF NoElement

-----------------------------------------------------------------------------
(* The tree. *)

\* A decoded request is a tree of its own elements.
LEMMA RequestIsMade ==
  ASSUME NEW k \in 0 .. MaxElements, NEW u \in Forests(k), NEW cls
  PROVE  MadeBefore(TreeOf(k, u, cls), k + 1)
<1> DEFINE r == TreeOf(k, u, cls)
<1> USE MaxElementsAssumption
<1>1. /\ r.kids = [p \in Ids |-> {c \in 1 .. k : u[c] = p}]
      /\ r.up = [c \in Ids |-> IF c \in 1 .. k THEN u[c] ELSE NoElement]
      /\ r.key = [c \in Ids |-> c]
      /\ r.kind = [c \in Ids |-> IF c \in cls THEN "class" ELSE "method"]
      /\ r = [kids |-> r.kids, up |-> r.up, key |-> r.key, kind |-> r.kind]
  BY DEF TreeOf
<1>2. /\ 1 .. k \subseteq Ids
      /\ \A c \in 1 .. k : u[c] \in 0 .. k
  BY DEF Forests, Ids
<1>3. r.kids \in [Ids -> SUBSET Ids]
  BY <1>1, <1>2
<1>4. /\ r.up \in [Ids -> Ids \cup {NoElement}]
      /\ \A c \in Ids : r.up[c] < k + 1
  BY <1>1, <1>2 DEF Ids, NoElement
<1>5. r.key \in [Ids -> Ids] /\ r.kind \in [Ids -> Kinds]
  BY <1>1 DEF Kinds
<1> QED
  BY <1>1, <1>3, <1>4, <1>5 DEF MadeBefore, Trees

\* A new element of the handler's is the next object; no list changes.
LEMMA MadeIsMade ==
  ASSUME IInv, next <= MaxElements, NEW key \in Ids, NEW kind \in Kinds
  PROVE  LET o == Made(key, kind)
         IN  /\ MadeBefore(o.t, o.n)
             /\ o.t.kids = tree.kids
             /\ o.el = next /\ o.n = next + 1
<1> DEFINE t == [tree EXCEPT !.key[next] = key, !.kind[next] = kind]
<1> USE MaxElementsAssumption
<1>1. tree \in Trees /\ next \in Ids /\ next \in Nat
  BY DEF IInv, TypeOK, MadeBefore, Ids
<1>2. /\ t \in Trees
      /\ t.kids = tree.kids
      /\ t.up = tree.up
  BY <1>1 DEF Trees
<1>3. \A c \in Ids : tree.up[c] < next /\ tree.up[c] \in Nat
  <2>1. tree.up \in [Ids -> Ids \cup {NoElement}]
    BY <1>1 DEF Trees
  <2>2. \A c \in Ids : tree.up[c] < next
    BY DEF IInv, MadeBefore
  <2> QED
    BY <2>1, <2>2 DEF Ids, NoElement
<1>4. MadeBefore(t, next + 1)
  BY <1>1, <1>2, <1>3 DEF MadeBefore
<1> QED
  BY <1>2, <1>4 DEF Made

\* What replaceWith and add are given.
LEMMA OthersAreMade ==
  ASSUME IInv, NEW x \in Ids, NEW o \in Others(x)
  PROVE  /\ MadeBefore(o.t, o.n)
         /\ o.t.kids = tree.kids
         /\ o.n \in next .. MaxElements + 1
         /\ o.el \in 1 .. o.n - 1
<1> USE MaxElementsAssumption
<1>1. /\ tree \in Trees
      /\ received \in Nat /\ next \in received + 1 .. MaxElements + 1
      /\ 1 .. received \subseteq Ids
  BY DEF IInv, TypeOK, Ids
<1>2. CASE o \in {[t |-> tree, el |-> y, n |-> next] :
                    y \in {y \in 1 .. received : x \notin Below(tree, y)}}
  <2>1. o.t = tree /\ o.n = next /\ o.el \in 1 .. received
    BY <1>2
  <2> QED
    BY <2>1, <1>1 DEF IInv
<1>3. ASSUME next <= MaxElements, NEW key \in Ids, NEW kind \in Kinds, o = Made(key, kind)
      PROVE  /\ MadeBefore(o.t, o.n)
             /\ o.t.kids = tree.kids
             /\ o.n \in next .. MaxElements + 1
             /\ o.el \in 1 .. o.n - 1
  BY <1>1, <1>3, MadeIsMade
<1>4. CASE /\ next <= MaxElements
           /\ o \in {Made(next, kind) : kind \in Kinds}
                      \cup {Made(tree.key[y], "class") :
                              y \in {y \in 1 .. received : tree.kind[y] = "class"}}
  <2>1. next \in Ids
    BY <1>1, <1>4 DEF Ids
  <2>2. \A y \in Ids : tree.key[y] \in Ids
    BY <1>1 DEF Trees
  <2>3. \E key \in Ids, kind \in Kinds : o = Made(key, kind)
    BY <1>1, <1>4, <2>1, <2>2 DEF Kinds
  <2> QED
    BY <1>3, <1>4, <2>3
<1>5. next <= MaxElements \/ next > MaxElements
  BY <1>1
<1> QED
  BY <1>2, <1>4, <1>5 DEF Others

\* One frame of replaceWith: a copy is made at the next object, or the call
\* ends.  No list of an object made before changes.
LEMMA ClimbKeeps ==
  ASSUME NEW t, NEW n \in 1 .. MaxElements + 1, MadeBefore(t, n),
         NEW x \in 1 .. n - 1, NEW new, t.up[x] # NoElement => new \subseteq Ids,
         NEW refused, Climb(t, x, n, new, refused)
  PROVE  /\ MadeBefore(tree', next')
         /\ next' \in n .. MaxElements + 1
         /\ phase' \in {"running", "threw", "climbing"}
         /\ pending' \in [target : 0 .. next' - 1, other : 0 .. next' - 1]
         /\ phase' = "climbing" => pending'.target # NoElement /\ pending'.other # NoElement
         /\ \A y \in 1 .. n - 1 : tree'.kids[y] = t.kids[y]
<1> USE MaxElementsAssumption
<1> DEFINE p == t.up[x]
<1>1. t \in Trees /\ x \in Ids /\ p \in Ids \cup {NoElement} /\ p < n
  BY DEF MadeBefore, Trees, Ids
<1>2. CASE p = NoElement \/ (p # NoElement /\ phase' = "threw")
  <2>1. tree' = t /\ next' = n /\ phase' \in {"running", "threw"} /\ pending' = NoCall
    BY <1>2 DEF Climb
  <2> QED
    BY <2>1 DEF NoCall, NoElement
<1>3. CASE p # NoElement /\ phase' # "threw"
  <2>1. /\ n <= MaxElements
        /\ tree' = Rebuild(t, p, n, new)
        /\ next' = n + 1
        /\ phase' = "climbing"
        /\ pending' = [target |-> p, other |-> n]
    BY <1>3 DEF Climb
  <2>2. n \in Ids /\ p \in Ids /\ new \subseteq Ids /\ p \in 1 .. n - 1
    BY <2>1, <1>1, <1>3 DEF Ids, NoElement
  <2>3. /\ tree'.kids = [t.kids EXCEPT ![n] = new]
        /\ tree'.up = [c \in Ids |-> IF c \in new THEN n ELSE t.up[c]]
    BY <2>1, <1>1 DEF Rebuild, Trees
  <2>4. tree' \in Trees
    <3>1. tree'.kids \in [Ids -> SUBSET Ids]
      BY <2>2, <2>3, <1>1 DEF Trees
    <3>2. tree'.up \in [Ids -> Ids \cup {NoElement}]
      BY <2>2, <2>3, <1>1 DEF Trees
    <3>3. tree'.key = [t.key EXCEPT ![n] = IF t.kind[p] = "class" THEN t.key[p] ELSE n]
      BY <2>1, <1>1 DEF Rebuild, Trees
    <3>4. tree'.key \in [Ids -> Ids]
      BY <3>3, <2>2, <1>1 DEF Trees
    <3>5. tree'.kind = [t.kind EXCEPT ![n] = t.kind[p]]
      BY <2>1, <1>1 DEF Rebuild, Trees
    <3>6. tree'.kind \in [Ids -> Kinds]
      BY <3>5, <2>2, <1>1 DEF Trees
    <3>7. tree' = [kids |-> tree'.kids, up |-> tree'.up, key |-> tree'.key, kind |-> tree'.kind]
      BY <2>1, <1>1 DEF Rebuild, Trees
    <3> QED
      BY <3>1, <3>2, <3>4, <3>6, <3>7 DEF Trees
  <2>5. \A c \in Ids : tree'.up[c] < n + 1
    <3> SUFFICES ASSUME NEW c \in Ids PROVE tree'.up[c] < n + 1
      OBVIOUS
    <3>1. t.up \in [Ids -> Ids \cup {NoElement}]
      BY <1>1 DEF Trees
    <3>2. t.up[c] \in Nat /\ t.up[c] < n /\ n \in Nat
      BY <3>1 DEF MadeBefore, Ids, NoElement
    <3>3. tree'.up[c] = n \/ tree'.up[c] = t.up[c]
      BY <2>3
    <3> QED
      BY <3>2, <3>3
  <2>6. \A y \in 1 .. n - 1 : tree'.kids[y] = t.kids[y]
    BY <2>2, <2>3, <1>1 DEF Trees, Ids
  <2> QED
    BY <2>1, <2>2, <2>4, <2>5, <2>6 DEF MadeBefore, NoElement
<1> QED
  BY <1>2, <1>3

-----------------------------------------------------------------------------
(* The invariant. *)

LEMMA InitInv == Init => IInv
<1> SUFFICES ASSUME Init PROVE IInv
  OBVIOUS
<1> USE MaxElementsAssumption
<1>1. <<>> \in Forests(0)
  BY DEF Forests
<1>2. MadeBefore(tree, 1)
  BY <1>1, RequestIsMade DEF Init
<1>3. Len(bounds) \in Nat
  BY ScopeBoundsAssumption DEF Init
<1>4. Answers
  BY DEF Init, Answers
<1> QED
  BY <1>2, <1>3, <1>4 DEF IInv, TypeOK, Init, NoCall, NoElement, MadeBefore

\* mapElement: a fresh tree, no results, no calls.
LEMMA MapElementInv == IInv /\ MapElement => IInv'
<1> SUFFICES ASSUME IInv, MapElement PROVE IInv'
  OBVIOUS
<1> USE MaxElementsAssumption
<1>1. PICK k \in 1 .. bounds[requests'].elements :
        /\ \E u \in Forests(k) : \E cls \in SUBSET (1 .. k) : tree' = TreeOf(k, u, cls)
        /\ received' = k
        /\ next' = k + 1
        /\ \E c \in 1 .. k : current' = c
  BY DEF MapElement
<1>2. requests \in Nat /\ Len(bounds) \in Nat /\ requests' \in 1 .. Len(bounds)
  <2>1. bounds \in Seq([elements : 1 .. MaxElements, calls : Nat])
    BY ScopeBoundsAssumption DEF IInv
  <2>2. Len(bounds) \in Nat
    BY <2>1
  <2>3. requests \in Nat /\ requests < Len(bounds) /\ requests' = requests + 1
    BY DEF MapElement, IInv, TypeOK
  <2> QED
    BY <2>2, <2>3
<1>3. bounds[requests'] \in [elements : 1 .. MaxElements, calls : Nat]
  <2>1. bounds \in Seq([elements : 1 .. MaxElements, calls : Nat])
    BY ScopeBoundsAssumption DEF IInv
  <2> QED
    BY <1>2, <2>1, ElementOfSeq
<1>4. k \in 1 .. MaxElements
  BY <1>3
<1>5. MadeBefore(tree', next')
  BY <1>1, <1>4, RequestIsMade
<1>6. /\ modifications' = <<>> /\ edits' = <<>> /\ phase' = "running"
      /\ pending' = NoCall /\ bounds' = bounds
  BY DEF MapElement, Cleared
<1>7. Answers'
  BY <1>6 DEF Answers
<1>8. pending' \in [target : 0 .. next' - 1, other : 0 .. next' - 1]
  BY <1>1, <1>4, <1>6 DEF NoCall, NoElement
<1>9. TypeOK'
  <2>1. received' \in 0 .. MaxElements /\ next' \in received' + 1 .. MaxElements + 1
    BY <1>1, <1>4
  <2>2. current' \in 0 .. received'
    BY <1>1, <1>4
  <2>3. \A i \in DOMAIN modifications' : modifications'[i].element \in {NoElement} \cup Allocated'
    BY <1>6
  <2>4. tree' \in Trees
    BY <1>5 DEF MadeBefore
  <2>5. pending'.target \in 0 .. next' - 1 /\ pending'.other \in 0 .. next' - 1
    BY <1>8
  <2>6. requests' \in 0 .. Len(bounds')
    BY <1>2, <1>6
  <2> QED
    BY <1>6, <2>1, <2>2, <2>3, <2>4, <2>5, <2>6 DEF TypeOK
<1> QED
  BY <1>5, <1>6, <1>7, <1>8, <1>9 DEF IInv

\* One result more, about an object that was made.
LEMMA ReportAnswers ==
  ASSUME IInv, NEW kind \in ResultKinds, NEW el, el \in 0 .. next' - 1, Report(kind, el),
         next' \in next .. MaxElements + 1
  PROVE  /\ modifications' \in Seq([kind : ResultKinds, element : Ids \cup {NoElement}])
         /\ Len(modifications') = Len(modifications) + 1
         /\ \A i \in DOMAIN modifications' :
              modifications'[i].element \in 0 .. next' - 1
<1> USE MaxElementsAssumption
<1> DEFINE m == [kind |-> kind, element |-> el]
<1>1. /\ next \in Nat \ {0} /\ next' \in Nat /\ next <= next'
      /\ 0 .. next' - 1 \subseteq Ids \cup {NoElement}
  <2>1. received \in Nat /\ next \in received + 1 .. MaxElements + 1
    BY DEF IInv, TypeOK
  <2>2. next \in Nat \ {0}
    BY <2>1
  <2>3. next' \in Nat /\ next <= next' /\ next' <= MaxElements + 1
    BY <2>2
  <2>4. 0 .. next' - 1 \subseteq Ids \cup {NoElement}
    BY <2>3, ObjectsAreIds
  <2> QED
    BY <2>2, <2>3, <2>4
<1>2. m \in [kind : ResultKinds, element : Ids \cup {NoElement}] /\ m.element = el
  BY <1>1
<1>3. modifications \in Seq([kind : ResultKinds, element : Ids \cup {NoElement}])
  BY DEF IInv, Answers
<1>4. modifications' = Append(modifications, m)
  BY DEF Report
<1>5. ASSUME NEW i \in DOMAIN modifications'
      PROVE  modifications'[i].element \in 0 .. next' - 1
  <2>1. CASE i \in DOMAIN modifications
    <3>1. modifications'[i] = modifications[i]
      BY <2>1, <1>2, <1>3, <1>4
    <3>2. modifications[i].element \in {NoElement} \cup (1 .. next - 1)
      BY <2>1 DEF IInv, TypeOK, Allocated
    <3>3. {NoElement} \cup (1 .. next - 1) \subseteq 0 .. next' - 1
      BY <1>1, ObjectsStay
    <3> QED
      BY <3>1, <3>2, <3>3
  <2>2. CASE i = Len(modifications) + 1
    BY <2>2, <1>2, <1>3, <1>4
  <2> QED
    BY <2>1, <2>2, <1>2, <1>3, <1>4, <1>5
<1> QED
  BY <1>2, <1>3, <1>4, <1>5

\* A call of the handler is one edit more.
LEMMA CallingCounts ==
  ASSUME IInv, NEW op \in Ops, NEW x \in Ids, NEW other \in Ids \cup {NoElement},
         Calling(op, x, other)
  PROVE  /\ edits' \in Seq([op : Ops, on : Ids, with : Ids \cup {NoElement}])
         /\ Len(edits') = Len(edits) + 1
         /\ x \in 1 .. next - 1
         /\ phase = "running"
         /\ UNCHANGED <<received, current, requests, bounds>>
<1>1. edits \in Seq([op : Ops, on : Ids, with : Ids \cup {NoElement}])
  BY DEF IInv, Answers
<1>2. [op |-> op, on |-> x, with |-> other] \in [op : Ops, on : Ids, with : Ids \cup {NoElement}]
  OBVIOUS
<1>3. edits' = Append(edits, [op |-> op, on |-> x, with |-> other])
  BY DEF Calling
<1> QED
  BY <1>1, <1>2, <1>3 DEF Calling

-----------------------------------------------------------------------------
(* The calls. *)

KidsStay == \A y \in Allocated : tree'.kids[y] = tree.kids[y]

\* The parts of the invariant, after a step that is not a new request.
LEMMA Assembled ==
  ASSUME IInv, UNCHANGED <<received, current, requests, bounds>>,
         MadeBefore(tree', next'), next' \in next .. MaxElements + 1,
         phase' \in {"running", "climbing", "returned", "threw"},
         pending' \in [target : 0 .. next' - 1, other : 0 .. next' - 1],
         phase' = "climbing" => pending'.target # NoElement /\ pending'.other # NoElement,
         \A i \in DOMAIN modifications' : modifications'[i].element \in 0 .. next' - 1,
         Answers'
  PROVE  IInv'
<1> USE MaxElementsAssumption
<1>1. /\ received \in Nat /\ received \in 0 .. MaxElements /\ next \in received + 1 .. MaxElements + 1
      /\ current \in 0 .. received
      /\ requests \in 0 .. Len(bounds)
      /\ bounds \in Bounds
  BY DEF IInv, TypeOK
<1>2. next' \in received' + 1 .. MaxElements + 1
  BY <1>1
<1>3. \A i \in DOMAIN modifications' :
        modifications'[i].element \in {NoElement} \cup (1 .. next' - 1)
  BY <1>1, <1>2 DEF NoElement
<1>4. tree' \in Trees
  BY DEF MadeBefore
<1>5. pending'.target \in 0 .. next' - 1 /\ pending'.other \in 0 .. next' - 1
  OBVIOUS
<1>6. TypeOK'
  BY <1>1, <1>2, <1>3, <1>4, <1>5 DEF TypeOK, Allocated
<1> QED
  BY <1>1, <1>6 DEF IInv

\* Results that stay are about objects that were made.
LEMMA ModificationsStay ==
  ASSUME IInv, UNCHANGED modifications, next' \in next .. MaxElements + 1
  PROVE  \A i \in DOMAIN modifications' : modifications'[i].element \in 0 .. next' - 1
<1> USE MaxElementsAssumption
<1>1. received \in Nat /\ next \in received + 1 .. MaxElements + 1
  BY DEF IInv, TypeOK
<1>2. {NoElement} \cup (1 .. next - 1) \subseteq 0 .. next' - 1
  <2>1. next \in Nat \ {0} /\ next' \in Nat /\ next <= next'
    BY <1>1
  <2> QED
    BY <2>1, ObjectsStay
<1>3. \A i \in DOMAIN modifications : modifications[i].element \in {NoElement} \cup (1 .. next - 1)
  BY DEF IInv, TypeOK, Allocated
<1> QED
  BY <1>2, <1>3

\* A call on the current element or its parent: one result, about a tree t.
LEMMA ReportedCall ==
  ASSUME IInv, NEW op \in Ops, NEW x \in Ids, NEW other \in Ids \cup {NoElement},
         Calling(op, x, other),
         NEW kind \in ResultKinds, NEW el, el \in 0 .. next' - 1, Report(kind, el),
         MadeBefore(tree', next'), next' \in next .. MaxElements + 1,
         tree'.kids = tree.kids, UNCHANGED <<phase, pending>>
  PROVE  IInv' /\ KidsStay
<1> USE MaxElementsAssumption
<1>1. /\ edits' \in Seq([op : Ops, on : Ids, with : Ids \cup {NoElement}])
      /\ Len(edits') = Len(edits) + 1
      /\ phase = "running"
      /\ UNCHANGED <<received, current, requests, bounds>>
  BY CallingCounts
<1>2. /\ modifications' \in Seq([kind : ResultKinds, element : Ids \cup {NoElement}])
      /\ Len(modifications') = Len(modifications) + 1
      /\ \A i \in DOMAIN modifications' : modifications'[i].element \in 0 .. next' - 1
  BY ReportAnswers
<1>3. Len(modifications) \in Nat /\ Len(edits) \in Nat /\ Len(modifications) <= Len(edits)
  BY DEF IInv, Answers
<1>4. Answers'
  BY <1>1, <1>2, <1>3 DEF Answers
<1>5. pending' \in [target : 0 .. next' - 1, other : 0 .. next' - 1]
  <2>1. received \in Nat /\ next \in received + 1 .. MaxElements + 1
    BY DEF IInv, TypeOK
  <2>2. 0 .. next - 1 \subseteq 0 .. next' - 1
    BY <2>1
  <2> QED
    BY <2>2 DEF IInv
<1>6. IInv'
  BY <1>1, <1>2, <1>4, <1>5, Assembled
<1> QED
  BY <1>6 DEF KidsStay

\* A frame of replaceWith, as long as no result was added for this call: it
\* starts from the tree t and the next object n, with one more call made than
\* there are results.
LEMMA ClimbingFrame ==
  ASSUME IInv, UNCHANGED <<received, current, requests, bounds, modifications>>,
         NEW n \in next .. MaxElements + 1, NEW t, MadeBefore(t, n), t.kids = tree.kids,
         NEW x \in 1 .. next - 1, NEW new, t.up[x] # NoElement => new \subseteq Ids,
         NEW refused, Climb(t, x, n, new, refused),
         edits' \in Seq([op : Ops, on : Ids, with : Ids \cup {NoElement}]),
         Len(modifications) < Len(edits')
  PROVE  IInv' /\ KidsStay
<1> USE MaxElementsAssumption
<1>1. received \in Nat /\ next \in received + 1 .. MaxElements + 1
  BY DEF IInv, TypeOK
<1>2. n \in 1 .. MaxElements + 1 /\ x \in 1 .. n - 1 /\ 1 .. next - 1 \subseteq 1 .. n - 1
  BY <1>1
<1>3. /\ MadeBefore(tree', next')
      /\ next' \in n .. MaxElements + 1
      /\ phase' \in {"running", "threw", "climbing"}
      /\ pending' \in [target : 0 .. next' - 1, other : 0 .. next' - 1]
      /\ phase' = "climbing" => pending'.target # NoElement /\ pending'.other # NoElement
      /\ \A y \in 1 .. n - 1 : tree'.kids[y] = t.kids[y]
  BY <1>2, ClimbKeeps
<1>4. next' \in next .. MaxElements + 1
  BY <1>1, <1>3
<1>5. Answers'
  <2>1. /\ modifications \in Seq([kind : ResultKinds, element : Ids \cup {NoElement}])
        /\ Len(modifications) \in Nat /\ Len(edits') \in Nat
    BY DEF IInv, Answers
  <2> QED
    BY <2>1 DEF Answers
<1>6. IInv'
  BY <1>3, <1>4, <1>5, ModificationsStay, Assembled
<1>7. KidsStay
  BY <1>2, <1>3 DEF KidsStay, Allocated
<1> QED
  BY <1>6, <1>7

\* remove.
LEMMA RemoveInv ==
  ASSUME IInv, NEW x \in Ids, Remove(x)
  PROVE  IInv' /\ KidsStay
<1> USE MaxElementsAssumption
<1>1. Calling("remove", x, NoElement) /\ "remove" \in Ops
  BY DEF Remove, Ops
<1>2. /\ edits' \in Seq([op : Ops, on : Ids, with : Ids \cup {NoElement}])
      /\ Len(edits') = Len(edits) + 1
      /\ x \in 1 .. next - 1
      /\ UNCHANGED <<received, current, requests, bounds>>
  BY <1>1, CallingCounts
<1>3. /\ MadeBefore(tree, next) /\ tree \in Trees
      /\ received \in Nat /\ next \in received + 1 .. MaxElements + 1
      /\ Len(modifications) <= Len(edits) /\ Len(modifications) \in Nat /\ Len(edits) \in Nat
  BY DEF IInv, MadeBefore, TypeOK, Answers
<1>4. CASE IsCurrent(x) \/ IsParentOfCurrent(x)
  <2>1. /\ Report(IF IsCurrent(x) THEN "RemoveChild" ELSE "RemoveParent", NoElement)
        /\ UNCHANGED <<tree, next, phase, pending>>
    BY <1>4 DEF Remove
  <2>2. (IF IsCurrent(x) THEN "RemoveChild" ELSE "RemoveParent") \in ResultKinds
    BY DEF ResultKinds
  <2>3. NoElement \in 0 .. next' - 1 /\ next' \in next .. MaxElements + 1
    BY <1>3, <2>1 DEF NoElement
  <2>4. MadeBefore(tree', next') /\ tree'.kids = tree.kids
    BY <1>3, <2>1
  <2> QED
    BY <1>1, <2>1, <2>2, <2>3, <2>4, ReportedCall
<1>5. CASE ~(IsCurrent(x) \/ IsParentOfCurrent(x))
  <2>1. Climb(tree, x, next, tree.kids[tree.up[x]] \ {x}, FALSE) /\ UNCHANGED modifications
    BY <1>5 DEF Remove
  <2>2. tree.up[x] # NoElement => tree.kids[tree.up[x]] \ {x} \subseteq Ids
    BY <1>3 DEF Trees
  <2>3. next \in next .. MaxElements + 1 /\ Len(modifications) < Len(edits')
    BY <1>2, <1>3
  <2> QED
    BY <1>2, <1>3, <2>1, <2>2, <2>3, ClimbingFrame
<1> QED
  BY <1>4, <1>5

\* replaceWith and add.
LEMMA EditInv ==
  ASSUME IInv, NEW x \in Ids, NEW op \in Ops,
         NEW onCurrent \in ResultKinds, NEW onParent \in ResultKinds,
         Edit(op, x, onCurrent, onParent)
  PROVE  IInv' /\ KidsStay
<1> USE MaxElementsAssumption
<1>1. PICK o \in Others(x) :
        /\ Calling(op, x, o.el)
        /\ IF IsCurrent(x) \/ IsParentOfCurrent(x)
             THEN /\ Report(IF IsCurrent(x) THEN onCurrent ELSE onParent, o.el)
                  /\ tree' = o.t
                  /\ next' = o.n
                  /\ UNCHANGED <<phase, pending>>
             ELSE /\ Climb(o.t, x, o.n, Substituted(o.t, x, o.el), Refuses(o.t, x, o.el))
                  /\ UNCHANGED modifications
  BY DEF Edit
<1>2. /\ MadeBefore(o.t, o.n) /\ o.t \in Trees
      /\ o.t.kids = tree.kids
      /\ o.n \in next .. MaxElements + 1
      /\ o.el \in 1 .. o.n - 1
  BY OthersAreMade DEF MadeBefore
<1>3. /\ received \in Nat /\ next \in received + 1 .. MaxElements + 1
      /\ Len(modifications) <= Len(edits) /\ Len(modifications) \in Nat /\ Len(edits) \in Nat
  BY DEF IInv, TypeOK, Answers
<1>4. o.el \in Ids /\ o.el \in 0 .. o.n - 1
  BY <1>2, <1>3 DEF Ids
<1>5. /\ edits' \in Seq([op : Ops, on : Ids, with : Ids \cup {NoElement}])
      /\ Len(edits') = Len(edits) + 1
      /\ x \in 1 .. next - 1
      /\ UNCHANGED <<received, current, requests, bounds>>
  BY <1>1, <1>4, CallingCounts
<1>6. CASE IsCurrent(x) \/ IsParentOfCurrent(x)
  <2>1. /\ Report(IF IsCurrent(x) THEN onCurrent ELSE onParent, o.el)
        /\ tree' = o.t /\ next' = o.n
        /\ UNCHANGED <<phase, pending>>
    BY <1>1, <1>6
  <2>2. (IF IsCurrent(x) THEN onCurrent ELSE onParent) \in ResultKinds
    OBVIOUS
  <2> QED
    BY <1>1, <1>2, <1>4, <2>1, <2>2, ReportedCall
<1>7. CASE ~(IsCurrent(x) \/ IsParentOfCurrent(x))
  <2>1. /\ Climb(o.t, x, o.n, Substituted(o.t, x, o.el), Refuses(o.t, x, o.el))
        /\ UNCHANGED modifications
    BY <1>1, <1>7
  <2>2. o.t.up[x] # NoElement => Substituted(o.t, x, o.el) \subseteq Ids
    BY <1>2, <1>4 DEF Trees, Substituted
  <2>3. Len(modifications) < Len(edits')
    BY <1>3, <1>5
  <2> QED
    BY <1>2, <1>5, <2>1, <2>2, <2>3, ClimbingFrame
<1> QED
  BY <1>6, <1>7

\* The recursion of replaceWith.
LEMMA ClimbOnInv ==
  ASSUME IInv, ClimbOn
  PROVE  IInv' /\ KidsStay
<1> USE MaxElementsAssumption
<1> DEFINE x == pending.target
           other == pending.other
<1>1. /\ MadeBefore(tree, next) /\ tree \in Trees
      /\ received \in Nat /\ next \in received + 1 .. MaxElements + 1
      /\ modifications \in Seq([kind : ResultKinds, element : Ids \cup {NoElement}])
      /\ edits \in Seq([op : Ops, on : Ids, with : Ids \cup {NoElement}])
      /\ pending \in [target : 0 .. next - 1, other : 0 .. next - 1]
  BY DEF IInv, MadeBefore, TypeOK, Answers
<1>2. /\ phase = "climbing"
      /\ x # NoElement /\ other # NoElement
      /\ Len(modifications) < Len(edits)
  BY DEF ClimbOn, IInv, Answers
<1>3. x \in 1 .. next - 1 /\ other \in 1 .. next - 1 /\ other \in Ids
  BY <1>1, <1>2 DEF NoElement, Ids
<1>4. UNCHANGED <<received, current, edits, requests, bounds>>
  BY DEF ClimbOn
<1>5. CASE IsCurrent(x) \/ IsParentOfCurrent(x)
  <2>1. /\ Report(IF IsCurrent(x) THEN "ReplaceChild" ELSE "ReplaceParent", other)
        /\ phase' = "running"
        /\ pending' = NoCall
        /\ UNCHANGED <<tree, next>>
    BY <1>5 DEF ClimbOn
  <2>2. (IF IsCurrent(x) THEN "ReplaceChild" ELSE "ReplaceParent") \in ResultKinds
    BY DEF ResultKinds
  <2>3. other \in 0 .. next' - 1 /\ next' \in next .. MaxElements + 1
    BY <1>1, <1>3, <2>1
  <2>4. /\ modifications' \in Seq([kind : ResultKinds, element : Ids \cup {NoElement}])
        /\ Len(modifications') = Len(modifications) + 1
        /\ \A i \in DOMAIN modifications' : modifications'[i].element \in 0 .. next' - 1
    BY <2>1, <2>2, <2>3, ReportAnswers
  <2>5. Answers'
    <3>1. Len(modifications) \in Nat /\ Len(edits) \in Nat
      BY <1>1
    <3> QED
      BY <3>1, <1>1, <1>2, <1>4, <2>1, <2>4 DEF Answers
  <2>6. pending' \in [target : 0 .. next' - 1, other : 0 .. next' - 1]
    BY <1>1, <2>1 DEF NoCall, NoElement
  <2>7. MadeBefore(tree', next')
    BY <1>1, <2>1
  <2>8. IInv'
    BY <1>4, <2>1, <2>3, <2>4, <2>5, <2>6, <2>7, Assembled
  <2> QED
    BY <2>1, <2>8 DEF KidsStay
<1>6. CASE ~(IsCurrent(x) \/ IsParentOfCurrent(x))
  <2>1. /\ Climb(tree, x, next, Substituted(tree, x, other), Refuses(tree, x, other))
        /\ UNCHANGED modifications
    BY <1>6 DEF ClimbOn
  <2>2. tree.up[x] # NoElement => Substituted(tree, x, other) \subseteq Ids
    <3>1. x \in Ids
      BY <1>1, <1>3 DEF Ids
    <3> QED
      BY <3>1, <1>1, <1>3 DEF Trees, Substituted
  <2>3. next \in next .. MaxElements + 1
    BY <1>1
  <2> QED
    BY <1>1, <1>2, <1>3, <1>4, <2>1, <2>2, <2>3, ClimbingFrame
<1> QED
  BY <1>5, <1>6

\* mapElement returns or the handler throws.
LEMMA ReturnInv ==
  ASSUME IInv, Return
  PROVE  IInv' /\ KidsStay
<1> USE MaxElementsAssumption
<1>1. /\ phase' \in {"returned", "threw"}
      /\ UNCHANGED <<tree, received, next, current, modifications, pending, edits, requests, bounds>>
  BY DEF Return
<1> QED
  BY <1>1 DEF IInv, TypeOK, Answers, KidsStay, Allocated

LEMMA StepInv == IInv /\ [Next]_vars => IInv'
<1> SUFFICES ASSUME IInv, [Next]_vars PROVE IInv'
  OBVIOUS
<1>1. CASE MapElement
  BY <1>1, MapElementInv
<1>2. ASSUME NEW x \in Ids, Remove(x) PROVE IInv'
  BY <1>2, RemoveInv
<1>3. ASSUME NEW x \in Ids, ReplaceWith(x) PROVE IInv'
  BY <1>3, EditInv DEF ReplaceWith, Ops, ResultKinds
<1>4. ASSUME NEW x \in Ids, Add(x) PROVE IInv'
  BY <1>4, EditInv DEF Add, Ops, ResultKinds
<1>5. CASE ClimbOn
  BY <1>5, ClimbOnInv
<1>6. CASE Return
  BY <1>6, ReturnInv
<1>7. CASE UNCHANGED vars
  BY <1>7 DEF vars, IInv, TypeOK, Answers, Allocated
<1> QED
  BY <1>1, <1>2, <1>3, <1>4, <1>5, <1>6, <1>7 DEF Next

LEMMA Invariance == Spec => []IInv
<1>1. Init => IInv
  BY InitInv
<1>2. IInv /\ [Next]_vars => IInv'
  BY StepInv
<1> QED
  BY <1>1, <1>2, PTL DEF Spec

-----------------------------------------------------------------------------
(* The theorems. *)

\* Every variable of the mapping keeps its type: results and the call that
\* climbs are about elements that exist (Mapping.kt).
THEOREM ScopeTypeCorrect == Spec => []TypeOK
<1>1. IInv => TypeOK
  BY DEF IInv
<1> QED
  BY <1>1, Invariance, PTL

\* However many requests a mapping serves, and whichever handlers threw, there
\* are never more results than calls made for this request (mapElement's
\* modifications.clear()).
THEOREM ResultsAreAnswers == Spec => []ResultsAnswerTheCalls
<1>1. IInv => ResultsAnswerTheCalls
  BY DEF IInv, Answers, ResultsAnswerTheCalls
<1> QED
  BY <1>1, Invariance, PTL

\* Whatever a handler calls, in trees of any size and after any calls before,
\* the children lists that it has read stay (remove, replaceWith and add make
\* copies).
THEOREM WhatWasReadStays == Spec => ReadElementsStay
<1> DEFINE Stays == phase # "waiting" /\ UNCHANGED requests =>
                      \A x \in Allocated : tree'.kids[x] = tree.kids[x]
<1>1. ASSUME IInv, [Next]_vars PROVE [Stays]_vars
  <2>1. CASE MapElement
    BY <2>1, <1>1 DEF MapElement, IInv, TypeOK
  <2>2. ASSUME NEW x \in Ids, Remove(x) PROVE KidsStay
    BY <2>2, <1>1, RemoveInv
  <2>3. ASSUME NEW x \in Ids, ReplaceWith(x) PROVE KidsStay
    BY <2>3, <1>1, EditInv DEF ReplaceWith, Ops, ResultKinds
  <2>4. ASSUME NEW x \in Ids, Add(x) PROVE KidsStay
    BY <2>4, <1>1, EditInv DEF Add, Ops, ResultKinds
  <2>5. CASE ClimbOn
    BY <2>5, <1>1, ClimbOnInv DEF KidsStay
  <2>6. CASE Return
    BY <2>6, <1>1, ReturnInv DEF KidsStay
  <2> QED
    BY <1>1, <2>1, <2>2, <2>3, <2>4, <2>5, <2>6 DEF Next, KidsStay
<1> QED
  BY <1>1, Invariance, PTL DEF Spec, ReadElementsStay

-----------------------------------------------------------------------------
(* What is below an element. *)

\* The elements of the request are numbered downwards, the objects made since
\* upwards: each lists elements of the request and objects made before it.
Aged(t, k) ==
  \A p \in Ids : \A c \in t.kids[p] : IF p <= k THEN p < c /\ c <= k ELSE c < p

LEMMA BelowByLevels ==
  ASSUME NEW t \in Trees, NEW r \in Ids
  PROVE  \E level \in [0 .. MaxElements -> SUBSET Ids] :
           /\ level[0] = {r}
           /\ \A n \in 1 .. MaxElements :
                level[n] = level[n - 1] \cup UNION {t.kids[p] : p \in level[n - 1]}
           /\ Below(t, r) = level[MaxElements]
<1> USE MaxElementsAssumption
<1> DEFINE Down(above) == above \cup UNION {t.kids[p] : p \in above}
           Levels(f) == f = [n \in 0 .. MaxElements |-> IF n = 0 THEN {r} ELSE Down(f[n - 1])]
           g == [x \in (0 + 1 .. MaxElements) \X SUBSET Ids |-> Down(x[2])]
<1>1. {r} \in SUBSET Ids
  OBVIOUS
<1>2. \A above \in SUBSET Ids : Down(above) \in SUBSET Ids
  BY DEF Trees
<1>3. StepsIn(g, 0, MaxElements, SUBSET Ids)
  BY <1>2 DEF StepsIn
<1>4. PICK f : Recursive(f, 0, MaxElements, SUBSET Ids, {r}, g)
  <2>1. 0 <= MaxElements
    OBVIOUS
  <2> HIDE DEF g
  <2> QED
    BY <1>1, <1>3, <2>1, Recursion
<1>5. /\ f \in [0 .. MaxElements -> SUBSET Ids] /\ f[0] = {r}
      /\ \A n \in 1 .. MaxElements : f[n] = Down(f[n - 1])
  <2>1. f \in [0 .. MaxElements -> SUBSET Ids] /\ f[0] = {r}
    BY <1>4 DEF Recursive
  <2>2. ASSUME NEW n \in 1 .. MaxElements PROVE f[n] = Down(f[n - 1])
    <3>1. n \in 0 + 1 .. MaxElements /\ f[n - 1] \in SUBSET Ids
      BY <2>1
    <3>2. g[<<n, f[n - 1]>>] = Down(f[n - 1])
      BY <3>1
    <3> HIDE DEF g
    <3> QED
      BY <1>4, <3>1, <3>2 DEF Recursive
  <2> QED
    BY <2>1, <2>2
<1>6. Levels(f)
  BY <1>5
<1>7. Levels(CHOOSE h : Levels(h))
  BY <1>6
<1>8. PICK level : level = (CHOOSE h : Levels(h))
  OBVIOUS
<1>9. Below(t, r) = level[MaxElements]
  BY <1>8 DEF Below
<1>10. Levels(level)
  BY <1>7, <1>8
<1>11. level[0] = {r} /\ \A n \in 1 .. MaxElements : level[n] = Down(level[n - 1])
  <2> HIDE DEF Down
  <2>1. 0 \in 0 .. MaxElements /\ \A n \in 1 .. MaxElements : n \in 0 .. MaxElements /\ n # 0
    OBVIOUS
  <2> QED
    BY <1>10, <2>1
<1>12. level \in [0 .. MaxElements -> SUBSET Ids]
  <2> DEFINE S == {n \in Nat : n <= MaxElements => level[n] \in SUBSET Ids}
  <2>1. 0 \in S
    BY <1>1, <1>11
  <2>2. ASSUME NEW n \in Nat, n \in S PROVE n + 1 \in S
    <3> SUFFICES ASSUME n + 1 <= MaxElements PROVE level[n + 1] \in SUBSET Ids
      OBVIOUS
    <3>1. n + 1 \in 1 .. MaxElements /\ level[(n + 1) - 1] \in SUBSET Ids
      BY <2>2
    <3> HIDE DEF Down
    <3> QED
      BY <1>2, <1>11, <3>1
  <2>3. \A n \in Nat : n \in S
    <3> HIDE DEF S
    <3> QED
      BY <2>1, <2>2, Induction
  <2> QED
    BY <1>10, <2>3
<1> QED
  BY <1>9, <1>11, <1>12

\* A set that holds r and the children of what it holds has all that is below r.
LEMMA BelowIsLeast ==
  ASSUME NEW t \in Trees, NEW r \in Ids, NEW S, r \in S,
         \A p \in Ids : p \in S => t.kids[p] \subseteq S
  PROVE  Below(t, r) \subseteq S
<1> USE MaxElementsAssumption
<1>1. PICK level \in [0 .. MaxElements -> SUBSET Ids] :
        /\ level[0] = {r}
        /\ \A n \in 1 .. MaxElements :
             level[n] = level[n - 1] \cup UNION {t.kids[p] : p \in level[n - 1]}
        /\ Below(t, r) = level[MaxElements]
  BY BelowByLevels
<1> DEFINE N == {n \in Nat : n <= MaxElements => level[n] \subseteq S}
<1>2. 0 \in N
  BY <1>1
<1>3. ASSUME NEW n \in Nat, n \in N PROVE n + 1 \in N
  <2> SUFFICES ASSUME n + 1 <= MaxElements PROVE level[n + 1] \subseteq S
    OBVIOUS
  <2>1. level[n] \subseteq S /\ level[n] \subseteq Ids
    BY <1>1, <1>3
  <2>2. level[n + 1] = level[n] \cup UNION {t.kids[p] : p \in level[n]}
    <3>1. n + 1 \in 1 .. MaxElements /\ (n + 1) - 1 = n
      OBVIOUS
    <3> QED
      BY <1>1, <3>1
  <2> QED
    BY <2>1, <2>2
<1> HIDE DEF N
<1>4. MaxElements \in N
  BY <1>2, <1>3, Induction
<1> QED
  BY <1>1, <1>4 DEF N

\* How many steps down there can be from p.
Depth(p, k) == IF p <= k THEN k - p ELSE p - 1

LEMMA ChildrenAreLessDeep ==
  ASSUME NEW t \in Trees, NEW k \in 0 .. MaxElements, Aged(t, k)
  PROVE  /\ \A p \in Ids : Depth(p, k) \in 0 .. MaxElements - 1
         /\ \A p \in Ids : \A c \in t.kids[p] : c \in Ids /\ Depth(c, k) < Depth(p, k)
<1> USE MaxElementsAssumption
<1>1. \A p \in Ids : t.kids[p] \subseteq Ids
  BY DEF Trees
<1>2. \A p \in Ids : Depth(p, k) \in 0 .. MaxElements - 1
  BY DEF Depth, Ids
<1>3. ASSUME NEW p \in Ids, NEW c \in t.kids[p] PROVE c \in Ids /\ Depth(c, k) < Depth(p, k)
  <2>1. c \in Ids
    BY <1>1
  <2>2. IF p <= k THEN p < c /\ c <= k ELSE c < p
    BY DEF Aged
  <2> QED
    BY <2>1, <2>2 DEF Depth, Ids
<1> QED
  BY <1>2, <1>3

\* As many levels as there can be objects are enough: what is below r holds r
\* and the children of what it holds.
LEMMA BelowIsClosed ==
  ASSUME NEW t \in Trees, NEW k \in 0 .. MaxElements, Aged(t, k), NEW r \in Ids
  PROVE  /\ Below(t, r) \subseteq Ids
         /\ r \in Below(t, r)
         /\ \A p \in Below(t, r) : t.kids[p] \subseteq Below(t, r)
<1> USE MaxElementsAssumption
<1>1. PICK level \in [0 .. MaxElements -> SUBSET Ids] :
        /\ level[0] = {r}
        /\ \A n \in 1 .. MaxElements :
             level[n] = level[n - 1] \cup UNION {t.kids[p] : p \in level[n - 1]}
        /\ Below(t, r) = level[MaxElements]
  BY BelowByLevels
<1> DEFINE D(p) == Depth(p, k)
<1>2. /\ \A p \in Ids : D(p) \in 0 .. MaxElements - 1
      /\ \A p \in Ids : \A c \in t.kids[p] : c \in Ids /\ D(c) < D(p)
  BY ChildrenAreLessDeep
<1> HIDE DEF D
<1> DEFINE N == {n \in Nat : n <= MaxElements =>
                   /\ r \in level[n]
                   /\ \A y \in level[n] : t.kids[y] \subseteq level[n] \/ D(y) <= D(r) - n}
<1>3. 0 \in N
  BY <1>1, <1>2
<1>4. ASSUME NEW n \in Nat, n \in N PROVE n + 1 \in N
  <2> SUFFICES ASSUME n + 1 <= MaxElements
               PROVE  /\ r \in level[n + 1]
                      /\ \A y \in level[n + 1] :
                           t.kids[y] \subseteq level[n + 1] \/ D(y) <= D(r) - (n + 1)
    OBVIOUS
  <2>1. /\ r \in level[n] /\ level[n] \subseteq Ids
        /\ \A y \in level[n] : t.kids[y] \subseteq level[n] \/ D(y) <= D(r) - n
    BY <1>1, <1>4
  <2>2. level[n + 1] = level[n] \cup UNION {t.kids[p] : p \in level[n]}
    <3>1. n + 1 \in 1 .. MaxElements /\ (n + 1) - 1 = n
      OBVIOUS
    <3> QED
      BY <1>1, <3>1
  <2>3. ASSUME NEW y \in level[n + 1]
        PROVE  t.kids[y] \subseteq level[n + 1] \/ D(y) <= D(r) - (n + 1)
    <3>1. CASE y \in level[n]
      BY <2>2, <3>1
    <3>2. CASE y \notin level[n]
      <4>1. PICK p \in level[n] : y \in t.kids[p]
        BY <2>2, <3>2
      <4>2. D(p) <= D(r) - n
        BY <2>1, <3>2, <4>1
      <4>3. D(y) \in Int /\ D(p) \in Int /\ D(r) \in Int /\ D(y) < D(p)
        BY <1>2, <2>1, <4>1
      <4> QED
        BY <4>2, <4>3
    <3> QED
      BY <3>1, <3>2
  <2> QED
    BY <2>1, <2>2, <2>3
<1>5. MaxElements \in N
  <2> HIDE DEF N
  <2> QED
    BY <1>3, <1>4, Induction
<1>6. ASSUME NEW p \in level[MaxElements] PROVE t.kids[p] \subseteq level[MaxElements]
  <2>1. p \in Ids
    BY <1>1
  <2>2. D(p) \in 0 .. MaxElements - 1 /\ D(r) \in 0 .. MaxElements - 1
    BY <1>2, <2>1
  <2>3. ~ (D(p) <= D(r) - MaxElements)
    BY <2>2
  <2> QED
    BY <1>5, <2>3
<1> QED
  BY <1>1, <1>5, <1>6

\* A tree whose lists lead one way has no cycle.
LEMMA AgedIsAcyclic ==
  ASSUME NEW t \in Trees, NEW k \in 0 .. MaxElements, Aged(t, k),
         NEW x \in Ids, NEW c \in t.kids[x]
  PROVE  x \notin Below(t, c)
<1> USE MaxElementsAssumption
<1>1. c \in Ids /\ \A p \in Ids : t.kids[p] \subseteq Ids
  BY DEF Trees
<1> DEFINE S == {y \in Ids : IF x <= k THEN x < y /\ y <= k ELSE y < x}
<1>2. c \in S
  BY <1>1 DEF Aged
<1>3. ASSUME NEW p \in Ids, p \in S, NEW y \in t.kids[p] PROVE y \in S
  <2>1. y \in Ids /\ IF p <= k THEN p < y /\ y <= k ELSE y < p
    BY <1>1, <1>3 DEF Aged
  <2> QED
    BY <1>3, <2>1 DEF Ids
<1>4. x \notin S
  BY DEF Ids
<1>5. Below(t, c) \subseteq S
  <2> HIDE DEF S
  <2> QED
    BY <1>1, <1>2, <1>3, BelowIsLeast
<1> QED
  BY <1>4, <1>5

LEMMA RequestIsAged ==
  ASSUME NEW k \in 0 .. MaxElements, NEW u \in Forests(k), NEW cls
  PROVE  Aged(TreeOf(k, u, cls), k)
<1> USE MaxElementsAssumption
<1>1. TreeOf(k, u, cls).kids = [p \in Ids |-> {c \in 1 .. k : u[c] = p}]
  BY DEF TreeOf
<1>2. \A c \in 1 .. k : u[c] < c
  BY DEF Forests
<1> SUFFICES ASSUME NEW p \in Ids, NEW c \in TreeOf(k, u, cls).kids[p]
             PROVE  IF p <= k THEN p < c /\ c <= k ELSE c < p
  BY DEF Aged
<1>3. c \in 1 .. k /\ u[c] = p
  BY <1>1
<1> QED
  BY <1>2, <1>3 DEF Ids

LEMMA CopyIsAged ==
  ASSUME NEW t \in Trees, NEW k \in 0 .. MaxElements, Aged(t, k),
         NEW n \in Ids, k < n, NEW p, NEW new, new \subseteq 1 .. n - 1
  PROVE  Aged(Rebuild(t, p, n, new), k)
<1> USE MaxElementsAssumption
<1>1. Rebuild(t, p, n, new).kids = [t.kids EXCEPT ![n] = new]
  BY DEF Rebuild, Trees
<1> SUFFICES ASSUME NEW q \in Ids, NEW c \in Rebuild(t, p, n, new).kids[q]
             PROVE  IF q <= k THEN q < c /\ c <= k ELSE c < q
  BY DEF Aged
<1>2. CASE q = n
  <2>1. c \in 1 .. n - 1
    BY <1>1, <1>2 DEF Trees
  <2> QED
    BY <1>2, <2>1 DEF Ids
<1>3. CASE q # n
  BY <1>1, <1>3 DEF Aged, Trees
<1> QED
  BY <1>2, <1>3

\* The lists of objects made so far name such objects only.
LEMMA ListsNameMadeObjects ==
  ASSUME NEW t \in Trees, NEW k \in 0 .. MaxElements, Aged(t, k), NEW n \in k + 1 .. MaxElements + 1,
         NEW p \in Ids, p < n
  PROVE  t.kids[p] \subseteq 1 .. n - 1
<1> USE MaxElementsAssumption
<1>1. t.kids[p] \subseteq Ids
  BY DEF Trees
<1> SUFFICES ASSUME NEW c \in t.kids[p] PROVE c \in 1 .. n - 1
  OBVIOUS
<1>2. c \in Ids /\ IF p <= k THEN p < c /\ c <= k ELSE c < p
  BY <1>1 DEF Aged
<1> QED
  BY <1>2 DEF Ids

LEMMA ClimbAges ==
  ASSUME NEW t, NEW k \in 0 .. MaxElements, NEW n \in k + 1 .. MaxElements + 1, MadeBefore(t, n),
         Aged(t, k), NEW x \in 1 .. n - 1,
         NEW new, t.up[x] # NoElement => new \subseteq 1 .. n - 1,
         NEW refused, Climb(t, x, n, new, refused)
  PROVE  Aged(tree', k)
<1> USE MaxElementsAssumption
<1>1. CASE tree' = t
  BY <1>1
<1>2. CASE /\ t.up[x] # NoElement
           /\ n <= MaxElements
           /\ tree' = Rebuild(t, t.up[x], n, new)
  <2>1. n \in Ids /\ k < n /\ t \in Trees
    BY <1>2 DEF Ids, MadeBefore
  <2> QED
    BY <1>2, <2>1, CopyIsAged
<1> QED
  BY <1>1, <1>2 DEF Climb

\* What the frames of replaceWith put in place of an element was made before.
LEMMA SubstitutesAreMade ==
  ASSUME NEW t, NEW k \in 0 .. MaxElements, NEW n \in k + 1 .. MaxElements + 1, MadeBefore(t, n),
         Aged(t, k), NEW x \in 1 .. n - 1, t.up[x] # NoElement
  PROVE  /\ t.kids[t.up[x]] \subseteq 1 .. n - 1
         /\ \A other \in 1 .. n - 1 : Substituted(t, x, other) \subseteq 1 .. n - 1
<1> USE MaxElementsAssumption
<1>1. t \in Trees /\ x \in Ids
  BY DEF MadeBefore, Ids
<1>2. t.up[x] \in Ids /\ t.up[x] < n
  BY <1>1 DEF MadeBefore, Trees
<1>3. t.kids[t.up[x]] \subseteq 1 .. n - 1
  BY <1>1, <1>2, ListsNameMadeObjects
<1> QED
  BY <1>3 DEF Substituted

LEMMA AgedStep == IInv /\ Aged(tree, received) /\ [Next]_vars => Aged(tree', received')
<1> SUFFICES ASSUME IInv, Aged(tree, received), [Next]_vars PROVE Aged(tree', received')
  OBVIOUS
<1> USE MaxElementsAssumption
<1>1. /\ tree \in Trees /\ received \in 0 .. MaxElements
      /\ next \in received + 1 .. MaxElements + 1 /\ MadeBefore(tree, next)
  BY DEF IInv, TypeOK
<1>2. CASE MapElement
  <2>1. PICK k \in 1 .. bounds[requests'].elements :
          /\ \E u \in Forests(k) : \E cls \in SUBSET (1 .. k) : tree' = TreeOf(k, u, cls)
          /\ received' = k
    BY <1>2 DEF MapElement
  <2>2. received' \in 0 .. MaxElements
    <3>1. IInv'
      BY <1>2, MapElementInv
    <3> QED
      BY <3>1 DEF IInv, TypeOK
  <2> QED
    BY <2>1, <2>2, RequestIsAged
<1>3. ASSUME NEW x \in Ids, Remove(x) PROVE Aged(tree', received')
  <2>1. x \in 1 .. next - 1 /\ received' = received
    BY <1>3 DEF Remove, Calling
  <2>2. CASE tree' = tree
    BY <2>1, <2>2
  <2>3. CASE Climb(tree, x, next, tree.kids[tree.up[x]] \ {x}, FALSE)
    <3>1. tree.up[x] # NoElement => tree.kids[tree.up[x]] \ {x} \subseteq 1 .. next - 1
      BY <1>1, <2>1, SubstitutesAreMade
    <3> QED
      BY <1>1, <2>1, <2>3, <3>1, ClimbAges
  <2> QED
    BY <1>3, <2>2, <2>3 DEF Remove
<1>4. ASSUME NEW x \in Ids, NEW op, NEW onCurrent, NEW onParent, Edit(op, x, onCurrent, onParent)
      PROVE  Aged(tree', received')
  <2>1. PICK o \in Others(x) :
          /\ Calling(op, x, o.el)
          /\ \/ tree' = o.t
             \/ Climb(o.t, x, o.n, Substituted(o.t, x, o.el), Refuses(o.t, x, o.el))
    BY <1>4 DEF Edit
  <2>2. x \in 1 .. next - 1 /\ received' = received
    BY <2>1 DEF Calling
  <2>3. /\ MadeBefore(o.t, o.n)
        /\ o.t.kids = tree.kids
        /\ o.n \in next .. MaxElements + 1
        /\ o.el \in 1 .. o.n - 1
    BY OthersAreMade
  <2>4. Aged(o.t, received)
    BY <2>3 DEF Aged
  <2>5. o.n \in received + 1 .. MaxElements + 1 /\ x \in 1 .. o.n - 1
    BY <1>1, <2>2, <2>3
  <2>6. CASE tree' = o.t
    BY <2>2, <2>4, <2>6
  <2>7. CASE Climb(o.t, x, o.n, Substituted(o.t, x, o.el), Refuses(o.t, x, o.el))
    <3>1. o.t.up[x] # NoElement => Substituted(o.t, x, o.el) \subseteq 1 .. o.n - 1
      BY <1>1, <2>3, <2>4, <2>5, SubstitutesAreMade
    <3> QED
      BY <1>1, <2>2, <2>3, <2>4, <2>5, <2>7, <3>1, ClimbAges
  <2> QED
    BY <2>1, <2>6, <2>7
<1>5. CASE ClimbOn
  <2> DEFINE x == pending.target
  <2>1. x \in 1 .. next - 1 /\ pending.other \in 1 .. next - 1 /\ received' = received
    BY <1>1, <1>5 DEF ClimbOn, IInv, NoElement
  <2>2. CASE tree' = tree
    BY <2>1, <2>2
  <2>3. CASE Climb(tree, x, next, Substituted(tree, x, pending.other),
                   Refuses(tree, x, pending.other))
    <3>1. tree.up[x] # NoElement => Substituted(tree, x, pending.other) \subseteq 1 .. next - 1
      BY <1>1, <2>1, SubstitutesAreMade
    <3> QED
      BY <1>1, <2>1, <2>3, <3>1, ClimbAges
  <2> QED
    BY <1>5, <2>2, <2>3 DEF ClimbOn
<1>6. CASE Return \/ UNCHANGED vars
  BY <1>6 DEF Return, vars
<1> QED
  BY <1>2, <1>3, <1>4, <1>5, <1>6 DEF Next, ReplaceWith, Add

LEMMA AgedAlways == Spec => [](IInv /\ Aged(tree, received))
<1>1. Init => Aged(tree, received)
  <2>1. <<>> \in Forests(0) /\ 0 \in 0 .. MaxElements
    BY MaxElementsAssumption DEF Forests
  <2> QED
    BY <2>1, RequestIsAged DEF Init
<1>2. (Aged(tree, received))' <=> Aged(tree', received')
  BY DEF Aged
<1>3. IInv /\ Aged(tree, received) /\ [Next]_vars => (Aged(tree, received))'
  BY <1>2, AgedStep
<1> QED
  BY <1>1, <1>3, Invariance, PTL DEF Spec

\* What is sent back is finite, whatever the handler called before, in trees of
\* any size: below a result's element no element is below itself.
THEOREM ResultsCanBeSent == Spec => []ResultsAreTrees
<1> USE MaxElementsAssumption
<1>1. IInv /\ Aged(tree, received) => ResultsAreTrees
  <2> SUFFICES ASSUME IInv, Aged(tree, received), NEW i \in DOMAIN modifications,
                      modifications[i].element # NoElement
               PROVE  \A x \in Below(tree, modifications[i].element) : \A c \in tree.kids[x] :
                        x \notin Below(tree, c)
    BY DEF ResultsAreTrees
  <2>1. modifications[i].element \in Ids
    BY DEF IInv, TypeOK, Allocated, Ids
  <2>2. tree \in Trees /\ received \in 0 .. MaxElements
    BY DEF IInv, TypeOK
  <2>3. Below(tree, modifications[i].element) \subseteq Ids
    BY <2>1, <2>2, BelowIsClosed
  <2> QED
    BY <2>2, <2>3, AgedIsAcyclic
<1> QED
  BY <1>1, AgedAlways, PTL

-----------------------------------------------------------------------------
(* One edit, seen by a reader of the tree. *)

\* A tree of requested elements 1 .. k and of objects made since.
GoodTree(t, k) == t \in Trees /\ k \in 0 .. MaxElements /\ Aged(t, k)

\* Requested elements are listed by one parent at most, a class.
Requested(t, k) ==
  /\ \A p, q \in 1 .. k : \A c \in t.kids[p] : c \in t.kids[q] => p = q
  /\ \A p \in 1 .. k : t.kids[p] # {} => t.kind[p] = "class"

LEMMA BelowNests ==
  ASSUME NEW t, NEW k, GoodTree(t, k), NEW r \in Ids, NEW z \in Below(t, r)
  PROVE  Below(t, z) \subseteq Below(t, r)
<1>1. /\ t \in Trees /\ Below(t, r) \subseteq Ids
      /\ \A p \in Below(t, r) : t.kids[p] \subseteq Below(t, r)
  BY BelowIsClosed DEF GoodTree
<1> QED
  BY <1>1, BelowIsLeast

\* Every element below another is listed there.
LEMMA BelowHasAParent ==
  ASSUME NEW t, NEW k, GoodTree(t, k), NEW r \in Ids, NEW z \in Below(t, r), z # r
  PROVE  \E p \in Below(t, r) : z \in t.kids[p]
<1>1. /\ t \in Trees /\ Below(t, r) \subseteq Ids /\ r \in Below(t, r)
      /\ \A p \in Below(t, r) : t.kids[p] \subseteq Below(t, r)
  BY BelowIsClosed DEF GoodTree
<1> DEFINE S == {y \in Below(t, r) : y = r \/ \E p \in Below(t, r) : y \in t.kids[p]}
<1>2. r \in S /\ \A p \in Ids : p \in S => t.kids[p] \subseteq S
  BY <1>1
<1>3. Below(t, r) \subseteq S
  <2> HIDE DEF S
  <2> QED
    BY <1>1, <1>2, BelowIsLeast
<1> QED
  BY <1>3

LEMMA BelowUnrolls ==
  ASSUME NEW t, NEW k, GoodTree(t, k), NEW r \in Ids
  PROVE  Below(t, r) = {r} \cup UNION {Below(t, c) : c \in t.kids[r]}
<1>1. /\ t \in Trees /\ Below(t, r) \subseteq Ids /\ r \in Below(t, r)
      /\ \A p \in Below(t, r) : t.kids[p] \subseteq Below(t, r)
  BY BelowIsClosed DEF GoodTree
<1>2. \A c \in t.kids[r] :
        /\ c \in Ids /\ c \in Below(t, c) /\ Below(t, c) \subseteq Below(t, r)
        /\ \A p \in Below(t, c) : t.kids[p] \subseteq Below(t, c)
  BY <1>1, BelowNests, BelowIsClosed DEF GoodTree
<1> DEFINE S == {r} \cup UNION {Below(t, c) : c \in t.kids[r]}
<1>3. r \in S
  OBVIOUS
<1>4. ASSUME NEW p \in Ids, p \in S, NEW y \in t.kids[p] PROVE y \in S
  <2>1. CASE p = r
    BY <1>2, <2>1
  <2>2. CASE p # r
    BY <1>2, <1>4, <2>2
  <2> QED
    BY <2>1, <2>2
<1>5. Below(t, r) \subseteq S
  <2> HIDE DEF S
  <2> QED
    BY <1>1, <1>3, <1>4, BelowIsLeast
<1>6. S \subseteq Below(t, r)
  BY <1>1, <1>2
<1> QED
  BY <1>5, <1>6

\* Lists that stay read the same downwards.
LEMMA BelowStays ==
  ASSUME NEW t, NEW u, NEW k, GoodTree(t, k), GoodTree(u, k), NEW r \in Ids,
         \A p \in Below(t, r) : u.kids[p] = t.kids[p]
  PROVE  Below(u, r) = Below(t, r)
<1>1. /\ t \in Trees /\ r \in Below(t, r)
      /\ \A p \in Below(t, r) : t.kids[p] \subseteq Below(t, r)
  BY BelowIsClosed DEF GoodTree
<1>2. /\ u \in Trees /\ r \in Below(u, r)
      /\ \A p \in Below(u, r) : u.kids[p] \subseteq Below(u, r)
  BY BelowIsClosed DEF GoodTree
<1>3. Below(u, r) \subseteq Below(t, r)
  BY <1>1, <1>2, BelowIsLeast
<1>4. \A p \in Ids : p \in Below(u, r) => t.kids[p] \subseteq Below(u, r)
  BY <1>2, <1>3
<1>5. Below(t, r) \subseteq Below(u, r)
  BY <1>1, <1>2, <1>4, BelowIsLeast
<1> QED
  BY <1>3, <1>5

LEMMA BelowWasMade ==
  ASSUME NEW t, NEW k, GoodTree(t, k), NEW n \in k + 1 .. MaxElements + 1,
         NEW r \in Ids, r < n
  PROVE  Below(t, r) \subseteq 1 .. n - 1
<1> USE MaxElementsAssumption
<1>1. r \in 1 .. n - 1
  BY DEF Ids, GoodTree
<1>2. \A p \in Ids : p \in 1 .. n - 1 => t.kids[p] \subseteq 1 .. n - 1
  <2> SUFFICES ASSUME NEW p \in Ids, p \in 1 .. n - 1 PROVE t.kids[p] \subseteq 1 .. n - 1
    OBVIOUS
  <2>1. p < n
    BY DEF Ids, GoodTree
  <2> QED
    BY <2>1, ListsNameMadeObjects DEF GoodTree
<1>3. t \in Trees
  BY DEF GoodTree
<1> DEFINE S == 1 .. n - 1
<1>4. r \in S /\ \A p \in Ids : p \in S => t.kids[p] \subseteq S
  BY <1>1, <1>2
<1>5. Below(t, r) \subseteq S
  <2> HIDE DEF S
  <2> QED
    BY <1>3, <1>4, BelowIsLeast
<1> QED
  BY <1>5

\* Among requested elements downwards means larger numbers.
LEMMA BelowIsLarger ==
  ASSUME NEW t, NEW k, GoodTree(t, k), NEW r \in 1 .. k, NEW z \in Below(t, r)
  PROVE  z \in r .. k
<1> USE MaxElementsAssumption
<1>1. r \in Ids /\ t \in Trees
  BY DEF Ids, GoodTree
<1>2. r \in r .. k
  BY DEF GoodTree
<1>3. ASSUME NEW p \in Ids, p \in r .. k, NEW c \in t.kids[p] PROVE c \in r .. k
  <2>1. c \in Ids /\ IF p <= k THEN p < c /\ c <= k ELSE c < p
    BY <1>1 DEF GoodTree, Aged, Trees
  <2> QED
    BY <1>3, <2>1 DEF Ids, GoodTree
<1>4. Below(t, r) \subseteq r .. k
  BY <1>1, <1>2, <1>3, BelowIsLeast
<1> QED
  BY <1>4

\* The parent of an element below another is below it, too.
LEMMA TheParentIsBelow ==
  ASSUME NEW t, NEW k, GoodTree(t, k), Requested(t, k), NEW r \in 1 .. k,
         NEW z \in Below(t, r), z # r, NEW p \in 1 .. k, z \in t.kids[p]
  PROVE  p \in Below(t, r)
<1>1. r \in Ids
  BY MaxElementsAssumption DEF Ids, GoodTree
<1>2. PICK q \in Below(t, r) : z \in t.kids[q]
  BY <1>1, BelowHasAParent
<1>3. q \in 1 .. k
  <2>1. q \in r .. k
    BY <1>2, BelowIsLarger
  <2> QED
    BY <2>1 DEF GoodTree
<1>4. q = p
  BY <1>2, <1>3 DEF Requested
<1> QED
  BY <1>2, <1>4

LEMMA ChildIsLarger ==
  ASSUME NEW t, NEW k, GoodTree(t, k), NEW p \in 1 .. k, NEW c \in t.kids[p]
  PROVE  c \in 1 .. k /\ p < c /\ c \in Ids /\ p \in Ids /\ p \notin Below(t, c)
<1> USE MaxElementsAssumption
<1>1. p \in Ids
  BY DEF Ids, GoodTree
<1>2. c \in Ids /\ p < c /\ c <= k
  BY <1>1 DEF GoodTree, Aged, Trees
<1>3. p \notin Below(t, c)
  BY <1>1, AgedIsAcyclic DEF GoodTree
<1> QED
  BY <1>1, <1>2, <1>3 DEF Ids, GoodTree

\* What is below p but not below its child w: p, and what is below the others.
LEMMA BelowWithout ==
  ASSUME NEW t, NEW k, GoodTree(t, k), Requested(t, k), NEW p \in 1 .. k, NEW w \in t.kids[p]
  PROVE  Below(t, p) \ Below(t, w) = {p} \cup UNION {Below(t, c) : c \in t.kids[p] \ {w}}
<1>1. \A c \in t.kids[p] :
        c \in 1 .. k /\ p < c /\ c \in Ids /\ p \in Ids /\ p \notin Below(t, c)
  BY ChildIsLarger
<1>2. Below(t, p) = {p} \cup UNION {Below(t, c) : c \in t.kids[p]}
  BY <1>1, BelowUnrolls
<1>3. ASSUME NEW c \in t.kids[p] \ {w} PROVE Below(t, c) \cap Below(t, w) = {}
  <2>1. /\ t \in Trees /\ c \in Ids /\ c \in Below(t, c) /\ Below(t, c) \subseteq Ids
        /\ \A q \in Below(t, c) : t.kids[q] \subseteq Below(t, c)
    BY <1>1, BelowIsClosed DEF GoodTree
  <2> DEFINE S == Below(t, c) \ Below(t, w)
  <2>2. c \in S
    <3>1. c \in Below(t, w) => p \in Below(t, w)
      BY <1>1, TheParentIsBelow
    <3> QED
      BY <1>1, <2>1, <3>1
  <2>3. ASSUME NEW q \in Ids, q \in S, NEW y \in t.kids[q] PROVE y \in S
    <3>1. y \in Below(t, c)
      BY <2>1, <2>3
    <3>2. q \in 1 .. k
      <4>1. q \in c .. k
        BY <1>1, <2>3, BelowIsLarger
      <4> QED
        BY <1>1, <4>1 DEF GoodTree
    <3>3. y # w
      <4>1. y = w => q = p
        BY <2>3, <3>2 DEF Requested
      <4> QED
        BY <1>1, <2>3, <4>1
    <3>4. y \in Below(t, w) => q \in Below(t, w)
      BY <1>1, <2>3, <3>2, <3>3, TheParentIsBelow
    <3> QED
      BY <2>3, <3>1, <3>4
  <2>4. Below(t, c) \subseteq S
    <3> HIDE DEF S
    <3> QED
      BY <2>1, <2>2, <2>3, BelowIsLeast
  <2> QED
    BY <2>4
<1> QED
  BY <1>1, <1>2, <1>3

\* What the tree below r should read like after x below it was removed, or
\* replaced by y: Intended, below any element.
Edited(t, k, r, x, y) ==
  LET kept == Below(t, r) \ Below(t, x)
      over == {p \in kept : p <= k /\ x \in t.kids[p]}
  IN  Reads(t, kept) \cup
      (IF y = NoElement THEN {}
       ELSE {<<t.key[p], t.key[y]>> : p \in over} \cup Reads(t, Below(t, y)))

LEMMA IntendedIsEdited ==
  \A x, y : Intended(x, y) = Edited(tree, received, current, x, y)
BY DEF Intended, Edited

\* A reader sees which element lists which, by their keys.
LEMMA WhatIsRead ==
  ASSUME NEW t, NEW els
  PROVE  \A k : k \in Reads(t, els) <=>
           \E p, c \in els : c \in t.kids[p] /\ k = <<t.key[p], t.key[c]>>
<1>1. ASSUME NEW k \in Reads(t, els)
      PROVE  \E p, c \in els : c \in t.kids[p] /\ k = <<t.key[p], t.key[c]>>
  <2>1. PICK e \in els \X els : e[2] \in t.kids[e[1]] /\ k = <<t.key[e[1]], t.key[e[2]]>>
    BY DEF Reads
  <2>2. e[1] \in els /\ e[2] \in els
    OBVIOUS
  <2> QED
    BY <2>1, <2>2
<1>2. ASSUME NEW k, NEW p \in els, NEW c \in els, c \in t.kids[p], k = <<t.key[p], t.key[c]>>
      PROVE  k \in Reads(t, els)
  <2> DEFINE e == <<p, c>>
  <2>1. e \in els \X els /\ e[1] = p /\ e[2] = c
    OBVIOUS
  <2> HIDE DEF e
  <2>2. k = <<t.key[e[1]], t.key[e[2]]>> /\ e[2] \in t.kids[e[1]]
    BY <1>2, <2>1
  <2> QED
    BY <2>1, <2>2 DEF Reads
<1> QED
  BY <1>1, <1>2

\* Old objects read in u as they did in t.
LEMMA ReadsStay ==
  ASSUME NEW t, NEW u, NEW els, \A p \in els : u.kids[p] = t.kids[p] /\ u.key[p] = t.key[p]
  PROVE  Reads(u, els) = Reads(t, els)
<1>1. \A k : k \in Reads(t, els) <=>
        \E p, c \in els : c \in t.kids[p] /\ k = <<t.key[p], t.key[c]>>
  BY WhatIsRead
<1>2. \A k : k \in Reads(u, els) <=>
        \E p, c \in els : c \in u.kids[p] /\ k = <<u.key[p], u.key[c]>>
  BY WhatIsRead
<1>3. \A k : k \in Reads(u, els) <=> k \in Reads(t, els)
  BY <1>1, <1>2
<1> QED
  BY <1>3

\* u is t with more objects, from n on.
Extends(u, t, n) ==
  \A p \in Ids : p < n =>
    u.kids[p] = t.kids[p] /\ u.key[p] = t.key[p] /\ u.kind[p] = t.kind[p]

LEMMA OldReadsStay ==
  ASSUME NEW t, NEW u, NEW k, GoodTree(t, k), GoodTree(u, k),
         NEW n \in k + 1 .. MaxElements + 1, Extends(u, t, n), NEW r \in Ids, r < n
  PROVE  /\ Below(u, r) = Below(t, r) /\ Below(t, r) \subseteq 1 .. n - 1
         /\ \A els : els \subseteq 1 .. n - 1 => Reads(u, els) = Reads(t, els)
<1> USE MaxElementsAssumption
<1>1. Below(t, r) \subseteq 1 .. n - 1
  BY BelowWasMade
<1>2. \A p \in 1 .. n - 1 : p \in Ids /\ p < n
  BY DEF Ids, GoodTree
<1>3. \A p \in 1 .. n - 1 : u.kids[p] = t.kids[p] /\ u.key[p] = t.key[p]
  BY <1>2 DEF Extends
<1>4. Below(u, r) = Below(t, r)
  BY <1>1, <1>3, BelowStays
<1>5. ASSUME NEW els, els \subseteq 1 .. n - 1 PROVE Reads(u, els) = Reads(t, els)
  BY <1>3, <1>5, ReadsStay
<1> QED
  BY <1>1, <1>4, <1>5

LEMMA EditedStays ==
  ASSUME NEW t, NEW u, NEW k, GoodTree(t, k), GoodTree(u, k),
         NEW n \in k + 1 .. MaxElements + 1, Extends(u, t, n),
         NEW r \in 1 .. k, NEW x \in 1 .. k, NEW y \in 0 .. n - 1
  PROVE  Edited(u, k, r, x, y) = Edited(t, k, r, x, y)
<1> USE MaxElementsAssumption
<1>1. r \in Ids /\ r < n /\ x \in Ids /\ x < n
  BY DEF Ids, GoodTree
<1>2. /\ Below(u, r) = Below(t, r) /\ Below(t, r) \subseteq 1 .. n - 1
      /\ Below(u, x) = Below(t, x)
      /\ \A els : els \subseteq 1 .. n - 1 => Reads(u, els) = Reads(t, els)
  BY <1>1, OldReadsStay
<1> DEFINE kept == Below(t, r) \ Below(t, x)
<1>3. Reads(u, kept) = Reads(t, kept)
  BY <1>2
<1>4. \A p \in 1 .. n - 1 : u.kids[p] = t.kids[p] /\ u.key[p] = t.key[p]
  BY DEF Extends, Ids, GoodTree
<1>5. {p \in kept : p <= k /\ x \in u.kids[p]} = {p \in kept : p <= k /\ x \in t.kids[p]}
  BY <1>2, <1>4
<1> DEFINE over == {p \in kept : p <= k /\ x \in t.kids[p]}
<1>6. CASE y = NoElement
  BY <1>2, <1>3, <1>6 DEF Edited
<1>7. CASE y # NoElement
  <2>1. y \in 1 .. n - 1 /\ y \in Ids /\ y < n
    BY <1>7 DEF NoElement, Ids, GoodTree
  <2>2. Below(u, y) = Below(t, y) /\ Reads(u, Below(t, y)) = Reads(t, Below(t, y))
    BY <1>2, <2>1, OldReadsStay
  <2>3. {<<u.key[p], u.key[y]>> : p \in over} = {<<t.key[p], t.key[y]>> : p \in over}
    BY <1>2, <1>4, <2>1
  <2> QED
    BY <1>2, <1>3, <1>5, <1>7, <2>2, <2>3 DEF Edited
<1> QED
  BY <1>6, <1>7

\* The edit below p is the edit below p's child a, beside what else is below p.
LEMMA EditedOneUp ==
  ASSUME NEW t, NEW k, GoodTree(t, k), Requested(t, k),
         NEW p \in 1 .. k, NEW a \in t.kids[p],
         NEW x \in Below(t, a), x # a, NEW y
  PROVE  Edited(t, k, p, x, y) =
           Reads(t, Below(t, p) \ Below(t, a)) \cup {<<t.key[p], t.key[a]>>}
             \cup Edited(t, k, a, x, y)
<1> USE MaxElementsAssumption
<1>1. a \in 1 .. k /\ p < a /\ a \in Ids /\ p \in Ids /\ p \notin Below(t, a)
  BY ChildIsLarger
<1>2. x \in a .. k /\ x \in 1 .. k /\ x \in Ids /\ a < x
  <2>1. x \in a .. k
    BY <1>1, BelowIsLarger
  <2> QED
    BY <1>1, <2>1 DEF Ids, GoodTree
<1>3. Below(t, x) \subseteq Below(t, a) /\ a \notin Below(t, x)
  <2>1. a \in Below(t, x) => a \in x .. k
    BY <1>2, BelowIsLarger
  <2> QED
    BY <1>1, <1>2, <2>1, BelowNests
<1>4. /\ p \in Below(t, p) /\ a \in Below(t, a)
      /\ Below(t, a) \subseteq Below(t, p)
      /\ \A q \in Below(t, p) : t.kids[q] \subseteq Below(t, p)
      /\ \A q \in Below(t, a) : t.kids[q] \subseteq Below(t, a)
  <2>1. a \in Below(t, p)
    BY <1>1, BelowIsClosed DEF GoodTree
  <2> QED
    BY <1>1, <2>1, BelowIsClosed, BelowNests DEF GoodTree
<1>5. Below(t, p) \subseteq 1 .. k
  <2>1. Below(t, p) \subseteq p .. k
    BY BelowIsLarger
  <2> QED
    BY <2>1 DEF GoodTree
<1> DEFINE keptP == Below(t, p) \ Below(t, x)
           keptA == Below(t, a) \ Below(t, x)
           rest == Below(t, p) \ Below(t, a)
<1>6. Reads(t, keptP) = Reads(t, rest) \cup {<<t.key[p], t.key[a]>>} \cup Reads(t, keptA)
  <2>1. /\ \A e : e \in Reads(t, keptP) <=>
             \E q, c \in keptP : c \in t.kids[q] /\ e = <<t.key[q], t.key[c]>>
        /\ \A e : e \in Reads(t, keptA) <=>
             \E q, c \in keptA : c \in t.kids[q] /\ e = <<t.key[q], t.key[c]>>
        /\ \A e : e \in Reads(t, rest) <=>
             \E q, c \in rest : c \in t.kids[q] /\ e = <<t.key[q], t.key[c]>>
    BY WhatIsRead
  <2>2. keptP = rest \cup keptA /\ p \in rest /\ a \in keptA
    BY <1>1, <1>3, <1>4
  <2>3. ASSUME NEW q \in keptP, NEW c \in keptP, c \in t.kids[q]
        PROVE  (q \in rest /\ c \in rest) \/ (q = p /\ c = a) \/ (q \in keptA /\ c \in keptA)
    <3>1. CASE q \in Below(t, a)
      BY <1>4, <2>3, <3>1
    <3>2. CASE q \notin Below(t, a) /\ c \in Below(t, a)
      <4>1. q \in 1 .. k
        BY <1>5
      <4>2. c = a
        BY <1>1, <2>3, <3>2, <4>1, TheParentIsBelow
      <4>3. q = p
        BY <2>3, <4>1, <4>2 DEF Requested
      <4> QED
        BY <4>2, <4>3
    <3>3. CASE q \notin Below(t, a) /\ c \notin Below(t, a)
      BY <3>3
    <3> QED
      BY <3>1, <3>2, <3>3
  <2> HIDE DEF keptP, keptA, rest
  <2>4. ASSUME NEW e \in Reads(t, keptP)
        PROVE  e \in Reads(t, rest) \cup {<<t.key[p], t.key[a]>>} \cup Reads(t, keptA)
    <3>1. PICK q \in keptP, c \in keptP : c \in t.kids[q] /\ e = <<t.key[q], t.key[c]>>
      BY <2>1
    <3>2. CASE q = p /\ c = a
      BY <3>1, <3>2
    <3>3. CASE q \in rest /\ c \in rest
      BY <2>1, <3>1, <3>3
    <3>4. CASE q \in keptA /\ c \in keptA
      BY <2>1, <3>1, <3>4
    <3> QED
      BY <2>3, <3>1, <3>2, <3>3, <3>4
  <2>5. ASSUME NEW e, e \in Reads(t, rest) \/ e \in Reads(t, keptA) PROVE e \in Reads(t, keptP)
    <3>1. rest \subseteq keptP /\ keptA \subseteq keptP
      BY <2>2
    <3> QED
      BY <2>1, <2>5, <3>1
  <2>6. <<t.key[p], t.key[a]>> \in Reads(t, keptP)
    BY <2>1, <2>2
  <2> QED
    BY <2>4, <2>5, <2>6
<1>7. {q \in keptP : q <= k /\ x \in t.kids[q]} = {q \in keptA : q <= k /\ x \in t.kids[q]}
  <2>1. ASSUME NEW q \in keptP, x \in t.kids[q] PROVE q \in Below(t, a)
    <3>1. q \in 1 .. k
      BY <1>5
    <3> QED
      BY <1>1, <2>1, <3>1, TheParentIsBelow
  <2> QED
    BY <1>4, <2>1
<1> HIDE DEF keptP, keptA
<1> QED
  BY <1>6, <1>7 DEF Edited, keptP, keptA

\* What p reads like with only els below it and with the elements of Z, too.
ReadsWith(t, p, els, Z) ==
  Reads(t, els) \cup {<<t.key[p], t.key[z]>> : z \in Z} \cup UNION {Reads(t, Below(t, z)) : z \in Z}

\* Object n of u is a copy of t's element p in which the elements of Z (one or
\* none) are in the place of its child w.
IsCopy(t, u, k, n, p, w, Z) ==
  /\ GoodTree(t, k) /\ GoodTree(u, k) /\ Requested(t, k)
  /\ n \in Ids /\ k < n /\ Extends(u, t, n)
  /\ p \in 1 .. k /\ w \in t.kids[p] /\ Z \subseteq 1 .. n - 1
  /\ u.kids[n] = (t.kids[p] \ {w}) \cup Z
  /\ u.key[n] = t.key[p]

\* A copy reads like p without w, and with what is in Z and below that.
LEMMA CopyReads ==
  ASSUME NEW t, NEW u, NEW k, NEW n, NEW p, NEW w, NEW Z, IsCopy(t, u, k, n, p, w, Z)
  PROVE  Reads(u, Below(u, n)) = ReadsWith(t, p, Below(t, p) \ Below(t, w), Z)
<1> USE MaxElementsAssumption
<1> DEFINE others == t.kids[p] \ {w}
           B == Below(t, p) \ Below(t, w)
           W == UNION {Below(t, z) : z \in Z}
           Q(e) == \/ e \in Reads(t, B)
                   \/ \E z \in Z : e = <<t.key[p], t.key[z]>> \/ e \in Reads(t, Below(t, z))
<1>14. /\ GoodTree(t, k) /\ GoodTree(u, k) /\ Requested(t, k)
       /\ n \in Ids /\ k < n /\ Extends(u, t, n)
       /\ p \in 1 .. k /\ w \in t.kids[p] /\ Z \subseteq 1 .. n - 1
       /\ u.kids[n] = (t.kids[p] \ {w}) \cup Z
       /\ u.key[n] = t.key[p]
  BY DEF IsCopy
<1> USE <1>14
<1>1. n \in k + 1 .. MaxElements + 1
  BY DEF GoodTree, Ids
<1>2. \A c \in t.kids[p] :
        c \in 1 .. k /\ p < c /\ c \in Ids /\ p \in Ids /\ p \notin Below(t, c)
  BY ChildIsLarger
<1>3. p \in Ids /\ p < n /\ \A c \in others \cup Z : c \in Ids /\ c < n
  <2>1. n \in Nat /\ k \in Nat /\ n <= MaxElements
    BY DEF GoodTree, Ids
  <2>2. \A c \in 1 .. k : c \in Ids /\ c < n
    BY <2>1 DEF Ids
  <2>3. \A c \in 1 .. n - 1 : c \in Ids /\ c < n
    BY <2>1 DEF Ids
  <2> QED
    BY <1>2, <2>2, <2>3
<1>4. B = {p} \cup UNION {Below(t, c) : c \in others}
  BY BelowWithout
<1>5. \A c \in others \cup Z :
        /\ Below(u, c) = Below(t, c) /\ Below(t, c) \subseteq 1 .. n - 1
        /\ c \in Below(t, c)
        /\ \A q \in Below(t, c) : t.kids[q] \subseteq Below(t, c)
  <2> SUFFICES ASSUME NEW c \in others \cup Z
               PROVE  /\ Below(u, c) = Below(t, c) /\ Below(t, c) \subseteq 1 .. n - 1
                      /\ c \in Below(t, c)
                      /\ \A q \in Below(t, c) : t.kids[q] \subseteq Below(t, c)
    OBVIOUS
  <2>1. c \in Ids /\ c < n
    BY <1>3
  <2>2. Below(u, c) = Below(t, c) /\ Below(t, c) \subseteq 1 .. n - 1
    BY <1>1, <2>1, OldReadsStay
  <2> QED
    BY <2>1, <2>2, BelowIsClosed DEF GoodTree
<1>6. Below(u, n) = {n} \cup UNION {Below(t, c) : c \in others \cup Z}
  <2>1. Below(u, n) = {n} \cup UNION {Below(u, c) : c \in u.kids[n]}
    BY BelowUnrolls
  <2> QED
    BY <1>5, <2>1
<1>7. \A q \in 1 .. n - 1 : u.kids[q] = t.kids[q] /\ u.key[q] = t.key[q]
  BY DEF Extends, GoodTree, Ids
<1>8. u.kids[n] = others \cup Z
  OBVIOUS
<1>9. n \notin 1 .. n - 1 /\ p \in 1 .. n - 1
  BY <1>1 DEF GoodTree
<1>10. /\ \A e : e \in Reads(u, Below(u, n)) <=>
             \E q, c \in Below(u, n) : c \in u.kids[q] /\ e = <<u.key[q], u.key[c]>>
       /\ \A e : e \in Reads(t, B) <=>
             \E q, c \in B : c \in t.kids[q] /\ e = <<t.key[q], t.key[c]>>
       /\ \A z \in Z : \A e : e \in Reads(t, Below(t, z)) <=>
             \E q, c \in Below(t, z) : c \in t.kids[q] /\ e = <<t.key[q], t.key[c]>>
  BY WhatIsRead
<1> HIDE DEF others, B
<1>11. ASSUME NEW e \in Reads(u, Below(u, n)) PROVE Q(e)
  <2>1. PICK q \in Below(u, n), c \in Below(u, n) : c \in u.kids[q] /\ e = <<u.key[q], u.key[c]>>
    BY <1>10
  <2>2. CASE q = n
    <3>1. c \in others \cup Z /\ u.key[c] = t.key[c] /\ e = <<t.key[p], t.key[c]>>
      BY <1>3, <1>5, <1>7, <1>8, <2>1, <2>2
    <3>2. CASE c \in others
      <4>1. p \in B /\ c \in B /\ c \in t.kids[p]
        BY <1>4, <1>5, <3>2 DEF others
      <4> QED
        BY <1>10, <3>1, <4>1
    <3> QED
      BY <3>1, <3>2
  <2>3. CASE q # n
    <3>1. PICK d \in others \cup Z : q \in Below(t, d)
      BY <1>6, <2>1, <2>3
    <3>2. c \in t.kids[q] /\ c \in Below(t, d) /\ e = <<t.key[q], t.key[c]>>
      BY <1>5, <1>7, <2>1, <3>1
    <3>3. CASE d \in others
      <4>1. q \in B /\ c \in B
        BY <1>4, <3>1, <3>2, <3>3
      <4> QED
        BY <1>10, <3>2, <4>1
    <3>4. CASE d \in Z
      BY <1>10, <3>1, <3>2, <3>4
    <3> QED
      BY <3>1, <3>3, <3>4
  <2> QED
    BY <2>2, <2>3
<1>12. ASSUME NEW e, Q(e) PROVE e \in Reads(u, Below(u, n))
  <2>1. CASE e \in Reads(t, B)
    <3>1. PICK q \in B, c \in B : c \in t.kids[q] /\ e = <<t.key[q], t.key[c]>>
      BY <1>10, <2>1
    <3>2. CASE q = p
      <4>1. c \in others
        <5>1. w \in Below(t, w)
          BY <1>2, BelowIsClosed DEF GoodTree
        <5> QED
          BY <3>1, <3>2, <5>1 DEF B, others
      <4>2. n \in Below(u, n) /\ c \in Below(u, n) /\ c \in u.kids[n] /\ u.key[c] = t.key[c]
        BY <1>5, <1>6, <1>7, <1>8, <4>1
      <4> QED
        BY <1>10, <3>1, <3>2, <4>2
    <3>3. CASE q # p
      <4>1. PICK d \in others : q \in Below(t, d)
        BY <1>4, <3>1, <3>3
      <4>2. q \in 1 .. n - 1 /\ c \in Below(t, d) /\ c \in 1 .. n - 1
        BY <1>5, <3>1, <4>1
      <4>3. q \in Below(u, n) /\ c \in Below(u, n) /\ c \in u.kids[q]
        BY <1>6, <1>7, <3>1, <4>1, <4>2
      <4>4. e = <<u.key[q], u.key[c]>>
        BY <1>7, <3>1, <4>2
      <4> QED
        BY <1>10, <4>3, <4>4
    <3> QED
      BY <3>2, <3>3
  <2>2. ASSUME NEW z \in Z, e = <<t.key[p], t.key[z]>> PROVE e \in Reads(u, Below(u, n))
    <3>1. n \in Below(u, n) /\ z \in Below(u, n) /\ z \in u.kids[n] /\ u.key[z] = t.key[z]
      BY <1>5, <1>6, <1>7, <1>8, <2>2
    <3> QED
      BY <1>10, <2>2, <3>1
  <2>3. ASSUME NEW z \in Z, e \in Reads(t, Below(t, z)) PROVE e \in Reads(u, Below(u, n))
    <3>1. PICK q \in Below(t, z), c \in Below(t, z) : c \in t.kids[q] /\ e = <<t.key[q], t.key[c]>>
      BY <1>10, <2>3
    <3>2. q \in 1 .. n - 1 /\ c \in 1 .. n - 1
      BY <1>5, <2>3, <3>1
    <3>3. q \in Below(u, n) /\ c \in Below(u, n) /\ c \in u.kids[q] /\ e = <<u.key[q], u.key[c]>>
      BY <1>6, <1>7, <3>1, <3>2
    <3> QED
      BY <1>10, <3>3
  <2> QED
    BY <1>12, <2>1, <2>2, <2>3
<1>13. \A e : e \in Reads(u, Below(u, n)) <=> Q(e)
  BY <1>11, <1>12
<1> QED
  BY <1>13 DEF B, ReadsWith

\* The first frame: w itself is replaced, by nothing or by y.
LEMMA FirstCopyReads ==
  ASSUME NEW t, NEW u, NEW k, NEW n, NEW p, NEW w, NEW Z, IsCopy(t, u, k, n, p, w, Z),
         NEW y, \A z : z \in Z <=> z = y /\ y # NoElement
  PROVE  Reads(u, Below(u, n)) = Edited(t, k, p, w, y)
<1> DEFINE kept == Below(t, p) \ Below(t, w)
<1>1. GoodTree(t, k) /\ Requested(t, k) /\ p \in 1 .. k /\ w \in t.kids[p]
  BY DEF IsCopy
<1>2. w \in 1 .. k /\ p < w /\ w \in Ids /\ p \in Ids /\ p \notin Below(t, w)
  BY <1>1, ChildIsLarger
<1>3. {q \in kept : q <= k /\ w \in t.kids[q]} = {p}
  <2>1. p \in kept /\ p <= k
    BY <1>1, <1>2, BelowIsClosed, MaxElementsAssumption DEF GoodTree
  <2>2. ASSUME NEW q \in kept, w \in t.kids[q] PROVE q = p
    <3>1. q \in p .. k
      BY <1>1, BelowIsLarger
    <3>2. q \in 1 .. k
      BY <1>1, <3>1, MaxElementsAssumption DEF GoodTree
    <3> QED
      BY <1>1, <2>2, <3>2 DEF Requested
  <2> QED
    BY <1>1, <2>1, <2>2
<1>4. Reads(u, Below(u, n)) = ReadsWith(t, p, kept, Z)
  BY CopyReads
<1>5. CASE y = NoElement
  BY <1>4, <1>5 DEF Edited, ReadsWith
<1>6. CASE y # NoElement
  <2>1. Reads(u, Below(u, n)) =
          Reads(t, kept) \cup ({<<t.key[p], t.key[y]>>} \cup Reads(t, Below(t, y)))
    BY <1>4, <1>6 DEF ReadsWith
  <2>2. {<<t.key[q], t.key[y]>> : q \in {p}} = {<<t.key[p], t.key[y]>>}
    OBVIOUS
  <2> QED
    BY <1>3, <1>6, <2>1, <2>2 DEF Edited
<1> QED
  BY <1>5, <1>6

\* A further frame: p's child a is replaced by a copy m that reads like a with
\* the edit.
LEMMA NextCopyReads ==
  ASSUME NEW t, NEW u, NEW k, NEW n, NEW p, NEW a, NEW m, IsCopy(t, u, k, n, p, a, {m}),
         NEW x \in Below(t, a), x # a, NEW y,
         t.key[m] = t.key[a], Reads(t, Below(t, m)) = Edited(t, k, a, x, y)
  PROVE  Reads(u, Below(u, n)) = Edited(t, k, p, x, y)
<1>1. Reads(u, Below(u, n)) = ReadsWith(t, p, Below(t, p) \ Below(t, a), {m})
  BY CopyReads
<1>2. Reads(u, Below(u, n)) = Reads(t, Below(t, p) \ Below(t, a)) \cup {<<t.key[p], t.key[a]>>}
                                \cup Edited(t, k, a, x, y)
  BY <1>1 DEF ReadsWith
<1>3. GoodTree(t, k) /\ Requested(t, k) /\ p \in 1 .. k /\ a \in t.kids[p]
  BY DEF IsCopy
<1> QED
  BY <1>2, <1>3, EditedOneUp

-----------------------------------------------------------------------------
(* The invariant of one edit. *)

\* A requested element points to the one that lists it.
PointsUp(c) == \A p \in 1 .. received : c \in tree.kids[p] => tree.up[c] = p

\* The handler has made one call: on an element below the current one, to remove
\* or to replace it.
FirstEdit ==
  /\ Len(edits) = 1 /\ edits[1].op # "add"
  /\ edits[1].on <= received /\ BelowCurrent(edits[1].on)

\* Before its first call the tree is the request's.
Untouched ==
  phase = "running" /\ edits = <<>> =>
    /\ next = received + 1 /\ modifications = <<>>
    /\ \A c \in 1 .. received : PointsUp(c)

CurrentInv ==
  /\ phase # "waiting" => current \in 1 .. received
  /\ (phase = "running" /\ edits = <<>>) \/ (phase = "climbing" /\ FirstEdit) =>
       tree.up[current] < current

\* While the first call climbs it has a copy of an element between the edited one
\* and the current one; the copy reads like that element with the edit.  The way
\* up from there is the request's.
Halfway ==
  phase = "climbing" /\ FirstEdit =>
    LET x == edits[1].on
        y == edits[1].with
        a == pending.target
        n == pending.other
    IN  /\ modifications = <<>>
        /\ y \in 0 .. next - 1
        /\ a \in 1 .. received /\ a \in Below(tree, current) /\ x \in Below(tree, a) \ {a}
        /\ \A c \in 1 .. received : a \in Below(tree, c) => PointsUp(c)
        /\ n \in received + 1 .. next - 1
        /\ tree.key[n] = tree.key[a]
        /\ Reads(tree, Below(tree, n)) = Edited(tree, received, a, x, y)

EInv ==
  /\ IInv /\ GoodTree(tree, received) /\ Requested(tree, received)
  /\ Untouched /\ CurrentInv /\ Halfway /\ OneEditIsExact

LEMMA RequestedStays ==
  ASSUME NEW t, NEW u, NEW k \in 0 .. MaxElements, NEW n, k < n, Extends(u, t, n),
         Requested(t, k), n \in Int
  PROVE  Requested(u, k)
<1>1. \A p \in 1 .. k : p \in Ids /\ p < n
  BY MaxElementsAssumption DEF Ids
<1>2. \A p \in 1 .. k : u.kids[p] = t.kids[p] /\ u.kind[p] = t.kind[p]
  BY <1>1 DEF Extends
<1> QED
  BY <1>2 DEF Requested

\* What a copy changes.
LEMMA RebuildExtends ==
  ASSUME NEW t \in Trees, NEW n \in Ids, NEW p \in Ids, NEW new
  PROVE  LET u == Rebuild(t, p, n, new)
         IN  /\ Extends(u, t, n)
             /\ u.kids[n] = new
             /\ u.key[n] = IF t.kind[p] = "class" THEN t.key[p] ELSE n
             /\ \A c \in Ids : u.up[c] = IF c \in new THEN n ELSE t.up[c]
<1> DEFINE u == Rebuild(t, p, n, new)
<1>1. /\ u.kids = [t.kids EXCEPT ![n] = new]
      /\ u.key = [t.key EXCEPT ![n] = IF t.kind[p] = "class" THEN t.key[p] ELSE n]
      /\ u.kind = [t.kind EXCEPT ![n] = t.kind[p]]
      /\ u.up = [c \in Ids |-> IF c \in new THEN n ELSE t.up[c]]
  BY DEF Rebuild, Trees
<1>2. \A q \in Ids : q < n => q # n
  BY DEF Ids
<1> QED
  BY <1>1, <1>2 DEF Extends, Trees

\* The elements given to replaceWith come in a tree that has one more at most;
\* none of the tree is above the element that is edited.
LEMMA OthersExtend ==
  ASSUME IInv, NEW x \in Ids, NEW o \in Others(x)
  PROVE  /\ Extends(o.t, tree, next)
         /\ o.t.up = tree.up
         /\ o.el < next => x \notin Below(tree, o.el)
<1> USE MaxElementsAssumption
<1>1. /\ tree \in Trees
      /\ received \in Nat /\ next \in received + 1 .. MaxElements + 1
  BY DEF IInv, TypeOK
<1>2. CASE o \in {[t |-> tree, el |-> y, n |-> next] :
                    y \in {y \in 1 .. received : x \notin Below(tree, y)}}
  <2>1. o.t = tree /\ x \notin Below(tree, o.el)
    BY <1>2
  <2> QED
    BY <2>1 DEF Extends
<1>3. ASSUME next <= MaxElements, NEW key, NEW kind, o = Made(key, kind)
      PROVE  /\ Extends(o.t, tree, next)
             /\ o.t.up = tree.up
             /\ o.el < next => x \notin Below(tree, o.el)
  <2>1. o.t = [tree EXCEPT !.key[next] = key, !.kind[next] = kind] /\ o.el = next
    BY <1>3 DEF Made
  <2>2. /\ o.t.kids = tree.kids /\ o.t.up = tree.up
        /\ o.t.key = [tree.key EXCEPT ![next] = key]
        /\ o.t.kind = [tree.kind EXCEPT ![next] = kind]
    BY <1>1, <2>1 DEF Trees
  <2>3. \A q \in Ids : q < next => q # next
    BY <1>1 DEF Ids
  <2> QED
    BY <1>1, <2>1, <2>2, <2>3 DEF Extends, Trees
<1>4. CASE /\ next <= MaxElements
           /\ o \in {Made(next, kind) : kind \in Kinds}
                      \cup {Made(tree.key[y], "class") :
                              y \in {y \in 1 .. received : tree.kind[y] = "class"}}
  BY <1>3, <1>4
<1>5. next <= MaxElements \/ next > MaxElements
  BY <1>1
<1> QED
  BY <1>2, <1>4, <1>5 DEF Others

LEMMA InitExact == Init => EInv
<1> SUFFICES ASSUME Init PROVE EInv
  OBVIOUS
<1> USE MaxElementsAssumption
<1>1. IInv
  BY InitInv
<1>2. Aged(tree, received)
  <2>1. <<>> \in Forests(0) /\ 0 \in 0 .. MaxElements
    BY DEF Forests
  <2> QED
    BY <2>1, RequestIsAged DEF Init
<1>3. GoodTree(tree, received)
  BY <1>1, <1>2 DEF GoodTree, IInv, TypeOK
<1>4. Requested(tree, received)
  <2>1. 1 .. received = {}
    BY DEF Init
  <2> QED
    BY <2>1 DEF Requested
<1>5. Untouched /\ CurrentInv /\ Halfway /\ OneEditIsExact
  BY DEF Init, Untouched, CurrentInv, Halfway, OneEditIsExact
<1> QED
  BY <1>1, <1>3, <1>4, <1>5 DEF EInv

LEMMA RequestIsRequested ==
  ASSUME NEW k \in 1 .. MaxElements, NEW u \in Forests(k), NEW cls,
         \A c \in 2 .. k : u[c] # NoElement /\ u[c] \in cls
  PROVE  LET t == TreeOf(k, u, cls)
         IN  /\ Requested(t, k)
             /\ \A c, p \in 1 .. k : c \in t.kids[p] => t.up[c] = p
             /\ \A c \in 1 .. k : t.up[c] < c
<1> USE MaxElementsAssumption
<1> DEFINE t == TreeOf(k, u, cls)
<1>1. /\ t.kids = [p \in Ids |-> {c \in 1 .. k : u[c] = p}]
      /\ t.up = [c \in Ids |-> IF c \in 1 .. k THEN u[c] ELSE NoElement]
      /\ t.kind = [c \in Ids |-> IF c \in cls THEN "class" ELSE "method"]
  BY DEF TreeOf
<1>2. 1 .. k \subseteq Ids
  BY DEF Ids
<1>3. \A c \in 1 .. k : u[c] < c /\ u[c] \in 0 .. k
  BY DEF Forests
<1>4. \A p \in 1 .. k : t.kids[p] = {c \in 1 .. k : u[c] = p}
  BY <1>1, <1>2
<1>5. \A c \in 1 .. k : t.up[c] = u[c]
  BY <1>1, <1>2
<1>6. ASSUME NEW p \in 1 .. k, t.kids[p] # {} PROVE t.kind[p] = "class"
  <2>1. PICK c \in 1 .. k : u[c] = p
    BY <1>4, <1>6
  <2>2. c \in 2 .. k
    BY <1>3, <2>1
  <2> QED
    BY <1>1, <1>2, <2>1, <2>2
<1> HIDE DEF t
<1>7. Requested(t, k)
  BY <1>4, <1>6 DEF Requested
<1>8. /\ \A c, p \in 1 .. k : c \in t.kids[p] => t.up[c] = p
      /\ \A c \in 1 .. k : t.up[c] < c
  BY <1>3, <1>4, <1>5
<1> QED
  BY <1>7, <1>8 DEF t

LEMMA MapElementExact ==
  ASSUME EInv, MapElement
  PROVE  EInv'
<1> USE MaxElementsAssumption
<1>1. IInv'
  BY MapElementInv DEF EInv
<1>2. received' \in 0 .. MaxElements /\ tree' \in Trees
  BY <1>1 DEF IInv, TypeOK
<1>12. PICK k \in 1 .. bounds[requests'].elements :
        \E u \in Forests(k) : \E cls \in SUBSET (1 .. k) :
          /\ \A c \in 2 .. k : u[c] # NoElement /\ u[c] \in cls
          /\ tree' = TreeOf(k, u, cls)
          /\ received' = k
          /\ next' = k + 1
          /\ \E c \in 1 .. k : current' = c
  BY DEF MapElement
<1>3. PICK u \in Forests(k) : \E cls \in SUBSET (1 .. k) :
        /\ \A c \in 2 .. k : u[c] # NoElement /\ u[c] \in cls
        /\ tree' = TreeOf(k, u, cls)
        /\ received' = k
        /\ next' = k + 1
        /\ \E c \in 1 .. k : current' = c
  BY <1>12
<1>4. k \in 1 .. MaxElements
  BY <1>2, <1>3
<1>5. /\ Requested(tree', k)
      /\ \A c, p \in 1 .. k : c \in tree'.kids[p] => tree'.up[c] = p
      /\ \A c \in 1 .. k : tree'.up[c] < c
  BY <1>3, <1>4, RequestIsRequested
<1>6. Aged(tree', k)
  BY <1>3, <1>4, RequestIsAged
<1>7. GoodTree(tree, received)' /\ Requested(tree, received)'
  BY <1>2, <1>3, <1>5, <1>6 DEF GoodTree, Requested
<1>8. modifications' = <<>> /\ phase' = "running" /\ edits' = <<>> /\ current' \in 1 .. k
  BY <1>3 DEF MapElement, Cleared
<1>9. Untouched'
  BY <1>3, <1>5, <1>8 DEF Untouched, PointsUp
<1>10. CurrentInv'
  BY <1>3, <1>5, <1>8 DEF CurrentInv
<1>11. Halfway' /\ OneEditIsExact'
  BY <1>8 DEF Halfway, OneEditIsExact
<1> QED
  BY <1>1, <1>7, <1>9, <1>10, <1>11 DEF EInv

\* The one result of the one edit.
Exact ==
  /\ Len(modifications) = 1
  /\ modifications[1].kind = "ReplaceChild"
  /\ LET r == modifications[1].element
     IN  /\ tree.key[r] = tree.key[current]
         /\ Reads(tree, Below(tree, r)) =
              Edited(tree, received, current, edits[1].on, edits[1].with)

LEMMA ExactIs ==
  OneEditIsExact <=> (phase \in {"running", "returned"} /\ FirstEdit => Exact)
BY IntendedIsEdited DEF OneEditIsExact, FirstEdit, Exact

\* One frame makes u of t: n is a copy of p with the elements of Z for w; none
\* of them is above p.
Copies(t, u, k, n, p, w, Z) ==
  /\ GoodTree(t, k) /\ GoodTree(u, k) /\ Requested(t, k)
  /\ n \in Ids /\ k < n /\ p \in 1 .. k /\ w \in t.kids[p]
  /\ Z \subseteq 1 .. n - 1 /\ \A z \in Z : z \in 1 .. k => p \notin Below(t, z)
  /\ u = Rebuild(t, p, n, (t.kids[p] \ {w}) \cup Z)

\* A copy of p leaves the way up from p as it is: what becomes a child of the
\* copy is below p, or not above it.
LEMMA CopyLeavesTheWayUp ==
  ASSUME NEW t, NEW u, NEW k, NEW n, NEW p, NEW w, NEW Z, Copies(t, u, k, n, p, w, Z)
  PROVE  /\ IsCopy(t, u, k, n, p, w, Z)
         /\ Extends(u, t, n) /\ u.key[n] = t.key[p]
         /\ \A c \in 1 .. k : p \in Below(t, c) => u.up[c] = t.up[c]
<1> USE MaxElementsAssumption
<1> DEFINE new == (t.kids[p] \ {w}) \cup Z
<1>6. /\ GoodTree(t, k) /\ GoodTree(u, k) /\ Requested(t, k)
      /\ n \in Ids /\ k < n /\ p \in 1 .. k /\ w \in t.kids[p]
      /\ Z \subseteq 1 .. n - 1 /\ \A z \in Z : z \in 1 .. k => p \notin Below(t, z)
      /\ u = Rebuild(t, p, n, new)
  BY DEF Copies
<1>1. t \in Trees /\ p \in Ids /\ \A c \in 1 .. k : c \in Ids
  BY <1>6 DEF GoodTree, Ids
<1>2. /\ Extends(u, t, n)
      /\ u.kids[n] = new
      /\ u.key[n] = IF t.kind[p] = "class" THEN t.key[p] ELSE n
      /\ \A c \in Ids : u.up[c] = IF c \in new THEN n ELSE t.up[c]
  <2>1. n \in Ids /\ u = Rebuild(t, p, n, new)
    BY <1>6
  <2> HIDE DEF new
  <2> QED
    BY <1>1, <2>1, RebuildExtends
<1>3. t.kind[p] = "class"
  BY <1>6 DEF Requested
<1>4. IsCopy(t, u, k, n, p, w, Z)
  BY <1>2, <1>3, <1>6 DEF IsCopy
<1>5. ASSUME NEW c \in 1 .. k, p \in Below(t, c) PROVE u.up[c] = t.up[c]
  <2>1. c \in t.kids[p] => p \notin Below(t, c)
    BY <1>6, ChildIsLarger
  <2>2. c \notin new
    BY <1>5, <1>6, <2>1
  <2> QED
    BY <1>1, <1>2, <2>2
<1> QED
  BY <1>2, <1>3, <1>4, <1>5

\* A call on x, given y, in t, which is the tree and y when y is new: x's parent
\* is copied with the children new, those of Z in the place of x, unless x is one
\* that a result can be about.
CallOf(op, x, y, t, n, new, Z, refused) ==
  /\ x \in Ids /\ Calling(op, x, y)
  /\ GoodTree(t, received) /\ Extends(t, tree, next) /\ t.kids = tree.kids /\ t.up = tree.up
  /\ n \in next .. MaxElements + 1 /\ next' \in n .. MaxElements + 1 /\ y \in 0 .. n - 1
  /\ y # NoElement /\ y < next => x \notin Below(tree, y)
  /\ \A z : z \in Z <=> z = y /\ y # NoElement
  /\ x \in t.kids[t.up[x]] => new = (t.kids[t.up[x]] \ {x}) \cup Z
  /\ \/ IsCurrent(x) \/ IsParentOfCurrent(x)
     \/ Climb(t, x, n, new, refused) /\ UNCHANGED modifications

\* The handler's first call: either it is not on an element below the current
\* one, or it is refused, or it has made the copy of the edited element's parent.
LEMMA FirstCall ==
  ASSUME EInv, GoodTree(tree, received)', UNCHANGED <<received, current>>,
         Extends(tree', tree, next),
         NEW op, NEW x, NEW y, NEW t, NEW n, NEW new, NEW Z, NEW refused,
         CallOf(op, x, y, t, n, new, Z, refused)
  PROVE  /\ phase' = "climbing" => Halfway' /\ CurrentInv'
         /\ phase' \in {"running", "returned"} => OneEditIsExact'
<1> USE MaxElementsAssumption
<1> SUFFICES
      ASSUME x \in Ids, Calling(op, x, y),
             GoodTree(t, received), Extends(t, tree, next), t.kids = tree.kids, t.up = tree.up,
             n \in next .. MaxElements + 1, next' \in n .. MaxElements + 1, y \in 0 .. n - 1,
             y # NoElement /\ y < next => x \notin Below(tree, y),
             \A z : z \in Z <=> z = y /\ y # NoElement,
             x \in t.kids[t.up[x]] => new = (t.kids[t.up[x]] \ {x}) \cup Z,
             \/ IsCurrent(x) \/ IsParentOfCurrent(x)
             \/ Climb(t, x, n, new, refused) /\ UNCHANGED modifications
      PROVE  /\ phase' = "climbing" => Halfway' /\ CurrentInv'
             /\ phase' \in {"running", "returned"} => OneEditIsExact'
  BY DEF CallOf
<1> DEFINE k == received
<1>1. /\ phase = "running" /\ edits' = Append(edits, [op |-> op, on |-> x, with |-> y])
      /\ x \in 1 .. next - 1
  BY DEF Calling
<1>2. /\ edits \in Seq([op : Ops, on : Ids, with : Ids \cup {NoElement}])
      /\ k \in 0 .. MaxElements /\ next \in k + 1 .. MaxElements + 1
      /\ GoodTree(tree, k) /\ Requested(tree, k)
      /\ current \in 1 .. k
  BY <1>1 DEF EInv, IInv, Answers, TypeOK, CurrentInv
<1>3. CASE ~ FirstEdit'
  <2>1. OneEditIsExact'
    <3>1. (OneEditIsExact <=> (phase \in {"running", "returned"} /\ FirstEdit => Exact))'
      BY ExactIs, PTL
    <3> QED
      BY <1>3, <3>1
  <2>2. phase' = "climbing" => Halfway' /\ CurrentInv'
    BY <1>2, <1>3 DEF Halfway, CurrentInv
  <2> QED
    BY <2>1, <2>2
<1>4. CASE FirstEdit'
  <2>1. edits = <<>> /\ edits'[1] = [op |-> op, on |-> x, with |-> y] /\ Len(edits') = 1
    <3>1. Len(edits') = Len(edits) + 1 /\ Len(edits) \in Nat
      BY <1>1, <1>2
    <3>2. Len(edits') = 1
      BY <1>4 DEF FirstEdit
    <3>3. edits = <<>>
      <4> DEFINE before == Len(edits)
                 after == Len(edits')
      <4>1. before = 0
        <5>1. after = before + 1 /\ before \in Nat /\ after = 1
          BY <3>1, <3>2
        <5> HIDE DEF before, after
        <5> QED
          BY <5>1
      <4> QED
        BY <1>2, <4>1, EmptySeq
    <3> QED
      BY <1>1, <3>2, <3>3
  <2>2. /\ next = k + 1 /\ modifications = <<>>
        /\ \A c \in 1 .. k : PointsUp(c)
        /\ tree.up[current] < current
    BY <1>1, <2>1 DEF EInv, Untouched, CurrentInv
  <2>3. /\ current \in Ids /\ current < next /\ n \in k + 1 .. MaxElements + 1
        /\ \A c \in 1 .. k : c \in Ids /\ c < next
    BY <1>2 DEF Ids
  <2>4. \A r \in Ids : r < next => Below(tree', r) = Below(tree, r) /\ Below(t, r) = Below(tree, r)
    <3>1. GoodTree(tree', k)
      BY DEF GoodTree, Aged
    <3> QED
      BY <1>2, <3>1, OldReadsStay
  <2>5. x \in 1 .. k /\ x \in Below(tree, current) /\ x # current
    <3>1. x <= k /\ x \in Below(tree', current) /\ x # current
      BY <1>4, <2>1 DEF FirstEdit, BelowCurrent
    <3> QED
      BY <1>1, <1>2, <2>3, <2>4, <3>1
  <2>6. x \in current .. k
    BY <1>2, <2>5, BelowIsLarger
  <2>7. ~ IsCurrent(x) /\ ~ IsParentOfCurrent(x)
    BY <1>2, <2>2, <2>5, <2>6 DEF IsCurrent, IsParentOfCurrent
  <2>8. Climb(t, x, n, new, refused) /\ UNCHANGED modifications
    BY <2>7
  <2>9. PICK p \in Below(tree, current) : x \in tree.kids[p]
    BY <1>2, <2>3, <2>5, BelowHasAParent
  <2>10. p \in 1 .. k /\ p \in Ids
    <3>1. p \in current .. k
      BY <1>2, <2>9, BelowIsLarger
    <3>2. current \in 1 .. k /\ k \in 0 .. MaxElements
      BY <1>2
    <3> HIDE DEF k
    <3> QED
      BY <3>1, <3>2 DEF Ids
  <2>11. tree.up[x] = p /\ t.up[x] = p /\ p # NoElement
    BY <2>2, <2>5, <2>9, <2>10 DEF PointsUp, NoElement
  <2>12. CASE refused
    <3>1. phase' = "threw"
      BY <2>8, <2>11, <2>12 DEF Climb
    <3> QED
      BY <3>1
  <2>13. CASE ~ refused
    <3>1. /\ n <= MaxElements
          /\ tree' = Rebuild(t, p, n, new)
          /\ next' = n + 1
          /\ phase' = "climbing"
          /\ pending' = [target |-> p, other |-> n]
      BY <2>8, <2>11, <2>13 DEF Climb
    <3>2. new = (t.kids[p] \ {x}) \cup Z
      BY <2>9, <2>11
    <3>14. k < next /\ next \in Int /\ k < n /\ n \in Ids /\ p < n
      BY <1>2, <2>3, <2>10, <3>1 DEF Ids
    <3>3. Requested(t, k)
      BY <1>2, <3>14, RequestedStays
    <3>4. Z \subseteq 1 .. n - 1 /\ \A z \in Z : z = y /\ y # NoElement
      BY <2>3 DEF NoElement
    <3>5. \A z \in Z : z \in 1 .. k => p \notin Below(t, z)
      <4>1. SUFFICES ASSUME y \in 1 .. k, y # NoElement, p \in Below(t, y) PROVE FALSE
        BY <3>4
      <4>2. y \in Ids /\ y < next
        BY <2>3, <4>1
      <4>3. x \in Below(t, y)
        BY <2>9, <4>1, <4>2, BelowIsClosed DEF GoodTree
      <4> QED
        BY <2>4, <4>1, <4>2, <4>3
    <3>6. GoodTree(tree', k)
      BY DEF GoodTree, Aged
    <3>7. /\ IsCopy(t, tree', k, n, p, x, Z)
          /\ Extends(tree', t, n) /\ tree'.key[n] = t.key[p]
          /\ \A c \in 1 .. k : p \in Below(t, c) => tree'.up[c] = t.up[c]
      <4>1. x \in t.kids[p] /\ Z \subseteq 1 .. n - 1
        BY <2>9, <3>4
      <4>2. Copies(t, tree', k, n, p, x, Z)
        BY <2>10, <3>1, <3>2, <3>3, <3>5, <3>6, <3>14, <4>1 DEF Copies
      <4> QED
        BY <4>2, CopyLeavesTheWayUp
    <3>8. Reads(tree', Below(tree', n)) = Edited(tree', k, p, x, y)
      <4>1. Reads(tree', Below(tree', n)) = Edited(t, k, p, x, y)
        BY <3>7, FirstCopyReads
      <4> QED
        BY <2>3, <2>5, <2>10, <3>6, <3>7, <4>1, EditedStays
    <3>9. tree'.key[n] = tree'.key[p]
      BY <2>10, <3>7, <3>14 DEF Extends
    <3>10. ASSUME NEW c \in 1 .. k, p \in Below(tree', c) PROVE PointsUp(c)'
      <4>1. p \in Below(t, c)
        BY <2>3, <2>4, <3>10
      <4>2. tree'.up[c] = tree.up[c]
        BY <3>7, <4>1
      <4>3. \A q \in 1 .. k : tree'.kids[q] = tree.kids[q]
        BY <2>3 DEF Extends
      <4> QED
        BY <2>2, <4>2, <4>3 DEF PointsUp
    <3>11. x \in Below(tree', p) /\ x # p
      <4>1. x \in Below(tree, p)
        BY <1>2, <2>9, <2>10, BelowIsClosed DEF GoodTree
      <4>2. p < x
        BY <1>2, <2>9, <2>10, ChildIsLarger
      <4> QED
        BY <2>3, <2>4, <2>10, <4>1, <4>2
    <3>12. p \in Below(tree', current)
      BY <2>3, <2>4, <2>9
    <3>13. Halfway'
      <4>1. y \in 0 .. next' - 1 /\ n \in k + 1 .. next' - 1
        BY <2>3, <3>1
      <4> QED
        BY <2>1, <2>2, <2>8, <2>10, <3>1, <3>8, <3>9, <3>10, <3>11, <3>12, <4>1 DEF Halfway
    <3>15. CurrentInv'
      <4>1. tree'.up[current] = tree.up[current]
        BY <1>2, <2>3, <2>4, <2>9, <3>7
      <4> QED
        BY <1>2, <2>2, <4>1 DEF CurrentInv
    <3> QED
      BY <3>1, <3>13, <3>15
  <2> QED
    BY <2>12, <2>13
<1> QED
  BY <1>3, <1>4

LEMMA FrameExtends ==
  ASSUME NEW t \in Trees, NEW n \in 1 .. MaxElements + 1, NEW x \in Ids, NEW new, NEW refused,
         Climb(t, x, n, new, refused)
  PROVE  Extends(tree', t, n)
<1> USE MaxElementsAssumption
<1>1. CASE tree' = t
  BY <1>1 DEF Extends
<1>2. CASE t.up[x] # NoElement /\ n <= MaxElements /\ tree' = Rebuild(t, t.up[x], n, new)
  <2>1. n \in Ids /\ t.up[x] \in Ids
    BY <1>2 DEF Ids, Trees
  <2> QED
    BY <1>2, <2>1, RebuildExtends
<1> QED
  BY <1>1, <1>2 DEF Climb

\* A call leaves the requested elements as they are.
LEMMA RequestStays ==
  ASSUME EInv, GoodTree(tree, received)', UNCHANGED received, Extends(tree', tree, next)
  PROVE  /\ Requested(tree, received)'
         /\ GoodTree(tree', received)
         /\ \A r \in Ids : r < next => Below(tree', r) = Below(tree, r)
         /\ \A p \in 1 .. received : tree'.kids[p] = tree.kids[p] /\ tree'.key[p] = tree.key[p]
<1> USE MaxElementsAssumption
<1>1. /\ received \in 0 .. MaxElements /\ next \in received + 1 .. MaxElements + 1
      /\ GoodTree(tree, received) /\ Requested(tree, received)
  BY DEF EInv, IInv, TypeOK
<1>2. received < next /\ next \in Int
  BY <1>1
<1>3. Requested(tree', received)
  BY <1>1, <1>2, RequestedStays
<1>4. GoodTree(tree', received)
  BY DEF GoodTree, Aged
<1>5. \A p \in 1 .. received : p \in Ids /\ p < next
  BY <1>1, <1>2 DEF Ids
<1>6. \A r \in Ids : r < next => Below(tree', r) = Below(tree, r)
  BY <1>1, <1>4, OldReadsStay
<1>7. Requested(tree, received)'
  BY <1>3 DEF Requested
<1> QED
  BY <1>4, <1>5, <1>6, <1>7 DEF Extends

\* One more frame of the first call.
LEMMA NextFrame ==
  ASSUME EInv, ClimbOn, GoodTree(tree, received)', Extends(tree', tree, next)
  PROVE  /\ phase' = "climbing" => Halfway' /\ CurrentInv'
         /\ phase' \in {"running", "returned"} => OneEditIsExact'
<1> USE MaxElementsAssumption
<1> DEFINE k == received
           a == pending.target
           m == pending.other
           x == edits[1].on
           y == edits[1].with
<1>1. /\ phase = "climbing" /\ UNCHANGED <<received, current, edits>>
      /\ IF IsCurrent(a) \/ IsParentOfCurrent(a)
           THEN /\ Report(IF IsCurrent(a) THEN "ReplaceChild" ELSE "ReplaceParent", m)
                /\ UNCHANGED <<tree, next>>
           ELSE /\ Climb(tree, a, next, Substituted(tree, a, m), Refuses(tree, a, m))
                /\ UNCHANGED modifications
  BY DEF ClimbOn
<1>2. /\ k \in 0 .. MaxElements /\ next \in k + 1 .. MaxElements + 1
      /\ GoodTree(tree, k) /\ Requested(tree, k) /\ tree \in Trees
      /\ current \in 1 .. k
  BY <1>1 DEF EInv, IInv, TypeOK, CurrentInv
<1>3. /\ GoodTree(tree', k)
      /\ \A r \in Ids : r < next => Below(tree', r) = Below(tree, r)
      /\ \A p \in 1 .. k : tree'.kids[p] = tree.kids[p] /\ tree'.key[p] = tree.key[p]
  BY <1>1, RequestStays
<1>4. current \in Ids /\ current < next /\ \A c \in 1 .. k : c \in Ids /\ c < next
  BY <1>2 DEF Ids
<1>5. FirstEdit' <=> FirstEdit
  BY <1>1, <1>3, <1>4 DEF FirstEdit, BelowCurrent
<1>6. (OneEditIsExact <=> (phase \in {"running", "returned"} /\ FirstEdit => Exact))'
  BY ExactIs, PTL
<1>7. CASE ~ FirstEdit
  BY <1>1, <1>2, <1>5, <1>6, <1>7 DEF Halfway, CurrentInv
<1>8. CASE FirstEdit
  <2>1. /\ modifications = <<>>
        /\ y \in 0 .. next - 1
        /\ a \in 1 .. k /\ a \in Below(tree, current) /\ x \in Below(tree, a) \ {a}
        /\ \A c \in 1 .. k : a \in Below(tree, c) => PointsUp(c)
        /\ m \in k + 1 .. next - 1
        /\ tree.key[m] = tree.key[a]
        /\ Reads(tree, Below(tree, m)) = Edited(tree, k, a, x, y)
        /\ tree.up[current] < current
    BY <1>1, <1>8 DEF EInv, Halfway, CurrentInv
  <2>2. a \in current .. k /\ a \in Ids
    BY <1>2, <1>4, <2>1, BelowIsLarger
  <2>3. CASE a = current
    <3>1. modifications' = Append(<<>>, [kind |-> "ReplaceChild", element |-> m]) /\ tree' = tree
      BY <1>1, <2>1, <2>3 DEF IsCurrent, Report
    <3>2. Len(modifications') = 1 /\ modifications'[1] = [kind |-> "ReplaceChild", element |-> m]
      BY <3>1
    <3>3. Exact'
      BY <1>1, <2>1, <2>3, <3>1, <3>2 DEF Exact
    <3>4. phase' = "running"
      BY <1>1, <2>3 DEF ClimbOn, IsCurrent
    <3> QED
      BY <1>6, <3>3, <3>4
  <2>4. CASE a # current
    <3>1. ~ IsCurrent(a) /\ ~ IsParentOfCurrent(a)
      BY <1>2, <2>1, <2>2, <2>4 DEF IsCurrent, IsParentOfCurrent
    <3>2. Climb(tree, a, next, Substituted(tree, a, m), Refuses(tree, a, m)) /\ UNCHANGED modifications
      BY <1>1, <3>1
    <3>3. PICK p \in Below(tree, current) : a \in tree.kids[p]
      BY <1>2, <1>4, <2>1, <2>4, BelowHasAParent
    <3>4. p \in 1 .. k /\ p \in Ids /\ p < next
      <4>1. p \in current .. k
        BY <1>2, <3>3, BelowIsLarger
      <4> QED
        BY <1>2, <4>1 DEF Ids
    <3>5. tree.up[a] = p /\ p # NoElement
      <4>1. a \in Below(tree, a)
        BY <1>2, <2>2, BelowIsClosed DEF GoodTree
      <4> QED
        BY <2>1, <3>3, <3>4, <4>1 DEF PointsUp, NoElement
    <3>6. CASE Refuses(tree, a, m)
      <4>1. phase' = "threw"
        BY <3>2, <3>5, <3>6 DEF Climb
      <4> QED
        BY <4>1
    <3>7. CASE ~ Refuses(tree, a, m)
      <4>1. /\ next <= MaxElements
            /\ tree' = Rebuild(tree, p, next, Substituted(tree, a, m))
            /\ next' = next + 1
            /\ phase' = "climbing"
            /\ pending' = [target |-> p, other |-> next]
        BY <3>2, <3>5, <3>7 DEF Climb
      <4>2. Substituted(tree, a, m) = (tree.kids[p] \ {a}) \cup {m}
        BY <3>3, <3>5 DEF Substituted
      <4>3. k < next /\ next \in Ids /\ {m} \subseteq 1 .. next - 1 /\ m \notin 1 .. k
        BY <1>2, <2>1, <4>1 DEF Ids
      <4>4. Copies(tree, tree', k, next, p, a, {m})
        BY <1>2, <1>3, <3>3, <3>4, <4>1, <4>2, <4>3 DEF Copies
      <4>5. /\ IsCopy(tree, tree', k, next, p, a, {m})
            /\ tree'.key[next] = tree.key[p]
            /\ \A c \in 1 .. k : p \in Below(tree, c) => tree'.up[c] = tree.up[c]
        BY <4>4, CopyLeavesTheWayUp
      <4>6. p < a /\ Below(tree, a) \subseteq Below(tree, p) /\ a \in Below(tree, p)
        <5>1. p < a
          BY <1>2, <3>3, <3>4, ChildIsLarger
        <5>2. a \in Below(tree, p)
          BY <1>2, <3>3, <3>4, BelowIsClosed DEF GoodTree
        <5> QED
          BY <1>2, <3>4, <5>1, <5>2, BelowNests
      <4>7. x \in a .. k
        BY <1>2, <2>1, BelowIsLarger
      <4>8. Reads(tree', Below(tree', next)) = Edited(tree', k, p, x, y)
        <5>1. Reads(tree', Below(tree', next)) = Edited(tree, k, p, x, y)
          BY <2>1, <4>5, NextCopyReads
        <5>2. x \in 1 .. k
          BY <1>2, <2>1, <4>7
        <5>3. y \in 0 .. next - 1
          BY <2>1
        <5>4. Edited(tree', k, p, x, y) = Edited(tree, k, p, x, y)
          <6> HIDE DEF x, y
          <6> QED
            BY <1>2, <1>3, <3>4, <5>2, <5>3, EditedStays
        <5> QED
          BY <5>1, <5>4
      <4>9. ASSUME NEW c \in 1 .. k, p \in Below(tree', c) PROVE PointsUp(c)'
        <5>1. p \in Below(tree, c)
          BY <1>3, <1>4, <4>9
        <5>2. a \in Below(tree, c)
          BY <1>2, <1>4, <3>3, <5>1, BelowIsClosed DEF GoodTree
        <5>3. PointsUp(c)
          BY <2>1, <5>2
        <5> QED
          BY <1>1, <1>3, <4>5, <5>1, <5>3 DEF PointsUp
      <4>10. x \in Below(tree', p) /\ x # p /\ p \in Below(tree', current)
        BY <1>2, <1>3, <1>4, <2>1, <3>3, <3>4, <4>6, <4>7
      <4>11. Halfway'
        <5>1. y \in 0 .. next' - 1 /\ next \in k + 1 .. next' - 1
          <6>1. y \in 0 .. next - 1 /\ k \in Nat /\ next \in Nat /\ k < next /\ next' = next + 1
            BY <1>2, <2>1, <4>1, <4>3
          <6> HIDE DEF y
          <6> QED
            BY <6>1
        <5>2. tree'.key[next] = tree'.key[p]
          BY <1>3, <3>4, <4>5
        <5> QED
          BY <1>1, <2>1, <3>2, <3>4, <4>1, <4>8, <4>9, <4>10, <5>1, <5>2 DEF Halfway
      <4>12. CurrentInv'
        <5>1. tree'.up[current] = tree.up[current]
          BY <1>2, <3>3, <4>5
        <5> QED
          BY <1>1, <1>2, <2>1, <4>1, <5>1 DEF CurrentInv
      <4> QED
        BY <4>1, <4>11, <4>12
    <3> QED
      BY <3>6, <3>7
  <2> QED
    BY <2>3, <2>4
<1> QED
  BY <1>7, <1>8

\* What is left of a step that is part of a call.
LEMMA CallKeeps ==
  ASSUME EInv, IInv', GoodTree(tree, received)', UNCHANGED <<received, current>>,
         Extends(tree', tree, next), phase # "waiting", edits' # <<>>,
         phase' = "climbing" => Halfway' /\ CurrentInv',
         phase' \in {"running", "returned"} => OneEditIsExact'
  PROVE  EInv'
<1>1. Requested(tree, received)'
  BY RequestStays
<1>2. Untouched'
  BY DEF Untouched
<1>3. CurrentInv'
  <2>1. phase' # "climbing" => CurrentInv'
    BY DEF EInv, CurrentInv
  <2> QED
    BY <2>1
<1>4. Halfway'
  <2>1. phase' # "climbing" => Halfway'
    BY DEF Halfway
  <2> QED
    BY <2>1
<1>5. OneEditIsExact'
  <2>1. phase' \notin {"running", "returned"} => OneEditIsExact'
    BY DEF OneEditIsExact
  <2> QED
    BY <2>1
<1> QED
  BY <1>1, <1>2, <1>3, <1>4, <1>5 DEF EInv

LEMMA CallMakesAnEdit ==
  ASSUME NEW op, NEW x, NEW y, Calling(op, x, y), edits \in Seq([op : Ops, on : Ids, with : Ids \cup {NoElement}])
  PROVE  edits' # <<>>
<1>1. edits' = Append(edits, [op |-> op, on |-> x, with |-> y])
  BY DEF Calling
<1>2. Len(edits') = Len(edits) + 1 /\ Len(edits) \in Nat
  BY <1>1
<1>3. edits' = <<>> => Len(edits') = 0
  OBVIOUS
<1> DEFINE before == Len(edits)
           after == Len(edits')
<1>4. after = before + 1 /\ before \in Nat /\ (edits' = <<>> => after = 0)
  BY <1>2, <1>3
<1> HIDE DEF before, after
<1> QED
  BY <1>4

LEMMA RemoveExact ==
  ASSUME EInv, IInv', GoodTree(tree, received)', NEW x \in Ids, Remove(x)
  PROVE  EInv'
<1> USE MaxElementsAssumption
<1>1. /\ Calling("remove", x, NoElement) /\ phase = "running" /\ x \in 1 .. next - 1
      /\ UNCHANGED <<received, current>>
      /\ \/ (IsCurrent(x) \/ IsParentOfCurrent(x)) /\ UNCHANGED <<tree, next>>
         \/ /\ Climb(tree, x, next, tree.kids[tree.up[x]] \ {x}, FALSE)
            /\ UNCHANGED modifications
  BY DEF Remove, Calling
<1>2. /\ GoodTree(tree, received) /\ tree \in Trees
      /\ received \in 0 .. MaxElements /\ next \in received + 1 .. MaxElements + 1
      /\ edits \in Seq([op : Ops, on : Ids, with : Ids \cup {NoElement}])
      /\ MadeBefore(tree, next)
  BY DEF EInv, IInv, TypeOK, Answers
<1>3. next \in 1 .. MaxElements + 1 /\ next \in next .. MaxElements + 1
  BY <1>2
<1>4. Extends(tree, tree, next)
  BY DEF Extends
<1>5. Extends(tree', tree, next)
  <2>1. CASE tree' = tree
    BY <1>4, <2>1
  <2>2. CASE Climb(tree, x, next, tree.kids[tree.up[x]] \ {x}, FALSE)
    BY <1>2, <1>3, <2>2, FrameExtends
  <2> QED
    BY <1>1, <2>1, <2>2
<1>6. next' \in next .. MaxElements + 1
  BY <1>1, <1>2 DEF Climb
<1>7. edits' # <<>>
  BY <1>1, <1>2, CallMakesAnEdit
<1>8. NoElement \in 0 .. next - 1
  BY <1>2 DEF NoElement
<1>9. /\ phase' = "climbing" => Halfway' /\ CurrentInv'
      /\ phase' \in {"running", "returned"} => OneEditIsExact'
  <2> DEFINE new == tree.kids[tree.up[x]] \ {x}
             Z == {z \in {NoElement} : z # NoElement}
  <2>1. new = (tree.kids[tree.up[x]] \ {x}) \cup Z
    OBVIOUS
  <2>2. \A z : z \in Z <=> z = NoElement /\ NoElement # NoElement
    OBVIOUS
  <2>3. \/ IsCurrent(x) \/ IsParentOfCurrent(x)
        \/ Climb(tree, x, next, new, FALSE) /\ UNCHANGED modifications
    BY <1>1
  <2> HIDE DEF new, Z
  <2>4. CallOf("remove", x, NoElement, tree, next, new, Z, FALSE)
    BY <1>1, <1>2, <1>3, <1>4, <1>6, <1>8, <2>1, <2>2, <2>3 DEF CallOf
  <2> QED
    BY <1>1, <1>5, <2>4, FirstCall
<1> QED
  BY <1>1, <1>5, <1>7, <1>9, CallKeeps

LEMMA EditExact ==
  ASSUME EInv, IInv', GoodTree(tree, received)', NEW x \in Ids, NEW op,
         NEW onCurrent, NEW onParent, Edit(op, x, onCurrent, onParent)
  PROVE  EInv'
<1> USE MaxElementsAssumption
<1>1. PICK o \in Others(x) :
        /\ Calling(op, x, o.el)
        /\ \/ (IsCurrent(x) \/ IsParentOfCurrent(x)) /\ tree' = o.t /\ next' = o.n
           \/ /\ Climb(o.t, x, o.n, Substituted(o.t, x, o.el), Refuses(o.t, x, o.el))
              /\ UNCHANGED modifications
  BY DEF Edit
<1>2. phase = "running" /\ x \in 1 .. next - 1 /\ UNCHANGED <<received, current>>
  BY <1>1 DEF Calling
<1>3. /\ GoodTree(tree, received) /\ tree \in Trees
      /\ received \in 0 .. MaxElements /\ next \in received + 1 .. MaxElements + 1
      /\ edits \in Seq([op : Ops, on : Ids, with : Ids \cup {NoElement}])
  BY DEF EInv, IInv, TypeOK, Answers
<1>4. /\ MadeBefore(o.t, o.n)
      /\ o.t.kids = tree.kids
      /\ o.n \in next .. MaxElements + 1
      /\ o.el \in 1 .. o.n - 1
  BY <1>2, OthersAreMade DEF EInv
<1>5. /\ Extends(o.t, tree, next)
      /\ o.t.up = tree.up
      /\ o.el < next => x \notin Below(tree, o.el)
  BY OthersExtend DEF EInv
<1> DEFINE t == o.t
           n == o.n
           y == o.el
<1>6. GoodTree(t, received) /\ t \in Trees
  BY <1>3, <1>4 DEF GoodTree, Aged, MadeBefore
<1>7. /\ n \in 1 .. MaxElements + 1 /\ n \in Int /\ next \in Int /\ next <= n
      /\ y \in 0 .. n - 1 /\ y # NoElement
  <2>1. n \in next .. MaxElements + 1 /\ y \in 1 .. n - 1
    BY <1>4
  <2> HIDE DEF n, y
  <2> QED
    BY <1>3, <2>1 DEF NoElement
<1>8. Extends(tree', tree, next)
  <2>1. Extends(tree', t, n)
    <3>1. CASE tree' = o.t
      BY <3>1 DEF Extends
    <3>2. CASE Climb(o.t, x, o.n, Substituted(o.t, x, o.el), Refuses(o.t, x, o.el))
      BY <1>6, <1>7, <3>2, FrameExtends
    <3> QED
      BY <1>1, <3>1, <3>2
  <2>2. \A p \in Ids : p < next => p < n
    <3> HIDE DEF n
    <3> QED
      BY <1>7 DEF Ids
  <2> QED
    BY <1>5, <2>1, <2>2 DEF Extends
<1>9. next' \in n .. MaxElements + 1
  <2>1. next' = n \/ (n <= MaxElements /\ next' = n + 1)
    BY <1>1 DEF Climb
  <2> HIDE DEF n
  <2> QED
    BY <1>7, <2>1
<1>10. edits' # <<>>
  BY <1>1, <1>3, CallMakesAnEdit
<1>11. /\ phase' = "climbing" => Halfway' /\ CurrentInv'
       /\ phase' \in {"running", "returned"} => OneEditIsExact'
  <2> DEFINE new == Substituted(t, x, y)
             Z == {y}
             refused == Refuses(t, x, y)
  <2>1. x \in t.kids[t.up[x]] => new = (t.kids[t.up[x]] \ {x}) \cup Z
    BY DEF Substituted
  <2>2. \A z : z \in Z <=> z = y /\ y # NoElement
    BY <1>7
  <2>3. \/ IsCurrent(x) \/ IsParentOfCurrent(x)
        \/ Climb(t, x, n, new, refused) /\ UNCHANGED modifications
    BY <1>1
  <2>4. /\ Calling(op, x, y) /\ Extends(t, tree, next) /\ t.kids = tree.kids /\ t.up = tree.up
        /\ n \in next .. MaxElements + 1
        /\ (y # NoElement /\ y < next => x \notin Below(tree, y))
    BY <1>1, <1>4, <1>5
  <2> HIDE DEF new, Z, refused, t, n, y
  <2> QED
    <3>1. CallOf(op, x, y, t, n, new, Z, refused)
      BY <1>6, <1>7, <1>9, <2>1, <2>2, <2>3, <2>4 DEF CallOf
    <3> QED
      BY <1>2, <1>8, <3>1, FirstCall
<1> QED
  BY <1>2, <1>8, <1>10, <1>11, CallKeeps

LEMMA ClimbOnExact ==
  ASSUME EInv, IInv', GoodTree(tree, received)', ClimbOn
  PROVE  EInv'
<1> USE MaxElementsAssumption
<1> DEFINE a == pending.target
<1>1. phase = "climbing" /\ UNCHANGED <<received, current, edits>>
  BY DEF ClimbOn
<1>2. /\ tree \in Trees
      /\ received \in 0 .. MaxElements /\ next \in received + 1 .. MaxElements + 1
      /\ Len(modifications) < Len(edits) /\ Len(modifications) \in Nat
      /\ a \in 0 .. next - 1 /\ a # NoElement
  BY <1>1 DEF EInv, IInv, TypeOK, Answers
<1>3. next \in 1 .. MaxElements + 1 /\ a \in Ids
  <2> HIDE DEF a
  <2> QED
    BY <1>2 DEF NoElement, Ids
<1>4. edits # <<>>
  <2>1. Len(edits) # 0
    BY <1>2
  <2> QED
    BY <2>1
<1>5. Extends(tree', tree, next)
  <2>1. CASE tree' = tree
    BY <2>1 DEF Extends
  <2>2. CASE Climb(tree, a, next, Substituted(tree, a, pending.other), Refuses(tree, a, pending.other))
    BY <1>2, <1>3, <2>2, FrameExtends
  <2> QED
    BY <2>1, <2>2 DEF ClimbOn
<1> QED
  BY <1>1, <1>4, <1>5, NextFrame, CallKeeps

LEMMA ReturnExact ==
  ASSUME EInv, IInv', GoodTree(tree, received)', Return \/ UNCHANGED vars
  PROVE  EInv'
<1>1. /\ UNCHANGED <<tree, received, next, current, modifications, pending, edits>>
      /\ \/ phase = "running" /\ phase' \in {"returned", "threw"}
         \/ phase' = phase
  BY DEF Return, vars
<1>2. Requested(tree, received)'
  BY <1>1 DEF EInv, Requested
<1>3. Untouched' /\ CurrentInv'
  BY <1>1 DEF EInv, Untouched, CurrentInv, PointsUp, FirstEdit, BelowCurrent, Below
<1>4. Halfway'
  BY <1>1 DEF EInv, Halfway, FirstEdit, BelowCurrent, PointsUp
<1>5. OneEditIsExact'
  <2>1. (OneEditIsExact <=> (phase \in {"running", "returned"} /\ FirstEdit => Exact))'
    BY ExactIs, PTL
  <2>2. OneEditIsExact <=> (phase \in {"running", "returned"} /\ FirstEdit => Exact)
    BY ExactIs
  <2>3. FirstEdit' = FirstEdit /\ Exact' = Exact
    BY <1>1 DEF FirstEdit, BelowCurrent, Exact
  <2> QED
    BY <1>1, <2>1, <2>2, <2>3 DEF EInv
<1> QED
  BY <1>2, <1>3, <1>4, <1>5 DEF EInv

LEMMA ExactStep == EInv /\ [Next]_vars => EInv'
<1> SUFFICES ASSUME EInv, [Next]_vars PROVE EInv'
  OBVIOUS
<1>1. IInv'
  BY StepInv DEF EInv
<1>2. GoodTree(tree, received)'
  <2>1. Aged(tree', received')
    BY AgedStep DEF EInv, GoodTree
  <2> QED
    BY <1>1, <2>1 DEF GoodTree, Aged, IInv, TypeOK
<1>3. CASE MapElement
  BY <1>3, MapElementExact
<1>4. ASSUME NEW x \in Ids, Remove(x) PROVE EInv'
  BY <1>1, <1>2, <1>4, RemoveExact
<1>5. ASSUME NEW x \in Ids, ReplaceWith(x) \/ Add(x) PROVE EInv'
  BY <1>1, <1>2, <1>5, EditExact DEF ReplaceWith, Add
<1>6. CASE ClimbOn
  BY <1>1, <1>2, <1>6, ClimbOnExact
<1>7. CASE Return \/ UNCHANGED vars
  BY <1>1, <1>2, <1>7, ReturnExact
<1> QED
  BY <1>3, <1>4, <1>5, <1>6, <1>7 DEF Next

\* One remove or replaceWith of an element at any depth below the current one is
\* one result that reads like the current element with exactly that edit, in
\* requests of any size: no element beside the edited one is lost, doubled or
\* moved on the way up.
THEOREM OneEditIsDone == Spec => []OneEditIsExact
<1>1. EInv => OneEditIsExact
  BY DEF EInv
<1> QED
  BY <1>1, InitExact, ExactStep, PTL DEF Spec

=============================================================================
