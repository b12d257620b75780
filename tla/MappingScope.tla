---------------------------- MODULE MappingScope ----------------------------
(***************************************************************************)
(* The client's side of a mapping (Mapping.kt): a handler is shown a copy  *)
(* of the tree below the current element's parent and edits it by calling  *)
(* remove, replaceWith and add on elements; each call must become a result *)
(* about the current element or its parent, the only two a MapResult can   *)
(* be about.  An edit further down climbs: the edited element's parent is  *)
(* replaced by a rebuilt copy of itself, and so on up.                     *)
(*                                                                         *)
(* The elements are those of ResolvedTree; here a children list is a set   *)
(* only, for its order plays no part.                                      *)
(***************************************************************************)
EXTENDS ResolvedTree, Sequences

CONSTANTS
  Bounds         \* bounds: each is a sequence that says, for every request one
                 \* mapping serves, how many elements it has and how many
                 \* calls its handler makes, at most

ASSUME ScopeBoundsAssumption ==
  Bounds \subseteq Seq([elements : 1 .. MaxElements, calls : Nat])

VARIABLES
  tree,           \* the client's objects: the request's and those made since
  received,       \* objects 1 .. received came with the request; 1 is its parent
  next,           \* the number of the next object
  current,        \* currentElement
  modifications,  \* the results so far
  phase,          \* where the mapping is
  pending,        \* the replaceWith call that is climbing
  edits,          \* history: the calls the handler made for this request
  requests,       \* how many requests were served
  bounds          \* the bounds of this behaviour

vars ==
  <<tree, received, next, current, modifications, phase, pending, edits, requests, bounds>>

NoCall == [target |-> NoElement, other |-> NoElement]

Init ==
  /\ tree = TreeOf(0, <<>>, {})
  /\ received = 0
  /\ next = 1
  /\ current = NoElement
  /\ modifications = <<>>
  /\ phase = "waiting"
  /\ pending = NoCall
  /\ edits = <<>>
  /\ requests = 0
  /\ bounds \in Bounds

\* r and everything below it in the children lists.
Below(t, r) ==
  LET level[n \in 0 .. MaxElements] ==
        IF n = 0 THEN {r}
        ELSE LET above == level[n - 1]
             IN  above \cup UNION {t.kids[p] : p \in above}
  IN  level[MaxElements]

\* Mutant of Cleared: modifications.clear() is missing.
NotCleared == modifications

\* What mapElement starts from.
Cleared == <<>>

\* mapElement: the request is decoded, setParents gives every element but the
\* root its parent, the results of the last request are dropped.
MapElement ==
  /\ phase \in {"waiting", "returned", "threw"}
  /\ requests < Len(bounds)
  /\ requests' = requests + 1
  /\ modifications' = Cleared
  /\ \E k \in 1 .. bounds[requests'].elements : \E u \in Forests(k) : \E cls \in SUBSET (1 .. k) :
        /\ \A c \in 2 .. k : u[c] # NoElement /\ u[c] \in cls
        /\ tree' = TreeOf(k, u, cls)
        /\ received' = k
        /\ next' = k + 1
        /\ \E c \in 1 .. k : (c = 1 \/ u[c] = 1) /\ current' = c
  /\ phase' = "running"
  /\ pending' = NoCall
  /\ edits' = <<>>
  /\ UNCHANGED bounds

\* What replaceWith and add are given: a new element, equal to an older one
\* or to none, or an element of the tree that is not above x, to be moved.
\* (Bound: the handler passes no element that is above the one it edits.)
Made(key, kind) ==
  [t |-> [tree EXCEPT !.key[next] = key, !.kind[next] = kind],
   el |-> next, n |-> next + 1]

Others(x) ==
  {[t |-> tree, el |-> y, n |-> next] : y \in {y \in 1 .. received : x \notin Below(tree, y)}}
  \cup (IF next > MaxElements THEN {}
        ELSE {Made(next, kind) : kind \in Kinds}
             \cup {Made(tree.key[y], "class") : y \in {y \in 1 .. received : tree.kind[y] = "class"}})

\* The two elements a result can be about.
IsCurrent(x) == x = current
IsParentOfCurrent(x) == x # current /\ tree.up[current] = x

\* Mutant of Rebuild: the parent itself is edited, too.
RebuildInPlace(t, p, n, new) ==
  [t EXCEPT !.key[n]  = IF t.kind[p] = "class" THEN t.key[p] ELSE n,
            !.kind[n] = t.kind[p],
            !.kids    = [@ EXCEPT ![n] = new, ![p] = new],
            !.up      = [c \in Ids |-> IF c \in new THEN n ELSE @[c]]]

\* Mutant of Rebuild: it.addChild(it), the line commented out in remove.
RebuildAddingItself(t, p, n, new) ==
  [t EXCEPT !.key[n]  = IF t.kind[p] = "class" THEN t.key[p] ELSE n,
            !.kind[n] = t.kind[p],
            !.kids[n] = new \cup {n},
            !.up      = [c \in Ids |-> IF c \in new THEN n ELSE @[c]]]

\* A clone of p, object n of t, with the children new.  addChild makes every
\* one of them a child of the clone: their parent pointers move.
Rebuild(t, p, n, new) ==
  [t EXCEPT !.key[n]  = IF t.kind[p] = "class" THEN t.key[p] ELSE n,
            !.kind[n] = t.kind[p],
            !.kids[n] = new,
            !.up      = [c \in Ids |-> IF c \in new THEN n ELSE @[c]]]

Report(kind, el) == modifications' = Append(modifications, [kind |-> kind, element |-> el])

\* Common to the calls: the handler may call on any object it can reach.
Calling(op, x, other) ==
  /\ phase = "running"
  /\ Len(edits) < bounds[requests].calls
  /\ x \in 1 .. next - 1
  /\ edits' = Append(edits, [op |-> op, on |-> x, with |-> other])
  /\ UNCHANGED <<received, current, requests, bounds>>

\* Mutant of Climb: the recursive call is on the element, not on its parent.
ClimbInPlace(t, x, n, new, refused) ==
  IF t.up[x] = NoElement \/ refused
    THEN tree' = t /\ next' = n /\ phase' = "running" /\ pending' = NoCall
    ELSE /\ n <= MaxElements
         /\ tree' = Rebuild(t, t.up[x], n, new)
         /\ next' = n + 1
         /\ phase' = "climbing"
         /\ pending' = [target |-> x, other |-> n]

\* Replace x by new in a copy of its parent, in t with the next object n, and
\* go on with the parent; without a parent the call just returns.
Climb(t, x, n, new, refused) ==
  LET p == t.up[x]
  IN  IF p = NoElement
        THEN /\ tree' = t
             /\ next' = n
             /\ phase' = "running"
             /\ pending' = NoCall
        ELSE IF refused
          THEN /\ tree' = t
               /\ next' = n
               /\ phase' = "threw"
               /\ pending' = NoCall
          ELSE /\ n <= MaxElements
               /\ tree' = Rebuild(t, p, n, new)
               /\ next' = n + 1
               /\ phase' = "climbing"
               /\ pending' = [target |-> p, other |-> n]

Remove(x) ==
  /\ Calling("remove", x, NoElement)
  /\ IF IsCurrent(x) \/ IsParentOfCurrent(x)
       THEN /\ Report(IF IsCurrent(x) THEN "RemoveChild" ELSE "RemoveParent", NoElement)
            /\ UNCHANGED <<tree, next, phase, pending>>
       ELSE /\ Climb(tree, x, next, tree.kids[tree.up[x]] \ {x}, FALSE)
            /\ UNCHANGED modifications

\* Mutant of Substituted: the replaced element stays beside its replacement.
SubstitutedBeside(t, x, other) == t.kids[t.up[x]] \cup {other}

\* The children of x's parent with other in the place of x.
Substituted(t, x, other) ==
  LET ks == t.kids[t.up[x]]
  IN  IF x \in ks THEN (ks \ {x}) \cup {other} ELSE ks

\* Whether addChild refuses other, or a child that stays because of it.
Refuses(t, x, other) ==
  LET ks == t.kids[t.up[x]]
  IN  x \in ks /\ \E y \in ks \ {x} : Equal(t, y, other)

\* replaceWith, and add: on the current element and on its parent each has a
\* result of its own, on any other element both put the new one in its place.
Edit(op, x, onCurrent, onParent) ==
  \E o \in Others(x) :
    /\ Calling(op, x, o.el)
    /\ IF IsCurrent(x) \/ IsParentOfCurrent(x)
         THEN /\ Report(IF IsCurrent(x) THEN onCurrent ELSE onParent, o.el)
              /\ tree' = o.t
              /\ next' = o.n
              /\ UNCHANGED <<phase, pending>>
         ELSE /\ Climb(o.t, x, o.n, Substituted(o.t, x, o.el), Refuses(o.t, x, o.el))
              /\ UNCHANGED modifications

ReplaceWith(x) == Edit("replaceWith", x, "ReplaceChild", "ReplaceParent")

Add(x) == Edit("add", x, "AddToChild", "AddToParent")

\* One more frame of replaceWith, on the parent whose copy was rebuilt.
ClimbOn ==
  /\ phase = "climbing"
  /\ LET x == pending.target
     IN  IF IsCurrent(x) \/ IsParentOfCurrent(x)
           THEN /\ Report(IF IsCurrent(x) THEN "ReplaceChild" ELSE "ReplaceParent",
                          pending.other)
                /\ phase' = "running"
                /\ pending' = NoCall
                /\ UNCHANGED <<tree, next>>
           ELSE /\ Climb(tree, x, next, Substituted(tree, x, pending.other),
                         Refuses(tree, x, pending.other))
                /\ UNCHANGED modifications
  /\ UNCHANGED <<received, current, edits, requests, bounds>>

\* The handler returns, and mapElement the results; or the handler throws.
Return ==
  /\ phase = "running"
  /\ phase' \in {"returned", "threw"}
  /\ UNCHANGED <<tree, received, next, current, modifications, pending, edits, requests,
                 bounds>>

Next ==
  \/ MapElement
  \/ \E x \in Ids : Remove(x) \/ ReplaceWith(x) \/ Add(x)
  \/ ClimbOn
  \/ Return

Spec == Init /\ [][Next]_vars

\* A frame of replaceWith that was entered goes on; it is plain recursion.
FairSpec == Spec /\ WF_vars(ClimbOn)

-----------------------------------------------------------------------------
(* Properties. *)

Allocated == 1 .. next - 1

TypeOK ==
  /\ tree \in Trees
  /\ received \in 0 .. MaxElements
  /\ next \in received + 1 .. MaxElements + 1
  /\ current \in 0 .. received
  /\ \A i \in DOMAIN modifications :
       modifications[i].element \in {NoElement} \cup Allocated
  /\ phase \in {"waiting", "running", "climbing", "returned", "threw"}
  /\ pending.target \in 0 .. next - 1 /\ pending.other \in 0 .. next - 1
  /\ requests \in 0 .. Len(bounds)

\* The elements as a reader of the tree sees them: which lists which, in the
\* part of the tree made of the objects in els.  A copy reads like the original.
Reads(t, els) ==
  {<<t.key[e[1]], t.key[e[2]]>> : e \in {e \in els \X els : e[2] \in t.kids[e[1]]}}

\* What the tree below the current element should read like after one call
\* on an element x below it, to remove x or to put y in its place.
Intended(x, y) ==
  LET kept == Below(tree, current) \ Below(tree, x)
      over == {p \in kept : p <= received /\ x \in tree.kids[p]}
  IN  Reads(tree, kept) \cup
      (IF y = NoElement THEN {}
       ELSE {<<tree.key[p], tree.key[y]>> : p \in over} \cup Reads(tree, Below(tree, y)))

BelowCurrent(x) == x \in Below(tree, current) \ {current}

\* One remove or replaceWith of an element at any depth below the current one
\* becomes one result: the current element replaced by a tree that is the old
\* one but for the edit.
OneEditIsExact ==
  (phase \in {"running", "returned"} /\ Len(edits) = 1) =>
    LET e == edits[1]
    IN  (e.op # "add" /\ e.on <= received /\ BelowCurrent(e.on)) =>
          /\ Len(modifications) = 1
          /\ modifications[1].kind = "ReplaceChild"
          /\ LET r == modifications[1].element
             IN  /\ tree.key[r] = tree.key[current]
                 /\ Reads(tree, Below(tree, r)) = Intended(e.on, e.with)

\* What is sent back is finite: below a result's element no element is below
\* itself, so serializing it ends, however often elements were moved.
ResultsAreTrees ==
  \A i \in DOMAIN modifications :
    LET r == modifications[i].element
    IN  r # NoElement =>
          \A x \in Below(tree, r) : \A c \in tree.kids[x] : x \notin Below(tree, c)

\* The elements a handler holds are read only: no call changes a children list
\* the handler can have read, only copies get new ones.
ReadElementsStay ==
  [][phase # "waiting" /\ UNCHANGED requests =>
       \A x \in Allocated : tree'.kids[x] = tree.kids[x]]_vars

\* Results answer this request's calls, at most one each, also when an earlier
\* handler threw halfway.
ResultsAnswerTheCalls == Len(modifications) <= Len(edits)

\* A call to remove, replaceWith or add returns or throws: climbing ends.
CallsReturn == phase = "climbing" ~> phase # "climbing"

-----------------------------------------------------------------------------
(* What the repository says of the calls, and the code does not keep.        *)
(* README.md: "All resolved types are immutable, so changes can only be made *)
(* by calling add, remove, or replaceWith from within a mapping function."   *)

\* A second call of a handler, like the first on an element below the current
\* one, has an effect: there is a result for each once it has returned.
SecondCallIsReported ==
  (phase \in {"running", "returned"} /\ Len(edits) = 2
   /\ (\A i \in 1 .. 2 : edits[i].on <= received /\ BelowCurrent(edits[i].on))
   /\ edits[2].on \notin Below(tree, edits[1].on)) => Len(modifications) = 2

=============================================================================
