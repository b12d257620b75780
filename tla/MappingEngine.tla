---------------------------- MODULE MappingEngine ----------------------------
(***************************************************************************)
(* One indexed service (IndexedServiceImpl.kt): the classes it resolved,   *)
(* the mappings registered with it, and the loop of writeTo that shows     *)
(* every element to every mapping whose filter accepts it and applies the  *)
(* results to the tree before the code is generated from it.               *)
(*                                                                         *)
(* The mappings run in the client.  A request carries a serialized copy of *)
(* the tree below the element's parent, and a result carries new elements  *)
(* that the service decodes into objects of its own.  What a filter says   *)
(* and what a handler answers is arbitrary here.                           *)
(***************************************************************************)
EXTENDS ResolvedTree, Sequences

CONSTANTS
  MaxOriginals,  \* bound: elements that resolving yields
  MaxMappings,   \* bound: mappings registered
  MaxResults     \* bound: results in one answer

ASSUME BoundsAssumption ==
  /\ MaxOriginals \in 0 .. MaxElements
  /\ MaxMappings \in Nat
  /\ MaxResults \in Nat

VARIABLES
  tree,      \* the objects reachable or not from classes
  originals, \* elements 1 .. originals were made by filterAndResolve
  next,      \* the number of the next object
  mappings,  \* how many mappings are registered; they are called 1 .. mappings
  phase,     \* where the service is in its life
  element,   \* the loop's current element
  mapping,   \* the loop's current mapping
  request,   \* the parent and the child of the last MapRequest
  results    \* the results of the current answer that are still to be applied

vars == <<tree, originals, next, mappings, phase, element, mapping, request, results>>

ResultKinds ==
  {"NoChange", "RemoveChild", "RemoveParent",
   "AddToChild", "AddToParent", "ReplaceChild", "ReplaceParent"}

Phases == {"idle", "visiting", "asked", "applying", "written", "failed", "closed"}

\* The list "classes": top-level elements, whose parent pointer is null.
\* Mappings edit children lists; no code edits this list.
Classes == {c \in 1 .. originals : tree.up[c] = NoElement}

NoRequest == [parent |-> NoElement, child |-> NoElement]

Init ==
  /\ tree = TreeOf(0, <<>>, {})
  /\ originals = 0
  /\ next = 1
  /\ mappings = 0
  /\ phase = "idle"
  /\ element = 1
  /\ mapping = 1
  /\ request = NoRequest
  /\ results = <<>>

\* filterAndResolve replaces the classes by what parsing and resolving find.
FilterAndResolve ==
  /\ phase = "idle"
  /\ \E k \in 0 .. MaxOriginals : \E u \in Forests(k) : \E cls \in SUBSET (1 .. k) :
        /\ \A c \in 1 .. k : u[c] # NoElement => u[c] \in cls
        /\ tree' = TreeOf(k, u, cls)
        /\ originals' = k
        /\ next' = k + 1
  /\ UNCHANGED <<mappings, phase, element, mapping, request, results>>

AddMapping ==
  /\ phase = "idle"
  /\ mappings < MaxMappings
  /\ mappings' = mappings + 1
  /\ UNCHANGED <<tree, originals, next, phase, element, mapping, request, results>>

\* The end of the snapshot taken before the loop: elements that mappings add
\* later have larger numbers and are not visited.
LastVisited == originals

\* writeTo starts the loop; with no mapping or no element there is none.
\* (Bound: one writeTo, which is what the plugin's task does.)
WriteTo ==
  /\ phase = "idle"
  /\ phase' = IF mappings > 0 /\ originals > 0 THEN "visiting" ELSE "written"
  /\ element' = 1
  /\ mapping' = 1
  /\ UNCHANGED <<tree, originals, next, mappings, request, results>>

\* Mutant of Advance: start over when the mappings have added something.
AdvanceAgain ==
  IF mapping < mappings
    THEN mapping' = mapping + 1 /\ phase' = "visiting" /\ UNCHANGED element
    ELSE IF element < LastVisited
           THEN mapping' = 1 /\ element' = element + 1 /\ phase' = "visiting"
           ELSE IF next > originals + 1
                  THEN mapping' = 1 /\ element' = 1 /\ phase' = "visiting"
                  ELSE phase' = "written" /\ UNCHANGED <<element, mapping>>

\* The inner loop goes through the mappings, the outer through the elements;
\* after the last one the code is generated from the tree.
Advance ==
  IF mapping < mappings
    THEN /\ mapping' = mapping + 1
         /\ phase' = "visiting"
         /\ UNCHANGED element
    ELSE IF element < LastVisited
           THEN /\ mapping' = 1
                /\ element' = element + 1
                /\ phase' = "visiting"
           ELSE /\ phase' = "written"
                /\ UNCHANGED <<element, mapping>>

\* The filter rejects the element: continue.
Skip ==
  /\ phase = "visiting"
  /\ Advance
  /\ UNCHANGED <<tree, originals, next, mappings, request, results>>

\* Mutant of RequestFor: the index is always -1.
RequestForParent(t, e) ==
  LET p == IF t.up[e] = NoElement THEN e ELSE t.up[e]
  IN  [parent |-> p, child |-> p]

\* MapRequest(element.parent ?: element, index of the element or -1).
RequestFor(t, e) ==
  LET p == t.up[e]
  IN IF p = NoElement
       THEN [parent |-> e, child |-> e]
       ELSE [parent |-> p,
             child  |-> IF FirstEqual(t, p, e) = {}
                          THEN p
                          ELSE CHOOSE x \in FirstEqual(t, p, e) : TRUE]

\* The filter accepts the element: the mapping is asked.
Ask ==
  /\ phase = "visiting"
  /\ request' = RequestFor(tree, element)
  /\ phase' = "asked"
  /\ UNCHANGED <<tree, originals, next, mappings, element, mapping, results>>

\* How many of the results r bring a new element.
Additions(r) ==
  Cardinality({i \in DOMAIN r : r[i] \in {"AddToChild", "AddToParent",
                                         "ReplaceChild", "ReplaceParent"}})

\* The handler returns a list of results (bound: objects are left for each).
Answer ==
  /\ phase = "asked"
  /\ \E n \in 0 .. MaxResults : results' \in [1 .. n -> ResultKinds]
  /\ next + Additions(results') <= MaxElements + 1
  /\ phase' = "applying"
  /\ UNCHANGED <<tree, originals, next, mappings, element, mapping, request>>

\* The handler, or the call to it, throws: writeTo ends with an exception
\* and generates nothing; earlier edits stay.
HandlerThrows ==
  /\ phase = "asked"
  /\ phase' = "failed"
  /\ UNCHANGED <<tree, originals, next, mappings, element, mapping, request, results>>

-----------------------------------------------------------------------------
(* applyResult: one action per kind of result. *)

Parent == tree.up[element]
Grandparent == IF Parent = NoElement THEN NoElement ELSE tree.up[Parent]

\* The next result is of this kind; applying it leaves all but the tree, the
\* objects made and the phase alone.
Applying(kind) ==
  /\ phase = "applying"
  /\ results # <<>>
  /\ Head(results) = kind
  /\ results' = Tail(results)
  /\ UNCHANGED <<originals, mappings, element, mapping, request>>

\* t is the tree after the result is decoded and the old element removed; the
\* new child, object next, is added under p unless addChild throws.
AddNew(t, p, s) ==
  /\ tree' = IF HasEqualChild(t, p, next) THEN t ELSE AddChild(t, p, next)
  /\ phase' = IF HasEqualChild(t, p, next) THEN "failed" ELSE phase
  /\ next' = next + Size(s)

\* What a client can have made its new child of: a copy of an element that
\* the request showed it, or something else (bound: as in Answer).
NewChild(s) ==
  /\ s \in Shapes
  /\ s.copyOf \in {NoElement, request.child, request.parent}
  /\ s.copyOf # NoElement => s.kind = tree.kind[s.copyOf]
  /\ next + Size(s) <= MaxElements + 1
  /\ next + Size(s) + Additions(Tail(results)) <= MaxElements + 1

NoChange ==
  /\ Applying("NoChange")
  /\ UNCHANGED <<tree, next, phase>>

RemoveChildResult ==
  /\ Applying("RemoveChild")
  /\ tree' = IF Parent = NoElement THEN tree ELSE RemoveChild(tree, Parent, element)
  /\ UNCHANGED <<next, phase>>

RemoveParentResult ==
  /\ Applying("RemoveParent")
  /\ tree' = IF Grandparent = NoElement THEN tree
             ELSE RemoveChild(tree, Grandparent, Parent)
  /\ UNCHANGED <<next, phase>>

AddToChild(s) ==
  /\ Applying("AddToChild")
  /\ NewChild(s)
  /\ AddNew(Decode(tree, next, s), element, s)

AddToParent(s) ==
  /\ Applying("AddToParent")
  /\ NewChild(s)
  /\ IF Parent = NoElement
       THEN UNCHANGED <<tree, next, phase>>
       ELSE AddNew(Decode(tree, next, s), Parent, s)

\* Mutant of ReplaceChild: the new child is added before the old is removed.
ReplaceChildAddingFirst(s) ==
  /\ Applying("ReplaceChild")
  /\ NewChild(s)
  /\ LET d == Decode(tree, next, s)
     IN  IF Parent = NoElement
           THEN UNCHANGED <<tree, next, phase>>
           ELSE IF HasEqualChild(d, Parent, next)
             THEN AddNew(d, Parent, s)
             ELSE AddNew(RemoveChild(d, Parent, element), Parent, s)

ReplaceChild(s) ==
  /\ Applying("ReplaceChild")
  /\ NewChild(s)
  /\ IF Parent = NoElement
       THEN UNCHANGED <<tree, next, phase>>
       ELSE AddNew(RemoveChild(Decode(tree, next, s), Parent, element), Parent, s)

\* Mutant of ReplaceParent: the new parent takes over the current element.
ReplaceParentCarrying(s) ==
  /\ Applying("ReplaceParent")
  /\ NewChild(s)
  /\ IF Grandparent = NoElement
       THEN UNCHANGED <<tree, next, phase>>
       ELSE AddNew(AddChild(RemoveChild(Decode(tree, next, s), Grandparent, Parent), next, element),
                   Grandparent, s)

ReplaceParent(s) ==
  /\ Applying("ReplaceParent")
  /\ NewChild(s)
  /\ IF Grandparent = NoElement
       THEN UNCHANGED <<tree, next, phase>>
       ELSE AddNew(RemoveChild(Decode(tree, next, s), Grandparent, Parent), Grandparent, s)

ApplyResult ==
  \/ NoChange
  \/ RemoveChildResult
  \/ RemoveParentResult
  \/ \E s \in Shapes : \/ AddToChild(s)
                       \/ AddToParent(s)
                       \/ ReplaceChild(s)
                       \/ ReplaceParent(s)

\* All results of the answer are applied: the loop continues, and the
\* request, a local of its body, is gone.
Applied ==
  /\ phase = "applying"
  /\ results = <<>>
  /\ Advance
  /\ request' = NoRequest
  /\ UNCHANGED <<tree, originals, next, mappings, results>>

-----------------------------------------------------------------------------

\* close() releases the index; the object takes no further calls.
Close ==
  /\ phase \in {"idle", "written", "failed"}
  /\ phase' = "closed"
  /\ UNCHANGED <<tree, originals, next, mappings, element, mapping, request, results>>

Closed ==
  /\ phase = "closed"
  /\ UNCHANGED vars

Next ==
  \/ FilterAndResolve
  \/ AddMapping
  \/ WriteTo
  \/ Skip
  \/ Ask
  \/ Answer
  \/ HandlerThrows
  \/ ApplyResult
  \/ Applied
  \/ Close
  \/ Closed

Spec == Init /\ [][Next]_vars

\* The loop is straight-line code and every call to a handler returns or
\* throws; nobody has to call filterAndResolve, addMapping, writeTo or close.
FairSpec ==
  /\ Spec
  /\ WF_vars(Skip \/ Ask)
  /\ WF_vars(Answer \/ HandlerThrows)
  /\ WF_vars(ApplyResult)
  /\ WF_vars(Applied)

-----------------------------------------------------------------------------
(* Properties. *)

Allocated == 1 .. next - 1

\* An element is in the generated output's reach only if it is attached: a
\* top-level element, or a child of some object.
Attached(t, e) ==
  \/ e \in 1 .. originals /\ t.up[e] = NoElement
  \/ \E p \in Ids : e \in t.kids[p]

\* Every variable has its type, and what has not been made yet is blank.
TypeOK ==
  /\ tree \in Trees
  /\ originals \in 0 .. MaxOriginals
  /\ next \in originals + 1 .. MaxElements + 1
  /\ mappings \in 0 .. MaxMappings
  /\ phase \in Phases
  /\ element \in Nat \ {0}
  /\ mapping \in Nat \ {0}
  /\ request \in [parent : Ids \cup {NoElement}, child : Ids \cup {NoElement}]
  /\ results \in Seq(ResultKinds) /\ Len(results) <= MaxResults
  /\ phase \in {"visiting", "asked", "applying"} => element \in 1 .. originals

\* Whatever sequence of results is applied, the objects stay a forest: no
\* element is above itself, none is a child of two parents.  Code generation
\* recurses over this structure.
Forest == IsForest(tree, next)

\* A child's parent pointer names the parent that lists it.  The one
\* exception is inside a subtree a client sent: there the pointer is null,
\* because it is not serialized and addChild sets it for the root only.
ParentPointersAgree == PointersAgree(tree, originals)

\* Siblings are never equal, so indexOf and remove find the element meant.
SiblingsDiffer == NoEqualSiblings(tree)

\* A mapping that is asked about an element which is still in the tree gets
\* that element, below its actual parent.
LiveElementIsRequested ==
  phase = "asked" /\ Attached(tree, element) =>
     /\ request.child = element
     /\ request.parent # element => element \in tree.kids[request.parent]

\* An element that a result took out of the tree stays out for the rest of
\* the run, whatever later results for it, or for elements below it, say.
RemovedStaysOut ==
  [][phase # "idle" =>
       \A e \in Allocated : ~Attached(tree, e) => ~Attached(tree', e)]_vars

\* A result for a nested element that is in the tree does what it says or
\* ends the run: the removed or replaced element is out, its replacement is
\* a child of the same parent, and siblings are untouched.
EditsTakeEffect ==
  [][LET p == Parent
         removes  == RemoveChildResult
         replaces == \E s \in Shapes : ReplaceChild(s)
     IN  p # NoElement /\ element \in tree.kids[p] =>
           /\ removes \/ replaces => ~Attached(tree', element)
           /\ removes => tree'.kids[p] = tree.kids[p] \ {element}
           /\ replaces /\ phase' # "failed" =>
                 tree'.kids[p] = (tree.kids[p] \ {element}) \cup {next}]_vars

\* A run of the mappings ends, in generated code or in an error: mappings that
\* add what they themselves match do not keep the loop going.
RunEnds == phase = "visiting" ~> phase \in {"written", "failed"}

-----------------------------------------------------------------------------
(* What the repository says of mappings, and the code does not keep. *)

\* README.md: "Custom mappings can add, remove, or modify the structure of
\* the Resolved* tree/instances, which will modify what code is generated".
\* So a mapping that removes an element makes the output lose it.
RemovalReachesTheOutput ==
  [][RemoveChildResult => ~Attached(tree', element)]_vars

=============================================================================
