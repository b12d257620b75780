---------------------------- MODULE ParsingProofs ----------------------------
(***************************************************************************)
(* Theorems about Parsing, for any number of declarations and headers.     *)
(* The tree is explained by the history of cursors: WalkInv says where     *)
(* cursors can have been, TreeInv which of them each children list shows.  *)
(***************************************************************************)
EXTENDS Parsing, InductionLemmas, TLAPS

\* What is around a declaration was numbered before it, so that going outwards
\* ends.
LEMMA WithinIsSmaller ==
  ASSUME program \in Programs, NEW d \in Decls, NEW p \in Decls, Within(d, p)
  PROVE  p < d
<1> USE ParsingAssumption DEF Decls
<1>1. \A x \in Decls : program.sem[x] \in Nat /\ program.sem[x] < x
  BY DEF Programs
<1> DEFINE S == {x \in Decls : x < d}
<1>2. S \in SUBSET Decls
  OBVIOUS
<1>3. program.sem[d] \in S
  BY <1>1 DEF Within, NoElement, Programs
<1>4. \A x \in S : program.sem[x] \in S \cup {NoElement}
  BY <1>1 DEF NoElement, Programs
<1>5. p \in S
  BY <1>2, <1>3, <1>4 DEF Within
<1> QED
  BY <1>5

\* What a declaration belongs to is around it.
LEMMA ParentIsAround ==
  ASSUME NEW d \in Decls, program.sem[d] # NoElement
  PROVE  Within(d, program.sem[d])
BY DEF Within

\* Elements are declarations or translation units, and never null.
LEMMA ElementKinds ==
  /\ NoElement \notin Elements
  /\ Decls \cap TUs = {}
  /\ \A h \in 1 .. MaxHeaders : TU(h) \in TUs
BY ParsingAssumption DEF Elements, Decls, TUs, TU, NoElement

LEMMA InitNesting == Init => TypeOK /\ NestingIsFinite
<1> USE ParsingAssumption
<1> SUFFICES ASSUME Init PROVE TypeOK /\ NestingIsFinite
  OBVIOUS
<1>1. TypeOK
  BY DEF Init, TypeOK
<1>2. NestingIsFinite
  BY ElementKinds DEF Init, NestingIsFinite, Elements, NoElement, Decls
<1> QED
  BY <1>1, <1>2

\* What the walk comes to lies in a place that is a translation unit or around it.
LEMMA WritableIsWithin ==
  ASSUME NEW p \in Decls, NEW d \in Decls, Writable(p, d)
  PROVE  Within(d, p)
BY ElementKinds, ParentIsAround
   DEF Writable, IsNamespace, IsClass, Elements, NoElement

LEMMA VisitNests ==
  ASSUME TypeOK, NestingIsFinite, NEW d \in Decls, Visit(d)
  PROVE  TypeOK' /\ NestingIsFinite'
<1> DEFINE p == Last(path)
<1>1. p \in Elements /\ path \in Seq(Elements)
  BY DEF TypeOK, Visit, Last
<1>2. /\ Writable(p, d)
      /\ visits' = visits \cup {[header |-> header, place |-> p, decl |-> d]}
      /\ lookup' = IF ~Mapped(p) THEN lookup
                   ELSE lookup \cup {p} \cup (IF Mapped(d) THEN {d} ELSE {})
      /\ \/ Mapped(p) /\ Mapped(d) /\ AddChild(p, d)
         \/ UNCHANGED <<kids, up>>
      /\ path' = Append(path, d)
      /\ UNCHANGED <<program, phase, header, bodies>>
  BY DEF Visit
<1>3. d \in Elements
  BY DEF Elements
<1>4. lookup \subseteq lookup' /\ lookup' \subseteq Elements
  BY <1>1, <1>2, <1>3 DEF TypeOK
<1>5. /\ kids' \in [Elements -> SUBSET Decls]
      /\ up' \in [Elements -> Elements \cup {NoElement}]
  BY SMTT(30), <1>1, <1>2, <1>3 DEF TypeOK, AddChild
<1>6. TypeOK'
  <2>1. visits' \subseteq [header : 1 .. MaxHeaders, place : Elements, decl : Decls]
    BY <1>1, <1>2, ParsingAssumption DEF TypeOK, Visit
  <2>2. path' \in Seq(Elements) /\ header > 0
    BY <1>1, <1>2, <1>3 DEF TypeOK, Visit
  <2> QED
    BY <1>2, <1>4, <1>5, <2>1, <2>2 DEF TypeOK
<1>7. CASE Mapped(p) /\ Mapped(d) /\ AddChild(p, d)
  <2>1. d \in lookup'
    BY <1>2, <1>7
  <2>2. /\ kids' = [kids EXCEPT ![p] = @ \cup {d}]
        /\ up' = [up EXCEPT ![d] = p]
    BY <1>7 DEF AddChild
  <2>3. p \in Decls => Within(d, p)
    BY <1>2, WritableIsWithin
  <2>4. \A x, q \in Decls : Within(x, q)' <=> Within(x, q)
    BY <1>2 DEF Within
  <2>5. (\A q \in Decls : \A x \in kids[q] : x \in Decls /\ x \in lookup /\ Within(x, q))'
    BY <1>1, <1>3, <1>4, <2>1, <2>2, <2>3, <2>4 DEF TypeOK, NestingIsFinite
  <2>6. (\A x \in Decls : up[x] \in Decls => Within(x, up[x]))'
    BY <1>1, <1>3, <2>2, <2>3, <2>4 DEF TypeOK, NestingIsFinite, Elements
  <2>7. (\A t \in TUs : up[t] = NoElement)'
    BY <1>3, <2>2, ElementKinds DEF TypeOK, NestingIsFinite, Elements
  <2> QED
    BY <1>6, <2>5, <2>6, <2>7 DEF NestingIsFinite
<1>8. CASE UNCHANGED <<kids, up>>
  <2>1. \A x, q \in Decls : Within(x, q)' <=> Within(x, q)
    BY <1>2 DEF Within
  <2>2. (\A q \in Decls : \A x \in kids[q] : x \in Decls /\ x \in lookup /\ Within(x, q))'
    BY <1>4, <1>8, <2>1 DEF NestingIsFinite
  <2>3. (\A x \in Decls : up[x] \in Decls => Within(x, up[x]))'
    BY <1>8, <2>1 DEF NestingIsFinite
  <2> QED
    BY <1>6, <1>8, <2>2, <2>3 DEF NestingIsFinite
<1> QED
  BY <1>2, <1>7, <1>8

\* Steps that leave the children lists and the parent pointers of declarations
\* below declarations alone keep the nesting.
LEMMA NestingStays ==
  ASSUME NestingIsFinite, UNCHANGED program, lookup \subseteq lookup',
         \A q \in Decls : kids'[q] = kids[q],
         \A x \in Decls : up'[x] \in Decls => up'[x] = up[x],
         \A t \in TUs : up'[t] = up[t]
  PROVE  NestingIsFinite'
<1>1. \A x, q \in Decls : Within(x, q)' <=> Within(x, q)
  BY DEF Within
<1>2. (\A q \in Decls : \A x \in kids[q] : x \in Decls /\ x \in lookup /\ Within(x, q))'
  BY <1>1 DEF NestingIsFinite
<1>3. (\A x \in Decls : up[x] \in Decls => Within(x, up[x]))'
  BY <1>1 DEF NestingIsFinite
<1> QED
  BY <1>2, <1>3 DEF NestingIsFinite

\* A merge moves top-level declarations from one translation unit to another.
LEMMA MergeNests ==
  ASSUME TypeOK, NestingIsFinite, Merge
  PROVE  TypeOK' /\ NestingIsFinite'
<1> USE ParsingAssumption
<1> DEFINE from == TU(header)
           into == TU(header - 1)
<1>1. header \in 1 .. MaxHeaders /\ header - 1 \in 1 .. MaxHeaders
  BY DEF TypeOK, Merge
<1>2. from \in TUs /\ into \in TUs /\ from \in Elements /\ into \in Elements
  BY <1>1 DEF TUs, Elements
<1>3. /\ up' = [c \in Elements |-> IF c \in kids[from] THEN into ELSE up[c]]
      /\ \/ kids' = [kids EXCEPT ![into] = @ \cup kids[from]] /\ UNCHANGED phase
         \/ UNCHANGED kids /\ phase' = "failed"
      /\ header' = header - 1
      /\ UNCHANGED <<program, lookup, path, bodies, visits>>
  BY DEF Merge
<1>4. kids[from] \subseteq Decls
  BY <1>2 DEF TypeOK
<1>5. TypeOK'
  <2>1. kids' \in [Elements -> SUBSET Decls]
    BY <1>2, <1>3, <1>4 DEF TypeOK
  <2>2. up' \in [Elements -> Elements \cup {NoElement}]
    BY <1>2, <1>3 DEF TypeOK
  <2> QED
    BY <1>1, <1>3, <2>1, <2>2 DEF TypeOK
<1>6. \A q \in Decls : kids'[q] = kids[q]
  BY <1>2, <1>3, ElementKinds DEF TypeOK, Elements
<1>7. \A x \in Decls : up'[x] \in Decls => up'[x] = up[x]
  BY <1>2, <1>3, ElementKinds DEF Elements
<1>8. \A t \in TUs : up'[t] = up[t]
  BY <1>3, <1>4, ElementKinds DEF Elements
<1> QED
  BY <1>3, <1>5, <1>6, <1>7, <1>8, NestingStays

LEMMA OtherStepsNest ==
  ASSUME TypeOK, NestingIsFinite,
         OpenHeader \/ ParseFails \/ Leave \/ StartMerge \/ Merged \/ Ended \/ UNCHANGED vars
  PROVE  TypeOK' /\ NestingIsFinite'
<1> USE ParsingAssumption
<1>1. CASE OpenHeader
  <2>1. header' \in 1 .. MaxHeaders
    BY <1>1 DEF TypeOK, OpenHeader
  <2>2. TU(header') \in Elements
    BY <2>1, ElementKinds DEF Elements
  <2>3. TypeOK'
    BY <1>1, <2>1, <2>2 DEF TypeOK, OpenHeader
  <2> QED
    BY <1>1, <2>3, NestingStays DEF OpenHeader
<1>2. CASE ParseFails
  <2>1. TypeOK'
    BY <1>2 DEF TypeOK, ParseFails
  <2> QED
    BY <1>2, <2>1, NestingStays DEF ParseFails
<1>3. CASE Leave
  <2>1. Last(path) \in Elements /\ Front(path) \in Seq(Elements)
    BY <1>3 DEF TypeOK, Leave, Last, Front
  <2>2. header > 0
    BY <1>3 DEF TypeOK, Leave
  <2>3. TypeOK'
    BY <1>3, <2>1, <2>2 DEF TypeOK, Leave
  <2> QED
    BY <1>3, <2>3, NestingStays DEF Leave
<1>4. CASE StartMerge
  <2>1. TypeOK'
    BY <1>4 DEF TypeOK, StartMerge
  <2> QED
    BY <1>4, <2>1, NestingStays DEF StartMerge
<1>5. CASE Merged
  <2>1. TypeOK'
    BY <1>5 DEF TypeOK, Merged
  <2> QED
    BY <1>5, <2>1, NestingStays DEF Merged
<1>6. CASE Ended \/ UNCHANGED vars
  <2>1. UNCHANGED vars
    BY <1>6 DEF Ended
  <2>2. TypeOK'
    BY <2>1 DEF TypeOK, vars
  <2> QED
    BY <2>1, <2>2, NestingStays DEF vars
<1> QED
  BY <1>1, <1>2, <1>3, <1>4, <1>5, <1>6

\* Every state of parsing is of its type, and however declarations are written,
\* out of line, again or in several headers, an element is only ever below what
\* is around it: the recursions down the tree (forEachRecursive) and up to its
\* root (qualified, parentClass) end.
THEOREM ParsingNests == Spec => [](TypeOK /\ NestingIsFinite)
<1>1. Init => TypeOK /\ NestingIsFinite
  BY InitNesting
<1>2. TypeOK /\ NestingIsFinite /\ [Next]_vars => (TypeOK /\ NestingIsFinite)'
  <2> SUFFICES ASSUME TypeOK, NestingIsFinite, [Next]_vars
               PROVE  (TypeOK /\ NestingIsFinite)'
    OBVIOUS
  <2>1. ASSUME NEW d \in Decls, Visit(d) PROVE (TypeOK /\ NestingIsFinite)'
    BY <2>1, VisitNests
  <2>2. CASE Merge
    BY <2>2, MergeNests
  <2>3. CASE OpenHeader \/ ParseFails \/ Leave \/ StartMerge \/ Merged \/ Ended
             \/ UNCHANGED vars
    BY <2>3, OtherStepsNest
  <2> QED
    BY <2>1, <2>2, <2>3 DEF Next
<1> QED
  BY <1>1, <1>2, PTL DEF Spec

\* The numbering of the declarations decreases along every chain of parents.
THEOREM ParentsComeFirst ==
  Spec => [](\A d \in Decls : up[d] \in Decls => up[d] < d)
<1> DEFINE P == \A d \in Decls : up[d] \in Decls => up[d] < d
<1>1. TypeOK /\ NestingIsFinite => P
  BY WithinIsSmaller DEF TypeOK, NestingIsFinite
<1> QED
  BY <1>1, ParsingNests, PTL

-----------------------------------------------------------------------------
(* What the walk leaves behind. *)

\* A cursor of d was at the place p.
SeenAt(d, p) == \E v \in visits : v.decl = d /\ v.place = p

\* Places where a cursor of d can be: what d belongs to, or, for a class member
\* defined out of line, a namespace or the top of a file.
Place(d, p) ==
  \/ p \in TUs /\ program.sem[d] = NoElement
  \/ p \in Decls /\ program.sem[d] = p
  \/ IsClass(program.sem[d]) /\ (p \in TUs \/ IsNamespace(p))

\* Whether d is listed at a place where a cursor of it was.
Listed(d, p) ==
  /\ d \notin program.hidden /\ p \notin program.hidden
  /\ ~ (IsMethod(d) /\ IsNamespace(p) /\ IsClass(program.sem[d]))

\* Nothing hidden is wrapped.  A cursor at the top is at that of its header;
\* what it belongs to was seen, and it itself was seen there.
WalkInv ==
  /\ lookup \cap program.hidden = {}
  /\ phase # "parsing" => path = <<>>
  /\ \A i \in 1 .. Len(path) : path[i] \in Seen \cup {TU(header)}
  /\ \A v \in visits :
       /\ Place(v.decl, v.place)
       /\ v.place \in TUs => v.place = TU(v.header)
       /\ program.sem[v.decl] = NoElement \/
            (program.sem[v.decl] \in Seen /\ SeenAt(v.decl, program.sem[v.decl]))

\* The translation unit that the others have been merged into so far.
Last1 == IF phase = "parsing" THEN MaxHeaders ELSE header

\* Children lists show what was seen at a place; that of the translation unit
\* which was merged last shows what was seen at the top of it and those after it.
\* A parent pointer names an element that lists its owner, and none that was
\* merged into another.
TreeInv ==
  phase # "failed" =>
    /\ \A p \in Decls : \A d \in Decls : d \in kids[p] <=> SeenAt(d, p) /\ Listed(d, p)
    /\ \A h \in 1 .. MaxHeaders : h < Last1 =>
         \A d \in Decls : d \in kids[TU(h)] <=> SeenAt(d, TU(h)) /\ d \notin program.hidden
    /\ \A d \in Decls : d \in kids[TU(Last1)] <=>
         d \notin program.hidden /\ \E h \in Last1 .. MaxHeaders : SeenAt(d, TU(h))
    /\ \A d \in Decls :
         /\ up[d] # NoElement => d \in kids[up[d]]
         /\ up[d] \in TUs => \E h \in 1 .. Last1 : up[d] = TU(h)
         /\ (\E p \in Elements : d \in kids[p]) => up[d] # NoElement
    /\ phase \in {"merging", "done"} => header \in 1 .. MaxHeaders
    /\ phase = "done" => header = 1

\* As long as headers are parsed, translation units are places like others.
PlainTree ==
  /\ \A p \in Elements : \A d \in Decls : d \in kids[p] <=> SeenAt(d, p) /\ Listed(d, p)
  /\ \A d \in Decls : up[d] # NoElement => d \in kids[up[d]]
  /\ \A d \in Decls : (\E p \in Elements : d \in kids[p]) => up[d] # NoElement

LEMMA TopIsNeverHidden ==
  ASSUME program \in Programs, NEW h \in 1 .. MaxHeaders, NEW d \in Decls
  PROVE  Listed(d, TU(h)) <=> d \notin program.hidden
<1>1. TU(h) \in TUs /\ TU(h) \notin Decls
  BY ElementKinds
<1>2. program.hidden \subseteq Decls
  BY DEF Programs
<1> QED
  BY <1>1, <1>2 DEF Listed, IsNamespace

LEMMA PlainTreeOfParsing ==
  ASSUME TypeOK, phase = "parsing"
  PROVE  TreeInv <=> PlainTree
<1> USE ParsingAssumption
<1>1. program \in Programs
  BY DEF TypeOK
<1>2. \A d \in Decls : \A h \in 1 .. MaxHeaders :
        Listed(d, TU(h)) <=> d \notin program.hidden
  BY <1>1, TopIsNeverHidden
<1>3. Last1 = MaxHeaders /\ MaxHeaders \in 1 .. MaxHeaders
  BY DEF Last1
<1>4. \A p \in Elements : p \in Decls \/ \E h \in 1 .. MaxHeaders : p = TU(h)
  BY DEF Elements, TUs
<1>5. Decls \subseteq Elements /\ \A h \in 1 .. MaxHeaders : TU(h) \in Elements
  BY ElementKinds DEF Elements
<1>6. ASSUME TreeInv PROVE PlainTree
  <2>1. ASSUME NEW h \in 1 .. MaxHeaders, NEW d \in Decls
        PROVE  d \in kids[TU(h)] <=> SeenAt(d, TU(h)) /\ Listed(d, TU(h))
    <3>1. CASE h < MaxHeaders
      BY <1>2, <1>3, <1>6, <3>1 DEF TreeInv
    <3>2. CASE h = MaxHeaders
      <4>1. \A i \in MaxHeaders .. MaxHeaders : i = MaxHeaders
        OBVIOUS
      <4> QED
        BY <1>2, <1>3, <1>6, <3>2, <4>1 DEF TreeInv
    <3> QED
      BY <3>1, <3>2
  <2>2. \A p \in Elements : \A d \in Decls : d \in kids[p] <=> SeenAt(d, p) /\ Listed(d, p)
    BY <1>4, <1>6, <2>1 DEF TreeInv
  <2> QED
    BY <1>6, <2>2 DEF TreeInv, PlainTree
<1>7. ASSUME PlainTree PROVE TreeInv
  <2>1. ASSUME NEW d \in Decls
        PROVE  d \in kids[TU(Last1)] <=>
                 d \notin program.hidden /\ \E h \in Last1 .. MaxHeaders : SeenAt(d, TU(h))
    <3>1. \A i \in MaxHeaders .. MaxHeaders : i = MaxHeaders
      OBVIOUS
    <3> QED
      BY <1>2, <1>3, <1>5, <1>7, <3>1 DEF PlainTree
  <2>2. ASSUME NEW d \in Decls, up[d] \in TUs
        PROVE  \E h \in 1 .. Last1 : up[d] = TU(h)
    BY <1>3, <2>2 DEF TUs
  <2>3. \A h \in 1 .. MaxHeaders : h < Last1 =>
          \A d \in Decls : d \in kids[TU(h)] <=> SeenAt(d, TU(h)) /\ d \notin program.hidden
    BY <1>2, <1>5, <1>7 DEF PlainTree
  <2>4. \A p \in Decls : \A d \in Decls : d \in kids[p] <=> SeenAt(d, p) /\ Listed(d, p)
    BY <1>5, <1>7 DEF PlainTree
  <2> QED
    BY <1>7, <2>1, <2>2, <2>3, <2>4 DEF PlainTree, TreeInv
<1> QED
  BY <1>6, <1>7

LEMMA InitWalk == Init => WalkInv /\ TreeInv
<1> SUFFICES ASSUME Init PROVE WalkInv /\ TreeInv
  OBVIOUS
<1>1. TypeOK
  BY InitNesting
<1>2. WalkInv
  BY DEF Init, WalkInv
<1>3. PlainTree
  BY DEF Init, PlainTree, SeenAt, Elements
<1> QED
  BY <1>1, <1>2, <1>3, PlainTreeOfParsing DEF Init

\* The place the walk is at was seen, or is the top of the header.
LEMMA WalkIsAtASeenPlace ==
  ASSUME TypeOK, WalkInv, path # <<>>
  PROVE  Last(path) \in Seen \cup {TU(header)} /\ Last(path) \in Elements
<1>1. path \in Seq(Elements) /\ Len(path) \in 1 .. Len(path)
  BY DEF TypeOK
<1> QED
  BY <1>1 DEF WalkInv, Last

\* What a cursor at a place says of what its declaration belongs to.
LEMMA WritablePlaces ==
  ASSUME TypeOK, WalkInv, NEW d \in Decls, NEW p \in Elements, Writable(p, d),
         p \in Seen \cup {TU(header)}, header \in 1 .. MaxHeaders
  PROVE  /\ Place(d, p)
         /\ p \in TUs => p = TU(header)
         /\ \/ program.sem[d] = NoElement
            \/ program.sem[d] \in Seen /\ (program.sem[d] = p \/ SeenAt(d, program.sem[d]))
<1>1. Seen \subseteq Decls /\ TU(header) \in TUs
  BY ElementKinds DEF TypeOK, Seen
<1>2. p \in TUs => p = TU(header)
  BY <1>1, ElementKinds
<1>3. Place(d, p)
  BY DEF Writable, Place, IsNamespace, IsClass
<1>4. \/ program.sem[d] = NoElement
      \/ program.sem[d] = p /\ p \in Decls
      \/ Declared(d)
  BY DEF Writable, IsNamespace, IsClass
<1>5. program.sem[d] = p /\ p \in Decls => p \in Seen
  BY <1>1, ElementKinds
<1>6. Declared(d) => \/ program.sem[d] = NoElement
                     \/ program.sem[d] \in Seen /\ SeenAt(d, program.sem[d])
  BY DEF Declared, WalkInv
<1> QED
  BY <1>2, <1>3, <1>4, <1>5, <1>6

LEMMA VisitWalks ==
  ASSUME TypeOK, WalkInv, NEW d \in Decls, Visit(d)
  PROVE  WalkInv'
<1> DEFINE p == Last(path)
           v0 == [header |-> header, place |-> p, decl |-> d]
<1>1. p \in Seen \cup {TU(header)} /\ p \in Elements
  BY WalkIsAtASeenPlace DEF Visit
<1>2. /\ Writable(p, d)
      /\ visits' = visits \cup {v0}
      /\ lookup' = IF ~Mapped(p) THEN lookup
                   ELSE lookup \cup {p} \cup (IF Mapped(d) THEN {d} ELSE {})
      /\ path' = Append(path, d)
      /\ UNCHANGED <<program, phase, header, bodies>>
  BY DEF Visit
<1>3. header \in 1 .. MaxHeaders /\ path \in Seq(Elements)
  BY DEF TypeOK, Visit
<1> DEFINE Fresh(v) == v.header = header /\ v.place = p /\ v.decl = d
<1>4. Fresh(v0)
  OBVIOUS
<1> HIDE DEF v0
<1>9. Seen' = Seen \cup {d}
  BY <1>2, <1>4 DEF Seen
<1>5. \A x, q : SeenAt(x, q)' <=> SeenAt(x, q) \/ (x = d /\ q = p)
  BY <1>2, <1>4 DEF SeenAt
<1>6. (lookup \cap program.hidden = {})'
  BY <1>2 DEF WalkInv, Mapped
<1>7. (/\ phase # "parsing" => path = <<>>
       /\ \A i \in 1 .. Len(path) : path[i] \in Seen \cup {TU(header)})'
  BY <1>2, <1>3, <1>9 DEF WalkInv, Visit
<1>8. (\A v \in visits :
         /\ Place(v.decl, v.place)
         /\ v.place \in TUs => v.place = TU(v.header)
         /\ program.sem[v.decl] = NoElement \/
              (program.sem[v.decl] \in Seen /\ SeenAt(v.decl, program.sem[v.decl])))'
  <2>4. \A v \in visits' :
          /\ Place(v.decl, v.place)' <=> Place(v.decl, v.place)
          /\ SeenAt(v.decl, program.sem[v.decl])' <=>
               SeenAt(v.decl, program.sem[v.decl]) \/ (v.decl = d /\ program.sem[v.decl] = p)
    BY <1>2, <1>4 DEF Place, IsClass, IsNamespace, SeenAt
  <2> SUFFICES ASSUME NEW v \in visits'
               PROVE  /\ Place(v.decl, v.place)
                      /\ v.place \in TUs => v.place = TU(v.header)
                      /\ program.sem[v.decl] = NoElement \/
                           /\ program.sem[v.decl] \in Seen'
                           /\ SeenAt(v.decl, program.sem[v.decl])
                              \/ (v.decl = d /\ program.sem[v.decl] = p)
    BY <1>2, <2>4
  <2>2. CASE v \in visits
    BY <1>9, <2>2 DEF WalkInv
  <2>3. CASE v = v0
    <3>1. /\ Place(d, p)
          /\ p \in TUs => p = TU(header)
          /\ \/ program.sem[d] = NoElement
             \/ program.sem[d] \in Seen /\ (program.sem[d] = p \/ SeenAt(d, program.sem[d]))
      BY <1>1, <1>2, <1>3, WritablePlaces
    <3> QED
      BY <1>4, <1>9, <2>3, <3>1
  <2> QED
    BY <1>2, <2>2, <2>3
<1> QED
  BY <1>6, <1>7, <1>8 DEF WalkInv

\* Whether the walk adds what it finds to a place is what Listed says, although
\* it looks at parent pointers and lists.
LEMMA HangsAreListed ==
  ASSUME TypeOK, WalkInv, PlainTree, NEW d \in Decls, NEW p \in Elements,
         Mapped(p), Mapped(d)
  PROVE  /\ Hangs(p, d) => Listed(d, p)
         /\ ~ Hangs(p, d) => (d \in kids[p] <=> Listed(d, p))
<1>1. p \notin program.hidden /\ d \notin program.hidden
  BY DEF WalkInv, Mapped
<1>2. p # NoElement
  BY ElementKinds
<1>3. up[d] = p => d \in kids[p]
  BY <1>2 DEF PlainTree
<1>4. ASSUME IsClass(up[d]) PROVE IsClass(program.sem[d])
  <2>1. up[d] \in Decls /\ up[d] \in Elements /\ up[d] # NoElement
    BY <1>4, ElementKinds DEF IsClass, Elements
  <2>2. SeenAt(d, up[d])
    BY <2>1 DEF PlainTree
  <2>3. Place(d, up[d])
    BY <2>2 DEF SeenAt, WalkInv
  <2>4. up[d] \notin TUs /\ ~ IsNamespace(up[d])
    BY <1>4, <2>1, ElementKinds DEF IsClass, IsNamespace
  <2>5. program.sem[d] = up[d]
    BY <2>3, <2>4 DEF Place
  <2> QED
    BY <1>4, <2>5
<1>5. d \in kids[p] => Listed(d, p)
  BY DEF PlainTree
<1> QED
  BY <1>1, <1>3, <1>4, <1>5 DEF Hangs, Listed

LEMMA VisitGrows ==
  ASSUME TypeOK, WalkInv, TreeInv, NEW d \in Decls, Visit(d), TypeOK'
  PROVE  TreeInv'
<1> DEFINE p == Last(path)
           v0 == [header |-> header, place |-> p, decl |-> d]
<1>1. p \in Elements /\ d \in Elements
  BY WalkIsAtASeenPlace DEF Visit, Elements
<1>2. /\ visits' = visits \cup {v0}
      /\ IF Mapped(p) /\ Mapped(d) /\ Hangs(p, d)
           THEN AddChild(p, d)
           ELSE UNCHANGED <<kids, up>>
      /\ UNCHANGED <<program, phase, header, bodies>>
      /\ phase = "parsing"
  BY DEF Visit
<1>3. PlainTree
  BY <1>2, PlainTreeOfParsing
<1>4. \A x, q : SeenAt(x, q)' <=> SeenAt(x, q) \/ (x = d /\ q = p)
  <2>1. v0.decl = d /\ v0.place = p
    OBVIOUS
  <2> HIDE DEF v0
  <2> QED
    BY <1>2, <2>1 DEF SeenAt
<1>5. \A x, q : Listed(x, q)' <=> Listed(x, q)
  BY <1>2 DEF Listed, IsMethod, IsNamespace, IsClass
<1>6. kids \in [Elements -> SUBSET Decls] /\ up \in [Elements -> Elements \cup {NoElement}]
  BY DEF TypeOK
<1>7. PlainTree'
  <2>1. CASE Mapped(p) /\ Mapped(d) /\ Hangs(p, d)
    <3>1. /\ kids' = [kids EXCEPT ![p] = @ \cup {d}]
          /\ up' = [up EXCEPT ![d] = p]
      BY <1>2, <2>1 DEF AddChild
    <3>2. Listed(d, p) /\ p # NoElement
      BY <1>1, <1>3, <2>1, HangsAreListed, ElementKinds
    <3>3. \A q \in Elements, x \in Decls :
            x \in kids'[q] <=> x \in kids[q] \/ (x = d /\ q = p)
      BY <1>1, <1>6, <3>1
    <3>4. \A x \in Decls : up'[x] = IF x = d THEN p ELSE up[x]
      BY <1>1, <1>6, <3>1 DEF Elements
    <3>5. (\A q \in Elements : \A x \in Decls :
             x \in kids[q] <=> SeenAt(x, q) /\ Listed(x, q))'
      BY <1>3, <1>4, <1>5, <3>2, <3>3 DEF PlainTree
    <3>6. (\A x \in Decls : up[x] # NoElement => x \in kids[up[x]])'
      BY <1>1, <1>3, <1>6, <3>2, <3>3, <3>4 DEF PlainTree, Elements
    <3>7. (\A x \in Decls : (\E q \in Elements : x \in kids[q]) => up[x] # NoElement)'
      BY <1>3, <3>2, <3>3, <3>4 DEF PlainTree
    <3> QED
      BY <3>5, <3>6, <3>7 DEF PlainTree
  <2>2. CASE ~ (Mapped(p) /\ Mapped(d) /\ Hangs(p, d))
    <3>1. UNCHANGED <<kids, up>>
      BY <1>2, <2>2
    <3>2. d \in kids[p] <=> Listed(d, p)
      <4>1. CASE Mapped(p) /\ Mapped(d)
        BY <1>1, <1>3, <2>2, <4>1, HangsAreListed
      <4>2. CASE ~ (Mapped(p) /\ Mapped(d))
        BY <1>1, <1>3, <4>2 DEF Listed, Mapped, PlainTree
      <4> QED
        BY <4>1, <4>2
    <3>3. (\A q \in Elements : \A x \in Decls :
             x \in kids[q] <=> SeenAt(x, q) /\ Listed(x, q))'
      BY <1>3, <1>4, <1>5, <3>1, <3>2 DEF PlainTree
    <3> QED
      BY <1>3, <3>1, <3>3 DEF PlainTree
  <2> QED
    BY <2>1, <2>2
<1>8. (TypeOK /\ phase = "parsing" => (TreeInv <=> PlainTree))'
  BY PlainTreeOfParsing, PTL
<1> QED
  BY <1>2, <1>7, <1>8

\* Every header before the one merged last shows what was seen at its top, and
\* the one merged last, too, what was at the top of those after it.
LEMMA MergeCollects ==
  ASSUME TypeOK, WalkInv, TreeInv, Merge
  PROVE  WalkInv' /\ TreeInv'
<1> USE ParsingAssumption
<1> DEFINE from == TU(header)
           into == TU(header - 1)
<1>1. header \in 2 .. MaxHeaders /\ phase = "merging"
  BY DEF TypeOK, Merge
<1>2. from \in TUs /\ into \in TUs /\ from \in Elements /\ into \in Elements /\ from # into
  <2>1. header \in 1 .. MaxHeaders /\ header - 1 \in 1 .. MaxHeaders
    BY <1>1
  <2>2. from # into
    BY <1>1 DEF TU
  <2> QED
    BY <2>1, <2>2 DEF TUs, Elements
<1>3. /\ up' = [c \in Elements |-> IF c \in kids[from] THEN into ELSE up[c]]
      /\ \/ kids' = [kids EXCEPT ![into] = @ \cup kids[from]] /\ UNCHANGED phase
         \/ UNCHANGED kids /\ phase' = "failed"
      /\ header' = header - 1
      /\ UNCHANGED <<program, lookup, path, bodies, visits>>
  BY DEF Merge
<1>4. \A x, q : SeenAt(x, q)' <=> SeenAt(x, q)
  BY <1>3 DEF SeenAt
<1>5. \A x, q : Listed(x, q)' <=> Listed(x, q)
  BY <1>3 DEF Listed, IsMethod, IsNamespace, IsClass
<1>6. WalkInv'
  <2>1. \A x, q : Place(x, q)' <=> Place(x, q)
    BY <1>3 DEF Place, IsClass, IsNamespace
  <2>2. Seen' = Seen
    BY <1>3 DEF Seen
  <2>3. (/\ phase # "parsing" => path = <<>>
         /\ \A i \in 1 .. Len(path) : path[i] \in Seen \cup {TU(header)})'
    BY <1>1, <1>3 DEF WalkInv
  <2>4. (lookup \cap program.hidden = {})'
    BY <1>3 DEF WalkInv
  <2>5. (\A v \in visits :
           /\ Place(v.decl, v.place)
           /\ v.place \in TUs => v.place = TU(v.header)
           /\ program.sem[v.decl] = NoElement \/
                (program.sem[v.decl] \in Seen /\ SeenAt(v.decl, program.sem[v.decl])))'
    BY <1>3, <1>4, <2>1, <2>2 DEF WalkInv
  <2> QED
    BY <2>3, <2>4, <2>5 DEF WalkInv
<1>7. CASE phase' = "failed"
  <2>1. ~ (phase # "failed")'
    BY <1>7
  <2> QED
    BY <1>6, <2>1 DEF TreeInv
<1>8. CASE kids' = [kids EXCEPT ![into] = @ \cup kids[from]] /\ UNCHANGED phase
  <2>1. Last1 = header /\ Last1' = header - 1
    BY <1>1, <1>3, <1>8 DEF Last1
  <2>2. kids \in [Elements -> SUBSET Decls] /\ kids[from] \subseteq Decls
    BY <1>2 DEF TypeOK
  <2>3. \A q \in Elements : kids'[q] = IF q = into THEN kids[into] \cup kids[from] ELSE kids[q]
    BY <1>2, <1>8, <2>2
  <2>4. \A x \in Decls : up'[x] = IF x \in kids[from] THEN into ELSE up[x]
    BY <1>3 DEF Elements
  <2>5. (\A q \in Decls : \A x \in Decls : x \in kids[q] <=> SeenAt(x, q) /\ Listed(x, q))'
    <3>1. \A q \in Decls : kids'[q] = kids[q]
      BY <1>2, <2>3, ElementKinds DEF Elements
    <3> QED
      BY <1>1, <1>4, <1>5, <3>1 DEF TreeInv
  <2>6. (\A h \in 1 .. MaxHeaders : h < Last1 =>
           \A x \in Decls : x \in kids[TU(h)] <=> SeenAt(x, TU(h)) /\ x \notin program.hidden)'
    <3>1. ASSUME NEW h \in 1 .. MaxHeaders, h < header - 1, NEW x \in Decls
          PROVE  x \in kids'[TU(h)] <=> SeenAt(x, TU(h)) /\ x \notin program.hidden
      <4>1. TU(h) \in Elements /\ TU(h) # into /\ h < header
        BY <1>1, <3>1, ElementKinds DEF Elements, TU
      <4>2. kids'[TU(h)] = kids[TU(h)]
        BY <2>3, <4>1
      <4> QED
        BY <1>1, <2>1, <4>1, <4>2 DEF TreeInv
    <3> QED
      BY <1>3, <1>4, <2>1, <3>1
  <2>7. (\A x \in Decls : x \in kids[TU(Last1)] <=>
           x \notin program.hidden /\ \E h \in Last1 .. MaxHeaders : SeenAt(x, TU(h)))'
    <3>1. ASSUME NEW x \in Decls
          PROVE  x \in kids'[into] <=>
                   x \notin program.hidden /\ \E h \in header - 1 .. MaxHeaders : SeenAt(x, TU(h))
      <4>1. x \in kids'[into] <=> x \in kids[into] \/ x \in kids[from]
        BY <1>2, <2>3
      <4>2. x \in kids[into] <=> SeenAt(x, into) /\ x \notin program.hidden
        <5>1. header - 1 \in 1 .. MaxHeaders /\ header - 1 < header
          BY <1>1
        <5> QED
          BY <1>1, <2>1, <5>1 DEF TreeInv
      <4>3. x \in kids[from] <=>
              x \notin program.hidden /\ \E h \in header .. MaxHeaders : SeenAt(x, TU(h))
        BY <1>1, <2>1 DEF TreeInv
      <4>4. \A h : h \in header - 1 .. MaxHeaders <=> h = header - 1 \/ h \in header .. MaxHeaders
        BY <1>1
      <4> QED
        BY <4>1, <4>2, <4>3, <4>4
    <3> QED
      BY <1>3, <1>4, <2>1, <3>1
  <2>8. ASSUME NEW x \in Decls
        PROVE  /\ up'[x] # NoElement => x \in kids'[up'[x]]
               /\ up'[x] \in TUs => \E h \in 1 .. header - 1 : up'[x] = TU(h)
               /\ (\E q \in Elements : x \in kids'[q]) => up'[x] # NoElement
    <3>1. /\ up[x] # NoElement => x \in kids[up[x]]
          /\ up[x] \in TUs => \E h \in 1 .. header : up[x] = TU(h)
          /\ (\E q \in Elements : x \in kids[q]) => up[x] # NoElement
      BY <1>1, <2>1 DEF TreeInv
    <3>2. up[x] \in Elements \cup {NoElement}
      BY DEF TypeOK, Elements
    <3>3. into # NoElement
      BY <1>2, ElementKinds
    <3>4. CASE x \in kids[from]
      <4>1. up'[x] = into /\ x \in kids'[into]
        BY <1>2, <2>3, <2>4, <3>4
      <4> QED
        BY <1>1, <3>3, <4>1
    <3>5. CASE x \notin kids[from]
      <4>1. up'[x] = up[x]
        BY <2>4, <3>5
      <4>2. up[x] # NoElement => x \in kids'[up[x]]
        BY <1>2, <2>3, <3>1, <3>2
      <4>3. up[x] \in TUs => \E h \in 1 .. header - 1 : up[x] = TU(h)
        <5>1. SUFFICES ASSUME NEW h \in 1 .. header, up[x] = TU(h), up[x] \in TUs
                       PROVE  h \in 1 .. header - 1
          BY <3>1
        <5>2. up[x] # NoElement
          BY <5>1, ElementKinds DEF Elements
        <5>3. h # header
          BY <3>1, <3>5, <5>1, <5>2
        <5> QED
          BY <1>1, <5>3
      <4>4. (\E q \in Elements : x \in kids'[q]) => up[x] # NoElement
        BY <1>2, <2>3, <3>1
      <4> QED
        BY <4>1, <4>2, <4>3, <4>4
    <3> QED
      BY <3>4, <3>5
  <2>10. (\A x \in Decls :
            /\ up[x] # NoElement => x \in kids[up[x]]
            /\ up[x] \in TUs => \E h \in 1 .. Last1 : up[x] = TU(h)
            /\ (\E q \in Elements : x \in kids[q]) => up[x] # NoElement)'
    BY <2>1, <2>8
  <2>9. (phase \in {"merging", "done"} => header \in 1 .. MaxHeaders)' /\ phase' # "done"
    BY <1>1, <1>3, <1>8
  <2> QED
    BY <1>6, <2>5, <2>6, <2>7, <2>9, <2>10 DEF TreeInv
<1> QED
  BY <1>3, <1>6, <1>7, <1>8

\* Steps that leave the tree and the cursors alone.
LEMMA WalkStays ==
  ASSUME TypeOK, WalkInv, UNCHANGED <<program, visits>>,
         lookup' \subseteq lookup \cup TUs,
         phase' # "parsing" => path' = <<>>,
         \A i \in 1 .. Len(path') : path'[i] \in Seen \cup {TU(header')}
  PROVE  WalkInv'
<1>1. \A x, q : SeenAt(x, q)' <=> SeenAt(x, q)
  BY DEF SeenAt
<1>2. \A x, q : Place(x, q)' <=> Place(x, q)
  BY DEF Place, IsClass, IsNamespace
<1>3. Seen' = Seen
  BY DEF Seen
<1>4. (/\ phase # "parsing" => path = <<>>
       /\ \A i \in 1 .. Len(path) : path[i] \in Seen \cup {TU(header)})'
  BY <1>3
<1>5. (lookup \cap program.hidden = {})'
  <2>1. program.hidden \cap TUs = {}
    BY ElementKinds DEF TypeOK, Programs
  <2> QED
    BY <2>1 DEF WalkInv
<1>6. (\A v \in visits :
         /\ Place(v.decl, v.place)
         /\ v.place \in TUs => v.place = TU(v.header)
         /\ program.sem[v.decl] = NoElement \/
              (program.sem[v.decl] \in Seen /\ SeenAt(v.decl, program.sem[v.decl])))'
  BY <1>1, <1>2, <1>3 DEF WalkInv
<1> QED
  BY <1>4, <1>5, <1>6 DEF WalkInv

LEMMA TreeStays ==
  ASSUME TypeOK, TreeInv, UNCHANGED <<program, visits, kids, up, phase>>,
         phase = "parsing" \/ UNCHANGED header
  PROVE  TreeInv'
<1>1. \A x, q : SeenAt(x, q)' <=> SeenAt(x, q)
  BY DEF SeenAt
<1>2. \A x, q : Listed(x, q)' <=> Listed(x, q)
  BY DEF Listed, IsMethod, IsNamespace, IsClass
<1>3. Last1' = Last1
  BY DEF Last1
<1> QED
  BY <1>1, <1>2, <1>3 DEF TreeInv

LEMMA OtherStepsWalk ==
  ASSUME TypeOK, WalkInv, TreeInv,
         OpenHeader \/ ParseFails \/ Leave \/ StartMerge \/ Merged \/ Ended \/ UNCHANGED vars
  PROVE  WalkInv' /\ TreeInv'
<1> USE ParsingAssumption
<1>1. CASE OpenHeader
  <2>1. TU(header') \in TUs
    BY <1>1, ElementKinds DEF TypeOK, OpenHeader
  <2>2. \A i \in 1 .. Len(path') : path'[i] \in Seen \cup {TU(header')}
    BY <1>1 DEF OpenHeader
  <2> QED
    BY <1>1, <2>1, <2>2, WalkStays, TreeStays DEF OpenHeader
<1>2. CASE ParseFails
  <2>1. WalkInv'
    BY <1>2, WalkStays DEF ParseFails, WalkInv
  <2> QED
    BY <1>2, <2>1 DEF ParseFails, TreeInv
<1>3. CASE Leave
  <2>1. \A i \in 1 .. Len(path') : i \in 1 .. Len(path) /\ path'[i] = path[i]
    BY <1>3 DEF Leave, TypeOK, Front
  <2> QED
    BY <1>3, <2>1, WalkStays, TreeStays DEF Leave, WalkInv
<1>4. CASE StartMerge
  <2>1. WalkInv'
    BY <1>4, WalkStays DEF StartMerge, WalkInv
  <2>2. \A x, q : SeenAt(x, q)' <=> SeenAt(x, q)
    BY <1>4 DEF SeenAt, StartMerge
  <2>3. \A x, q : Listed(x, q)' <=> Listed(x, q)
    BY <1>4 DEF Listed, IsMethod, IsNamespace, IsClass, StartMerge
  <2>4. Last1' = Last1 /\ phase' = "merging" /\ header' \in 1 .. MaxHeaders
    BY <1>4 DEF Last1, StartMerge
  <2> QED
    BY <1>4, <2>1, <2>2, <2>3, <2>4 DEF TreeInv, StartMerge
<1>5. CASE Merged
  <2>1. WalkInv'
    BY <1>5, WalkStays DEF Merged, WalkInv
  <2>2. \A x, q : SeenAt(x, q)' <=> SeenAt(x, q)
    BY <1>5 DEF SeenAt, Merged
  <2>3. \A x, q : Listed(x, q)' <=> Listed(x, q)
    BY <1>5 DEF Listed, IsMethod, IsNamespace, IsClass, Merged
  <2>4. Last1' = Last1 /\ header' = 1 /\ 1 \in 1 .. MaxHeaders
    BY <1>5 DEF Last1, Merged
  <2> QED
    BY <1>5, <2>1, <2>2, <2>3, <2>4 DEF TreeInv, Merged
<1>6. CASE Ended \/ UNCHANGED vars
  <2>1. UNCHANGED vars
    BY <1>6 DEF Ended
  <2> QED
    BY <2>1, WalkStays, TreeStays DEF vars, WalkInv
<1> QED
  BY <1>1, <1>2, <1>3, <1>4, <1>5, <1>6

\* What the tree of elements shows of the headers, while they are parsed and as
\* their trees are merged: each element lists what was seen at its place and can
\* be wrapped there, and nothing else.
THEOREM TreeShowsTheHeaders ==
  Spec => [](TypeOK /\ NestingIsFinite /\ WalkInv /\ TreeInv)
<1>1. Init => WalkInv /\ TreeInv
  BY InitWalk
<1>2. TypeOK /\ TypeOK' /\ WalkInv /\ TreeInv /\ [Next]_vars => WalkInv' /\ TreeInv'
  <2> SUFFICES ASSUME TypeOK, TypeOK', WalkInv, TreeInv, [Next]_vars
               PROVE  WalkInv' /\ TreeInv'
    OBVIOUS
  <2>1. ASSUME NEW d \in Decls, Visit(d) PROVE WalkInv' /\ TreeInv'
    BY <2>1, VisitWalks, VisitGrows
  <2>2. CASE Merge
    BY <2>2, MergeCollects
  <2>3. CASE OpenHeader \/ ParseFails \/ Leave \/ StartMerge \/ Merged \/ Ended
             \/ UNCHANGED vars
    BY <2>3, OtherStepsWalk
  <2> QED
    BY <2>1, <2>2, <2>3 DEF Next
<1> QED
  BY <1>1, <1>2, ParsingNests, PTL DEF Spec

-----------------------------------------------------------------------------
(* What the merged tree has. *)

\* Headers that share a declaration at their top level cannot be indexed
\* together, and it is only such headers that cannot.
THEOREM SharedHeadersFail == Spec => SharingFails
<1> USE ParsingAssumption
<1> DEFINE Shared ==
             \E v, w \in visits : /\ v.header < header /\ v.header = header - 1
                                  /\ w.header >= header /\ v.decl = w.decl
                                  /\ v.place \in TUs /\ w.place \in TUs
                                  /\ v.decl \notin program.hidden
<1>1. TypeOK /\ WalkInv /\ TreeInv /\ [Next]_vars /\ phase = "merging" /\ ~ UNCHANGED vars
        => (phase' = "failed" <=> Shared)
  <2> SUFFICES ASSUME TypeOK, WalkInv, TreeInv, [Next]_vars, phase = "merging", ~ UNCHANGED vars
               PROVE  phase' = "failed" <=> Shared
    OBVIOUS
  <2>1. \A v \in visits : v.header \in 1 .. MaxHeaders /\ v.decl \in Decls
    BY DEF TypeOK
  <2>2. header \in 1 .. MaxHeaders
    BY DEF TreeInv
  <2>3. Merge \/ Merged
    BY DEF Next, OpenHeader, ParseFails, Visit, Leave, StartMerge, Ended
  <2>4. CASE Merged
    <3>1. phase' # "failed" /\ header = 1
      BY <2>4 DEF Merged
    <3>2. ~ Shared
      BY <2>1, <3>1
    <3> QED
      BY <3>1, <3>2
  <2>5. CASE Merge
    <3>1. header \in 2 .. MaxHeaders /\ header - 1 \in 1 .. MaxHeaders
      BY <2>2, <2>5 DEF Merge
    <3>2. phase' = "failed" <=> kids[TU(header)] \cap kids[TU(header - 1)] # {}
      BY <2>5 DEF Merge
    <3>3. kids[TU(header)] \subseteq Decls
      BY <2>2, ElementKinds DEF TypeOK, Elements
    <3>4. ASSUME NEW d \in Decls
          PROVE  /\ d \in kids[TU(header - 1)] <=>
                      d \notin program.hidden /\ SeenAt(d, TU(header - 1))
                 /\ d \in kids[TU(header)] <=>
                      /\ d \notin program.hidden
                      /\ \E h \in header .. MaxHeaders : SeenAt(d, TU(h))
      <4>1. Last1 = header /\ header - 1 < header
        BY <2>2 DEF Last1
      <4> QED
        BY <3>1, <4>1 DEF TreeInv
    <3>5. ASSUME NEW h \in 1 .. MaxHeaders, NEW d
          PROVE  SeenAt(d, TU(h)) <=>
                   \E v \in visits : v.decl = d /\ v.place \in TUs /\ v.header = h
      <4>1. TU(h) \in TUs
        BY ElementKinds
      <4>2. \A v \in visits : v.place \in TUs => v.place = TU(v.header)
        BY DEF WalkInv
      <4>3. \A j \in 1 .. MaxHeaders : TU(j) = TU(h) => j = h
        BY DEF TU
      <4> QED
        BY <2>1, <4>1, <4>2, <4>3 DEF SeenAt
    <3>6. ASSUME phase' = "failed" PROVE Shared
      <4>1. PICK d \in Decls : d \in kids[TU(header)] /\ d \in kids[TU(header - 1)]
        BY <3>2, <3>3, <3>6
      <4>2. PICK h \in header .. MaxHeaders : SeenAt(d, TU(h))
        BY <3>4, <4>1
      <4>3. h \in 1 .. MaxHeaders
        BY <2>2
      <4>4. PICK w \in visits : w.decl = d /\ w.place \in TUs /\ w.header = h
        BY <3>5, <4>2, <4>3
      <4>5. PICK v \in visits : v.decl = d /\ v.place \in TUs /\ v.header = header - 1
        BY <3>1, <3>4, <3>5, <4>1
      <4>6. d \notin program.hidden
        BY <3>4, <4>1
      <4> QED
        BY <3>1, <4>4, <4>5, <4>6
    <3>7. ASSUME Shared PROVE phase' = "failed"
      <4>1. PICK v, w \in visits : /\ v.header < header /\ v.header = header - 1
                                   /\ w.header >= header /\ v.decl = w.decl
                                   /\ v.place \in TUs /\ w.place \in TUs
                                   /\ v.decl \notin program.hidden
        BY <3>7
      <4>2. SeenAt(v.decl, TU(header - 1)) /\ SeenAt(v.decl, TU(w.header))
        BY <2>1, <3>1, <3>5, <4>1
      <4>3. v.decl \in Decls /\ w.header \in header .. MaxHeaders
        BY <2>1, <2>2, <4>1
      <4>4. v.decl \in kids[TU(header)] /\ v.decl \in kids[TU(header - 1)]
        BY <3>4, <4>1, <4>2, <4>3
      <4> QED
        BY <3>2, <4>4
    <3> QED
      BY <3>6, <3>7
  <2> QED
    BY <2>3, <2>4, <2>5
<1>2. TypeOK /\ WalkInv /\ TreeInv /\ [Next]_vars =>
        [phase = "merging" => (phase' = "failed" <=> Shared)]_vars
  BY <1>1
<1> QED
  BY <1>2, TreeShowsTheHeaders, PTL DEF Spec, SharingFails

\* What is around a member is what it belongs to and what is around that.
LEMMA AroundUnrolls ==
  ASSUME program \in Programs, NEW d \in Decls, program.sem[d] \in Decls
  PROVE  Around(d) = {d} \cup Around(program.sem[d])
<1> DEFINE p == program.sem[d]
<1>1. p # NoElement
  BY ParsingAssumption DEF Decls, NoElement
<1>2. ASSUME NEW x \in Decls, Within(p, x) PROVE Within(d, x)
  BY <1>1, <1>2 DEF Within
<1>3. ASSUME NEW x \in Decls, Within(d, x), x # p PROVE Within(p, x)
  <2> DEFINE S == {p} \cup {y \in Decls : Within(p, y)}
  <2>1. S \in SUBSET Decls /\ p \in S
    OBVIOUS
  <2>2. \A y \in Decls : program.sem[y] \in Decls \cup {NoElement}
    BY ParsingAssumption DEF Programs, Decls, NoElement
  <2>3. ASSUME NEW y \in S PROVE program.sem[y] \in S \cup {NoElement}
    <3>1. CASE y = p
      BY <2>2, <3>1, ParentIsAround
    <3>2. CASE y \in Decls /\ Within(p, y)
      BY <2>2, <3>2 DEF Within
    <3> QED
      BY <3>1, <3>2
  <2>4. x \in S
    <3> HIDE DEF S
    <3> QED
      BY <1>3, <2>1, <2>3 DEF Within
  <2> QED
    BY <1>3, <2>4
<1>4. Within(d, p)
  BY <1>1, ParentIsAround
<1> QED
  BY <1>2, <1>3, <1>4 DEF Around

\* A declaration that is written in its place is listed by what it belongs to,
\* or at the top of the files.
LEMMA ListedInItsPlace ==
  ASSUME TypeOK, WalkInv, TreeInv, phase = "done",
         NEW d \in Decls, WrittenInPlace(d)
  PROVE  /\ \A q \in Decls : d \in kids[q] => q = program.sem[d]
         /\ d \in kids[TU(1)] => program.sem[d] = NoElement
<1> USE ParsingAssumption
<1>1. ASSUME NEW q \in Decls, d \in kids[q] PROVE q = program.sem[d]
  <2>1. SeenAt(d, q) /\ Listed(d, q)
    BY <1>1 DEF TreeInv
  <2>2. q \notin TUs
    BY ElementKinds
  <2>3. Place(d, q)
    BY <2>1 DEF SeenAt, WalkInv
  <2>4. q = program.sem[d] \/ (IsMethod(d) /\ IsNamespace(q))
    BY <2>1, <2>2 DEF SeenAt, WrittenInPlace
  <2> QED
    BY <2>1, <2>2, <2>3, <2>4 DEF Listed, Place
<1>2. ASSUME d \in kids[TU(1)] PROVE program.sem[d] = NoElement
  <2>1. PICK h \in 1 .. MaxHeaders : SeenAt(d, TU(h))
    BY <1>2 DEF TreeInv, Last1
  <2>2. TU(h) \in TUs /\ TU(h) \notin Decls
    BY ElementKinds
  <2>3. program.sem[d] # TU(h)
    BY DEF TypeOK, Programs, Decls, TU
  <2> QED
    BY <2>1, <2>2, <2>3 DEF SeenAt, WrittenInPlace, IsNamespace
<1> QED
  BY <1>1, <1>2

\* What was seen, and has an element like all that it is in, is listed by
\* what it belongs to, which was seen, too, and at the top of the files if it
\* belongs to nothing.
LEMMA VisibleIsListed ==
  ASSUME TypeOK, WalkInv, TreeInv, phase = "done", NEW d \in Seen, Visible(d)
  PROVE  /\ program.sem[d] = NoElement => d \in kids[TU(1)]
         /\ program.sem[d] # NoElement =>
              /\ program.sem[d] \in Seen /\ Visible(program.sem[d])
              /\ d \in kids[program.sem[d]]
<1> USE ParsingAssumption
<1>1. d \in Decls /\ d \notin program.hidden
  BY DEF Seen, TypeOK, Visible, Around
<1>2. PICK v \in visits : v.decl = d
  BY DEF Seen
<1>3. Place(d, v.place)
  BY <1>2 DEF WalkInv
<1>4. program.sem[d] \in Decls \cup {NoElement}
  BY <1>1 DEF TypeOK, Programs, Decls, NoElement
<1>5. ASSUME program.sem[d] = NoElement PROVE d \in kids[TU(1)]
  <2>1. v.place \in TUs
    BY <1>3, <1>5, ElementKinds DEF Place, IsClass, Elements
  <2>2. PICK h \in 1 .. MaxHeaders : v.place = TU(h)
    BY <2>1 DEF TUs
  <2>3. SeenAt(d, TU(h))
    BY <1>2, <2>2 DEF SeenAt
  <2> QED
    BY <1>1, <2>3 DEF TreeInv, Last1
<1>6. ASSUME program.sem[d] # NoElement
      PROVE  /\ program.sem[d] \in Seen /\ Visible(program.sem[d])
             /\ d \in kids[program.sem[d]]
  <2> DEFINE p == program.sem[d]
  <2>1. p \in Seen /\ SeenAt(d, p)
    BY <1>2, <1>6 DEF WalkInv
  <2>2. p \in Decls
    BY <1>4, <1>6
  <2>3. Around(d) = {d} \cup Around(p)
    BY <1>1, <2>2, AroundUnrolls DEF TypeOK
  <2>4. p \in Around(p)
    BY <2>2 DEF Around
  <2>5. Visible(p) /\ p \notin program.hidden
    BY <2>3, <2>4 DEF Visible
  <2>6. Listed(d, p)
    BY <1>1, <2>5 DEF Listed, IsNamespace, IsClass
  <2>7. d \in kids[p]
    BY <1>1, <2>1, <2>2, <2>6 DEF TreeInv
  <2> QED
    BY <2>1, <2>5, <2>7
<1> QED
  BY <1>5, <1>6

\* A visible declaration that is written in its place hangs below the element
\* it belongs to, and nowhere else, and points to it, however it was declared
\* again, reopened or defined out of line.
THEOREM InPlaceHangsThere == Spec => []HangsInItsPlace
<1> USE ParsingAssumption
<1>1. TypeOK /\ WalkInv /\ TreeInv => HangsInItsPlace
  <2> SUFFICES ASSUME TypeOK, WalkInv, TreeInv, phase = "done",
                      NEW d \in Seen, Visible(d), InPlace(d)
               PROVE  LET p == IF program.sem[d] = NoElement THEN TU(1) ELSE program.sem[d]
                      IN  /\ up[d] = p
                          /\ {q \in Decls \cup {TU(1)} : d \in kids[q]} = {p}
    BY DEF HangsInItsPlace
  <2> DEFINE p == IF program.sem[d] = NoElement THEN TU(1) ELSE program.sem[d]
  <2>1. d \in Decls /\ d \in Around(d)
    BY DEF Seen, TypeOK, Around
  <2>2. WrittenInPlace(d)
    BY <2>1 DEF InPlace
  <2>3. program.sem[d] \in Decls \cup {NoElement}
    BY <2>1 DEF TypeOK, Programs, Decls, NoElement
  <2>4. p \in Decls \cup {TU(1)}
    BY <2>3
  <2>5. d \in kids[p]
    BY VisibleIsListed
  <2>6. TU(1) \in TUs /\ TU(1) \notin Decls /\ TU(1) # NoElement /\ NoElement \notin Decls
    BY ElementKinds DEF Elements, Decls, TU, NoElement
  <2>7. \A q \in Decls \cup {TU(1)} : d \in kids[q] => q = p
    BY <2>1, <2>2, <2>6, ListedInItsPlace
  <2>8. up[d] \in Decls \cup {TU(1)}
    <3>1. up[d] # NoElement
      BY <2>1, <2>4, <2>5, <2>6 DEF TreeInv, Elements
    <3>2. up[d] \in Decls \cup TUs \cup {NoElement}
      BY <2>1 DEF TypeOK, Elements
    <3>3. up[d] \in TUs => \E h \in 1 .. 1 : up[d] = TU(h)
      BY <2>1 DEF TreeInv, Last1
    <3>4. \A h \in 1 .. 1 : h = 1
      OBVIOUS
    <3> QED
      BY <3>1, <3>2, <3>3, <3>4
  <2>9. d \in kids[up[d]]
    BY <2>1, <2>6, <2>8 DEF TreeInv
  <2>10. up[d] = p
    BY <2>7, <2>8, <2>9
  <2> QED
    BY <2>4, <2>5, <2>7, <2>10
<1> QED
  BY <1>1, TreeShowsTheHeaders, PTL

\* The search goes down the tree level by level.
LEMMA FoundByLevels ==
  ASSUME TypeOK
  PROVE  \E level \in [0 .. MaxDecls -> SUBSET Decls] :
           /\ level[0] = kids[TU(1)]
           /\ \A n \in 1 .. MaxDecls :
                level[n] = level[n - 1] \cup UNION {kids[p] : p \in level[n - 1]}
           /\ Found = level[MaxDecls]
<1> USE ParsingAssumption
<1> DEFINE Down(outer) == outer \cup UNION {kids[p] : p \in outer}
           Levels(f) == f = [n \in 0 .. MaxDecls |-> IF n = 0 THEN kids[TU(1)] ELSE Down(f[n - 1])]
           g == [x \in (0 + 1 .. MaxDecls) \X SUBSET Decls |-> Down(x[2])]
<1>1. kids[TU(1)] \in SUBSET Decls
  BY ElementKinds DEF TypeOK, Elements
<1>2. \A outer \in SUBSET Decls : Down(outer) \in SUBSET Decls
  BY DEF TypeOK, Elements
<1>3. StepsIn(g, 0, MaxDecls, SUBSET Decls)
  BY <1>2 DEF StepsIn
<1>4. PICK f : Recursive(f, 0, MaxDecls, SUBSET Decls, kids[TU(1)], g)
  <2>1. 0 <= MaxDecls
    OBVIOUS
  <2> HIDE DEF g
  <2> QED
    BY <1>1, <1>3, <2>1, Recursion
<1>5. /\ f \in [0 .. MaxDecls -> SUBSET Decls] /\ f[0] = kids[TU(1)]
      /\ \A n \in 1 .. MaxDecls : f[n] = Down(f[n - 1])
  <2>1. f \in [0 .. MaxDecls -> SUBSET Decls] /\ f[0] = kids[TU(1)]
    BY <1>4 DEF Recursive
  <2>2. ASSUME NEW n \in 1 .. MaxDecls PROVE f[n] = Down(f[n - 1])
    <3>1. n \in 0 + 1 .. MaxDecls /\ f[n - 1] \in SUBSET Decls
      BY <2>1
    <3>2. g[<<n, f[n - 1]>>] = Down(f[n - 1])
      BY <3>1
    <3> HIDE DEF g
    <3> QED
      BY <1>4, <3>1, <3>2 DEF Recursive
  <2> QED
    BY <2>1, <2>2
<1>6. Levels(f)
  BY <1>5
<1>7. Levels(CHOOSE h : Levels(h))
  BY <1>6
<1>8. PICK level : level = (CHOOSE h : Levels(h))
  OBVIOUS
<1>9. Found = level[MaxDecls]
  BY <1>8 DEF Found
<1>10. Levels(level)
  BY <1>7, <1>8
<1>11. level[0] = kids[TU(1)] /\ \A n \in 1 .. MaxDecls : level[n] = Down(level[n - 1])
  <2> HIDE DEF Down
  <2>1. 0 \in 0 .. MaxDecls /\ \A n \in 1 .. MaxDecls : n \in 0 .. MaxDecls /\ n # 0
    OBVIOUS
  <2> QED
    BY <1>10, <2>1
<1>12. level \in [0 .. MaxDecls -> SUBSET Decls]
  <2> DEFINE S == {n \in Nat : n <= MaxDecls => level[n] \in SUBSET Decls}
  <2>1. 0 \in S
    BY <1>1, <1>11
  <2>2. ASSUME NEW n \in Nat, n \in S PROVE n + 1 \in S
    <3> SUFFICES ASSUME n + 1 <= MaxDecls PROVE level[n + 1] \in SUBSET Decls
      OBVIOUS
    <3>1. n + 1 \in 1 .. MaxDecls /\ level[(n + 1) - 1] \in SUBSET Decls
      BY <2>2
    <3> HIDE DEF Down
    <3> QED
      BY <1>2, <1>11, <3>1
  <2>3. \A n \in Nat : n \in S
    <3> HIDE DEF S
    <3> QED
      BY <2>1, <2>2, Induction
  <2> QED
    BY <1>10, <2>3
<1> QED
  BY <1>9, <1>11, <1>12

\* A set with the top of the files that has the children of what it has holds
\* all that is found.
LEMMA FoundIsWithin ==
  ASSUME TypeOK, NEW S, kids[TU(1)] \subseteq S,
         \A p \in Decls : p \in S => kids[p] \subseteq S
  PROVE  Found \subseteq S
<1> USE ParsingAssumption
<1>1. PICK level \in [0 .. MaxDecls -> SUBSET Decls] :
        /\ level[0] = kids[TU(1)]
        /\ \A n \in 1 .. MaxDecls :
             level[n] = level[n - 1] \cup UNION {kids[p] : p \in level[n - 1]}
        /\ Found = level[MaxDecls]
  BY FoundByLevels
<1> DEFINE N == {n \in Nat : n <= MaxDecls => level[n] \subseteq S}
<1>2. 0 \in N
  BY <1>1
<1>3. ASSUME NEW n \in Nat, n \in N PROVE n + 1 \in N
  <2> SUFFICES ASSUME n + 1 <= MaxDecls PROVE level[n + 1] \subseteq S
    OBVIOUS
  <2>1. level[n] \subseteq S /\ level[n] \subseteq Decls
    BY <1>1, <1>3
  <2>2. level[n + 1] = level[n] \cup UNION {kids[p] : p \in level[n]}
    <3>1. n + 1 \in 1 .. MaxDecls /\ (n + 1) - 1 = n
      OBVIOUS
    <3> QED
      BY <1>1, <3>1
  <2> QED
    BY <2>1, <2>2
<1> HIDE DEF N
<1>4. MaxDecls \in N
  BY <1>2, <1>3, Induction
<1> QED
  BY <1>1, <1>4 DEF N

\* The search finds what is at the top and, MaxDecls levels deep, the children of
\* what it finds: since those come after their parents, all of them.
LEMMA VisibleIsFound ==
  ASSUME TypeOK, WalkInv, TreeInv, phase = "done", NEW e \in Seen, Visible(e)
  PROVE  e \in Found
<1> USE ParsingAssumption
<1>1. PICK level \in [0 .. MaxDecls -> SUBSET Decls] :
        /\ level[0] = kids[TU(1)]
        /\ \A n \in 1 .. MaxDecls :
             level[n] = level[n - 1] \cup UNION {kids[p] : p \in level[n - 1]}
        /\ Found = level[MaxDecls]
  BY FoundByLevels
<1> DEFINE N == {n \in Nat : n <= MaxDecls =>
                   /\ level[0] \subseteq level[n]
                   /\ \A d \in Seen : Visible(d) /\ d <= n => d \in level[n]}
<1>2. Seen \subseteq Decls
  BY DEF Seen, TypeOK
<1>3. \A d \in Decls : program.sem[d] \in Nat /\ program.sem[d] < d
  BY DEF TypeOK, Programs, Decls
<1>4. 0 \in N
  BY <1>2 DEF Decls
<1>5. ASSUME NEW n \in Nat, n \in N PROVE n + 1 \in N
  <2> SUFFICES ASSUME n + 1 <= MaxDecls
               PROVE  /\ level[0] \subseteq level[n + 1]
                      /\ \A d \in Seen : Visible(d) /\ d <= n + 1 => d \in level[n + 1]
    OBVIOUS
  <2>1. /\ level[0] \subseteq level[n]
        /\ \A d \in Seen : Visible(d) /\ d <= n => d \in level[n]
    BY <1>5
  <2>2. level[n + 1] = level[n] \cup UNION {kids[p] : p \in level[n]}
    <3>1. n + 1 \in 1 .. MaxDecls /\ (n + 1) - 1 = n
      OBVIOUS
    <3> QED
      BY <1>1, <3>1
  <2>3. ASSUME NEW d \in Seen, Visible(d), d <= n + 1 PROVE d \in level[n + 1]
    <3>1. CASE program.sem[d] = NoElement
      <4>1. d \in level[0]
        BY <1>1, <2>3, <3>1, VisibleIsListed
      <4> QED
        BY <2>1, <2>2, <4>1
    <3>2. CASE program.sem[d] # NoElement
      <4>1. /\ program.sem[d] \in Seen /\ Visible(program.sem[d])
            /\ d \in kids[program.sem[d]]
        BY <2>3, <3>2, VisibleIsListed
      <4>2. program.sem[d] <= n
        <5>1. d \in Nat /\ program.sem[d] \in Nat /\ program.sem[d] < d
          BY <1>2, <1>3 DEF Decls
        <5> QED
          BY <2>3, <5>1
      <4>3. program.sem[d] \in level[n]
        BY <2>1, <4>1, <4>2
      <4> QED
        BY <2>2, <4>1, <4>3
    <3> QED
      BY <3>1, <3>2
  <2> QED
    BY <2>1, <2>2, <2>3
<1>6. MaxDecls \in N
  <2> HIDE DEF N
  <2> QED
    BY <1>4, <1>5, Induction
<1>7. e <= MaxDecls
  BY <1>2 DEF Decls
<1> QED
  BY <1>1, <1>6, <1>7

\* When the search begins it finds each declaration that was seen anywhere in the
\* headers, unless map has no element for it or for something it is in.
THEOREM NothingIsMissed == Spec => []NothingMissed
<1>1. TypeOK /\ WalkInv /\ TreeInv => NothingMissed
  BY VisibleIsFound DEF NothingMissed
<1> QED
  BY <1>1, TreeShowsTheHeaders, PTL

\* Nothing hidden is wrapped, and nothing in something hidden unless it is
\* written outside of it: the declarations of which that holds include the top
\* of the files and, with each of them, its children.
THEOREM TheHiddenStaysOut == Spec => []HiddenStaysOut
<1> USE ParsingAssumption
<1>1. TypeOK /\ WalkInv /\ TreeInv => HiddenStaysOut
  <2> SUFFICES ASSUME TypeOK, WalkInv, TreeInv, phase = "done"
               PROVE  \A d \in Found : d \notin program.hidden /\ (InPlace(d) => Visible(d))
    BY DEF HiddenStaysOut
  <2> DEFINE Out == {d \in Decls : d \notin program.hidden /\ (InPlace(d) => Visible(d))}
  <2>1. \A d \in Decls : d \in Around(d)
    BY DEF Around
  <2>2. ASSUME NEW d \in kids[TU(1)] PROVE d \in Out
    <3>1. d \in Decls
      BY <2>2, ElementKinds DEF TypeOK, Elements
    <3>2. d \notin program.hidden
      BY <2>2, <3>1 DEF TreeInv, Last1
    <3>3. ASSUME InPlace(d) PROVE Visible(d)
      <4>1. program.sem[d] = NoElement
        BY <2>1, <2>2, <3>1, <3>3, ListedInItsPlace DEF InPlace
      <4>2. Around(d) = {d}
        BY <4>1 DEF Around, Within
      <4> QED
        BY <3>2, <4>2 DEF Visible
    <3> QED
      BY <3>1, <3>2, <3>3
  <2>3. ASSUME NEW p \in Decls, p \in Out, NEW d \in kids[p] PROVE d \in Out
    <3>1. d \in Decls
      BY <2>3 DEF TypeOK, Elements
    <3>2. d \notin program.hidden
      BY <2>3, <3>1 DEF TreeInv, Listed
    <3>3. ASSUME InPlace(d) PROVE Visible(d)
      <4>1. p = program.sem[d]
        BY <2>1, <2>3, <3>1, <3>3, ListedInItsPlace DEF InPlace
      <4>2. Around(d) = {d} \cup Around(p)
        BY <2>3, <3>1, <4>1, AroundUnrolls DEF TypeOK
      <4>3. InPlace(p)
        BY <3>3, <4>2 DEF InPlace
      <4>4. Visible(p)
        BY <2>3, <4>3
      <4> QED
        BY <3>2, <4>2, <4>4 DEF Visible
    <3> QED
      BY <3>1, <3>2, <3>3
  <2>4. Found \subseteq Out
    <3> HIDE DEF Out
    <3> QED
      BY <2>2, <2>3, FoundIsWithin
  <2> QED
    BY <2>4
<1> QED
  BY <1>1, TreeShowsTheHeaders, PTL

=============================================================================
