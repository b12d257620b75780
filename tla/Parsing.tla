------------------------------- MODULE Parsing -------------------------------
(***************************************************************************)
(* Parsing (WrappedElement.mapAll, parseHeader): a walk over the cursors   *)
(* of each header makes one Wrapped* element per declaration and hangs it  *)
(* below the element of the place it was found at; the headers' trees are  *)
(* then merged into the one that is searched and resolved.                 *)
(*                                                                         *)
(* A declaration's semantic parent says what it belongs to; its cursors    *)
(* say where it is written, and one declaration can have several: a        *)
(* namespace is reopened, a class declared and defined, a member defined   *)
(* out of line, all of that again in another header.                       *)
(***************************************************************************)
EXTENDS Naturals, FiniteSets, Sequences, SequencesExt

CONSTANTS
  MaxDecls,    \* bound: declarations in all headers
  MaxHeaders,  \* bound: headers in the request
  MaxVisits    \* bound: cursors in all headers

ASSUME ParsingAssumption ==
  MaxDecls \in Nat /\ MaxHeaders \in Nat \ {0} /\ MaxVisits \in Nat

Decls == 1 .. MaxDecls

\* The translation units, one per header file, are elements, too.
TU(h) == MaxDecls + h
TUs == {TU(h) : h \in 1 .. MaxHeaders}
Elements == Decls \cup TUs

NoElement == 0

Kinds == {"namespace", "class", "method"}

VARIABLES
  program,  \* what the headers declare
  lookup,   \* elementLookup: the elements made so far
  kids,     \* their children
  up,       \* their parent pointers
  phase,    \* parsing, merging, done, failed
  header,   \* the header under the walk; when merging, the one merged last
  path,     \* the cursor the walk is at, and those it is in
  bodies,   \* classes whose body this header has had
  visits    \* history: the header, place and declaration of every cursor

vars == <<program, lookup, kids, up, phase, header, path, bodies, visits>>

\* The declarations: a member of a class is a class or a method.  Some are hidden,
\* which is to say that map has no element for them: members that are private,
\* protected or deleted, operator new and delete, and whatever is of a kind that
\* map does not list.  A linkage specification (extern "C") is a hidden namespace
\* here, a union or a partial specialization a hidden class, an enum, a variable,
\* a function template or a typedef that map cannot make a type of a hidden method.
Programs ==
  {g \in [kind : [Decls -> Kinds], sem : [Decls -> 0 .. MaxDecls], hidden : SUBSET Decls] :
     \A d \in Decls :
       /\ g.sem[d] < d
       /\ g.sem[d] # NoElement =>
            /\ g.kind[g.sem[d]] # "method"
            /\ g.kind[d] = "namespace" => g.kind[g.sem[d]] = "namespace"}

IsNamespace(x) == x \in Decls /\ program.kind[x] = "namespace"
IsClass(x) == x \in Decls /\ program.kind[x] = "class"
IsMethod(x) == x \in Decls /\ program.kind[x] = "method"

Init ==
  /\ program \in Programs
  /\ lookup = {}
  /\ kids = [p \in Elements |-> {}]
  /\ up = [c \in Elements |-> NoElement]
  /\ phase = "parsing"
  /\ header = 0
  /\ path = <<>>
  /\ bodies = {}
  /\ visits = {}

-----------------------------------------------------------------------------
(* The walk over one header. *)

\* Whether d is somewhere in p: p is in every set that holds what d belongs to
\* and, with a declaration, what that belongs to.
Within(d, p) ==
  /\ program.sem[d] # NoElement
  /\ \A S \in SUBSET Decls :
       /\ program.sem[d] \in S
       /\ \A x \in S : program.sem[x] \in S \cup {NoElement}
       => p \in S

\* This header has declared d in what it belongs to.
Declared(d) ==
  \E v \in visits : v.header = header /\ v.decl = d /\ v.place = program.sem[d]

\* Whether C++ lets d be written at the place p: in what it belongs to, or,
\* declared there before, as an out-of-line definition of a class member in
\* an enclosing namespace or at the top of the file.
Writable(p, d) ==
  \/ /\ p \in TUs
     /\ program.sem[d] = NoElement
  \/ /\ IsNamespace(p)
     /\ program.sem[d] = p
  \/ /\ IsClass(p)
     /\ program.sem[d] = p
     /\ p \notin bodies
     /\ ~Declared(d)
  \/ /\ IsClass(program.sem[d])
     /\ Declared(d)
     /\ p \in TUs \/ (IsNamespace(p) /\ Within(d, p))

\* parseHeader parses the next file; mapAll starts with its translation unit.
OpenHeader ==
  /\ phase = "parsing" /\ path = <<>>
  /\ header < MaxHeaders
  /\ header' = header + 1
  /\ path' = <<TU(header')>>
  /\ lookup' = lookup \cup {TU(header')}
  /\ bodies' = {}
  /\ UNCHANGED <<program, kids, up, phase, visits>>

\* The file has errors: printDiagnostics reports them and parseHeader throws.
ParseFails ==
  /\ phase = "parsing" /\ path = <<>>
  /\ header < MaxHeaders
  /\ phase' = "failed"
  /\ UNCHANGED <<program, lookup, kids, up, header, path, bodies, visits>>

\* Mutant of Mapped: access specifiers and kinds are not looked at.
MappedAnyway(x) == TRUE

\* map(cursor) gives an element, made now or found by its USR, or null.  What is
\* written in something that has no element has no parent, and is left out with it.
Mapped(x) == x \in lookup \/ x \notin program.hidden

\* Mutant of Hangs: no second look at methods found in a namespace.
HangsMethodsAnywhere(p, d) == up[d] # p /\ d \notin kids[p]

\* Mutant of Hangs: no methods in a namespace at all.
HangsNoFunctions(p, d) == up[d] # p /\ d \notin kids[p] /\ ~(IsMethod(d) /\ IsNamespace(p))

\* Whether mapAll adds d, found at the place p, to p's children.
Hangs(p, d) ==
  /\ up[d] # p
  /\ d \notin kids[p]
  /\ ~(IsMethod(d) /\ IsNamespace(p) /\ (IsClass(up[d]) \/ IsClass(program.sem[d])))

\* Mutant of AddChild: called on the child.
AddChildReversed(p, d) ==
  /\ kids' = [kids EXCEPT ![d] = @ \cup {p}]
  /\ up' = [up EXCEPT ![p] = d]

\* addChild: its require holds, for Hangs has looked.
AddChild(p, d) ==
  /\ kids' = [kids EXCEPT ![p] = @ \cup {d}]
  /\ up' = [up EXCEPT ![d] = p]

\* The walk comes to a cursor of d at the place p.
Visit(d) ==
  /\ phase = "parsing" /\ path # <<>>
  /\ Cardinality(visits) < MaxVisits
  /\ LET p == Last(path)
     IN  /\ Writable(p, d)
         /\ visits' = visits \cup {[header |-> header, place |-> p, decl |-> d]}
         /\ lookup' = IF ~Mapped(p) THEN lookup
                      ELSE lookup \cup {p} \cup (IF Mapped(d) THEN {d} ELSE {})
         /\ IF Mapped(p) /\ Mapped(d) /\ Hangs(p, d)
              THEN AddChild(p, d)
              ELSE UNCHANGED <<kids, up>>
  /\ path' = Append(path, d)
  /\ UNCHANGED <<program, phase, header, bodies>>

\* The walk has seen the children of a cursor and goes on after it.
Leave ==
  /\ phase = "parsing" /\ path # <<>>
  /\ path' = Front(path)
  /\ bodies' = IF \E v \in visits : v.header = header /\ v.place = Last(path)
                 THEN bodies \cup {Last(path)} ELSE bodies
  /\ UNCHANGED <<program, lookup, kids, up, phase, header, visits>>

-----------------------------------------------------------------------------
(* parseHeader for all files: reduceRight merges each tree into the one of  *)
(* the header before.                                                       *)

StartMerge ==
  /\ phase = "parsing" /\ path = <<>>
  /\ header = MaxHeaders
  /\ phase' = "merging"
  /\ UNCHANGED <<program, lookup, kids, up, header, path, bodies, visits>>

\* Mutant of Merge: the lists are joined without a look at what they share.
MergeUnchecked ==
  /\ phase = "merging" /\ header > 1
  /\ kids' = [kids EXCEPT ![TU(header - 1)] = @ \cup kids[TU(header)]]
  /\ up' = [c \in Elements |-> IF c \in kids[TU(header)] THEN TU(header - 1) ELSE up[c]]
  /\ header' = header - 1
  /\ UNCHANGED <<program, lookup, phase, path, bodies, visits>>

\* The parent pointers are set first; addAllChildren then requires that no
\* element is in both lists.
Merge ==
  /\ phase = "merging" /\ header > 1
  /\ LET from == TU(header)
         into == TU(header - 1)
     IN  /\ up' = [c \in Elements |-> IF c \in kids[from] THEN into ELSE up[c]]
         /\ IF kids[from] \cap kids[into] = {}
              THEN /\ kids' = [kids EXCEPT ![into] = @ \cup kids[from]]
                   /\ UNCHANGED phase
              ELSE /\ phase' = "failed"
                   /\ UNCHANGED kids
  /\ header' = header - 1
  /\ UNCHANGED <<program, lookup, path, bodies, visits>>

Merged ==
  /\ phase = "merging" /\ header = 1
  /\ phase' = "done"
  /\ UNCHANGED <<program, lookup, kids, up, header, path, bodies, visits>>

Ended == phase \in {"done", "failed"} /\ UNCHANGED vars

Next ==
  \/ OpenHeader
  \/ ParseFails
  \/ \E d \in Decls : Visit(d)
  \/ Leave
  \/ StartMerge
  \/ Merge
  \/ Merged
  \/ Ended

Spec == Init /\ [][Next]_vars

-----------------------------------------------------------------------------
(* Properties. *)

\* d and what it is in, outwards.
Around(d) == {d} \cup {x \in Decls : Within(d, x)}

Seen == {v.decl : v \in visits}

\* Elements that findClasses comes to from the merged tree.
Found ==
  LET level[n \in 0 .. MaxDecls] ==
        IF n = 0 THEN kids[TU(1)]
        ELSE LET outer == level[n - 1] IN outer \cup UNION {kids[p] : p \in outer}
  IN  level[MaxDecls]

\* Every cursor of d was in what d belongs to, or is that of a method defined
\* in a namespace around its class.
WrittenInPlace(d) ==
  \A v \in visits : v.decl = d =>
    \/ v.place = program.sem[d]
    \/ v.place \in TUs /\ program.sem[d] = NoElement
    \/ IsMethod(d) /\ IsNamespace(v.place)

InPlace(d) == \A x \in Around(d) : WrittenInPlace(x)

\* map has an element for d and for all that it is in.
Visible(d) == Around(d) \cap program.hidden = {}

TypeOK ==
  /\ program \in Programs
  /\ lookup \subseteq Elements
  /\ kids \in [Elements -> SUBSET Decls]
  /\ up \in [Elements -> Elements \cup {NoElement}]
  /\ phase \in {"parsing", "merging", "done", "failed"}
  /\ header \in 0 .. MaxHeaders
  /\ path \in Seq(Elements) /\ (path # <<>> => header > 0)
  /\ bodies \subseteq Elements
  /\ visits \subseteq [header : 1 .. MaxHeaders, place : Elements, decl : Decls]

\* The recursions over children and along parent pointers end, in every state
\* of parsing: an element is only ever below, and its pointer only names, what
\* is around it.
NestingIsFinite ==
  /\ \A p \in Decls : \A d \in kids[p] : d \in Decls /\ d \in lookup /\ Within(d, p)
  /\ \A d \in Decls : up[d] \in Decls => Within(d, up[d])
  /\ \A t \in TUs : up[t] = NoElement

\* Nothing that map has an element for is lost on the way: when the search begins
\* it finds each declaration that was seen anywhere in the headers, unless map has
\* no element for it or for something it is in (access, kind, operator new).
NothingMissed ==
  phase = "done" => \A d \in Seen : Visible(d) => d \in Found

\* Of the declarations that have an element: one that is written in its place
\* hangs below the element it belongs to, and nowhere else, and points to it: a
\* method is not in the namespace that holds its definition, too.
HangsInItsPlace ==
  phase = "done" =>
    \A d \in Seen : Visible(d) /\ InPlace(d) =>
      LET p == IF program.sem[d] = NoElement THEN TU(1) ELSE program.sem[d]
      IN  /\ up[d] = p
          /\ {q \in Decls \cup {TU(1)} : d \in kids[q]} = {p}

\* Nothing hidden is wrapped, by whichever cursor the walk comes to it, and nothing
\* in something hidden unless it is written outside of it.
HiddenStaysOut ==
  phase = "done" =>
    \A d \in Found : d \notin program.hidden /\ (InPlace(d) => Visible(d))

\* Headers that share a declaration at their top level cannot be indexed
\* together, and it is only such headers that cannot.
SharingFails ==
  [][phase = "merging" =>
       (phase' = "failed" <=>
          \E v, w \in visits : /\ v.header < header /\ v.header = header - 1
                               /\ w.header >= header /\ v.decl = w.decl
                               /\ v.place \in TUs /\ w.place \in TUs
                               /\ v.decl \notin program.hidden)]_vars

-----------------------------------------------------------------------------
(* What the repository says of parsing, and the code does not keep. *)

\* WrappedElement.kt: "Don't add a method to a namespace when its already been
\* added to a class."  A method that its class lists has the class as parent.
MethodsKeepTheirClass ==
  \A c, m \in Decls : IsClass(c) /\ IsMethod(m) /\ m \in kids[c] => up[m] = c

=============================================================================
