------------------------------ MODULE Resolver ------------------------------
(***************************************************************************)
(* Resolving (Resolver.kt, and resolve() of the Wrapped* elements): the    *)
(* parsed classes a filter selected become Resolved* classes, and every    *)
(* type a class refers to is mapped on the way, which resolves the classes *)
(* that it names first.  References may be cyclic: a class that is being   *)
(* resolved is taken to resolve.                                           *)
(*                                                                         *)
(* The recursion is the machine's stack, whose frames are calls of         *)
(* ResolveContext.map (a type is mapped) and of WrappedClass.resolve.      *)
(* A parsed class is what resolving looks at: its base class, one class    *)
(* that is nested in it (bound), and one method after that (bound), by the *)
(* types of its return value and arguments.  findClasses selects a nested  *)
(* class like any other, and resolve() of the outer class resolves it once *)
(* more, as a child: by a direct call, that looks at no marks and records  *)
(* nothing.                                                                *)
(***************************************************************************)
EXTENDS Naturals, FiniteSets, Sequences, FiniteSetsExt

CONSTANTS
  Names,       \* class names
  NoName,      \* no class
  Wanted,      \* the values of ReferencePolicy looked at, and for each of
               \* them (bound) how many classes the filter may select
  MaxRefs,     \* bound: types in one method
  MaxEdges     \* bound: references and nested classes in all classes together

AllPolicies == {"IGNORE_MISSING", "OPAQUE_MISSING", "THROW_MISSING", "INCLUDE_MISSING"}

ASSUME ResolverAssumption ==
  /\ NoName \notin Names
  /\ DOMAIN Wanted \subseteq AllPolicies
  /\ \A p \in DOMAIN Wanted : Wanted[p] \subseteq 0 .. Cardinality(Names)
  /\ {MaxRefs, MaxEdges} \subseteq Nat

\* A type is a class by value or behind a pointer, one that can never be
\* resolved (WrappedType.UNRESOLVABLE), or void and its like, which always are.
Plain(c) == [name |-> c, pointer |-> FALSE]
Pointer(c) == [name |-> c, pointer |-> TRUE]
Unresolvable == Plain(NoName)
Native == Pointer(NoName)
Types == [name : Names, pointer : BOOLEAN] \cup {Unresolvable, Native}

\* A parsed class: its base class, the class that is nested in it, and the
\* return type and the arguments of its method, of which those after the first
\* needed types have defaults.  There are no types when there is no method.
Contents ==
  {k \in [base : Names \cup {NoName},
          nested : Names \cup {NoName},
          refs : UNION {[1 .. n -> Types] : n \in 0 .. MaxRefs},
          needed : 0 .. MaxRefs] :
     /\ IF k.refs = <<>> THEN k.needed = 0 ELSE k.needed \in 1 .. Len(k.refs)
     /\ \A i \in 2 .. Len(k.refs) : k.refs[i] # Native}

Edges(k) == Cardinality({i \in DOMAIN k.refs : k.refs[i] # Native})
            + Cardinality({k.base, k.nested} \ {NoName})
ContentsOf == [n \in 0 .. MaxEdges |-> {k \in Contents : Edges(k) = n}]

\* WrappedClass.isNotEmpty; a nested class counts, whatever is in it.
HasContent(k) == k.base # NoName \/ k.nested # NoName \/ k.refs # <<>>

\* A map m after m[k] = v.
Put(m, k, v) == [x \in DOMAIN m \cup {k} |-> IF x = k THEN v ELSE m[x]]

VARIABLES
  phase,      \* parsing, resolving, done, failed
  policy,     \* config.referencePolicy
  content,    \* the parsed classes
  todo,       \* the filtered classes that resolveAll has still to visit
  classes,    \* ResolveTracker.classes: names that canResolve knows a class for
  resolved,   \* ResolveTracker.resolvedClasses
  inProgress, \* ResolveTracker.otherResolved
  cache,      \* ResolveContext.mappingCache
  found,      \* ParsedResolver.classMap
  stack,      \* the calls under way, innermost first
  answer,     \* what the innermost call returned, or "none"
  made,       \* the class it returned
  prepared    \* how often modifyMethodsIfNeeded ran on each class

vars == <<phase, policy, content, todo, classes, resolved, inProgress, cache, found,
          stack, answer, made, prepared>>

\* A resolved class: whether it has a base, its nested class and its method,
\* and the classes that base and method refer to.
Nothing == [base |-> FALSE, nested |-> FALSE, method |-> FALSE, refs |-> {}]

\* ResolvedClass.isNotEmpty.
NotEmpty(r) == r.base \/ r.nested \/ r.method

Init ==
  /\ phase = "parsing"
  /\ policy \in DOMAIN Wanted
  /\ content = <<>>
  /\ todo = {}
  /\ classes = {}
  /\ resolved = <<>>
  /\ inProgress = {}
  /\ cache = <<>>
  /\ found = <<>>
  /\ stack = <<>>
  /\ answer = "none"
  /\ made = Nothing
  /\ prepared = [c \in Names |-> 0]

-----------------------------------------------------------------------------
(* Before resolving: parsing and filtering. *)

\* The class d can be the one nested in another: nothing else is outside of it,
\* or inside of it (bound: nested one deep), and no class that was complete
\* before the outer one derives from it.
Nestable(d) ==
  /\ d \in DOMAIN content /\ content[d].nested = NoName
  /\ \A x \in DOMAIN content : content[x].nested # d /\ content[x].base # d

\* The headers declare a class, after its base class and with the class that
\* is nested in it (bound: MaxEdges references in all).
Parse ==
  /\ phase = "parsing"
  /\ \E n \in 0 .. MaxEdges :
        /\ n + MapThenSumSet(LAMBDA d : Edges(content[d]), DOMAIN content) <= MaxEdges
        /\ \E c \in Names \ DOMAIN content : \E k \in ContentsOf[n] :
              /\ k.base \in (DOMAIN content \ {k.nested}) \cup {NoName}
              /\ k.nested = NoName \/ Nestable(k.nested)
              /\ content' = Put(content, c, k)
  /\ UNCHANGED <<phase, policy, todo, classes, resolved, inProgress, cache, found,
                 stack, answer, made, prepared>>

\* resolveAll starts on what findClasses selected, with a tracker and a
\* cache of its own.
ResolveAll ==
  /\ phase = "parsing"
  /\ DOMAIN content = Names
  /\ phase' = "resolving"
  /\ \E S \in SUBSET Names :
        /\ Cardinality(S) \in Wanted[policy]
        /\ todo' = S
        /\ classes' = S
  /\ UNCHANGED <<policy, content, resolved, inProgress, cache, found, stack, answer, made,
                 prepared>>

-----------------------------------------------------------------------------
(* Calls and returns. *)

Top == Head(stack)
Running(kind, stage) ==
  phase = "resolving" /\ stack # <<>> /\ Top.kind = kind /\ Top.stage = stage

\* A call of map: its type, and the mark it left in otherResolved.
MapFrame(t) ==
  [kind |-> "map", stage |-> "can", type |-> t, mark |-> t, cls |-> NoName, at |-> 0,
   over |-> {}, refs |-> {}, lost |-> FALSE]

\* A call of resolve on a class: the next reference to map, the base class it
\* refers to, what the method refers to so far, and whether the nested class
\* did not resolve.
ClassFrame(c) ==
  [kind |-> "class", stage |-> "resolve", type |-> Plain(c), mark |-> Plain(c), cls |-> c,
   at |-> 1, over |-> {}, refs |-> {}, lost |-> FALSE]

\* The call in front of the stack rest returns v.
Return(rest, v) == stack' = rest /\ answer' = v

\* map(t): from the cache, or by a new call.
Map(rest, t) ==
  IF t \in DOMAIN cache
    THEN Return(rest, cache[t])
    ELSE stack' = <<MapFrame(t)>> \o rest /\ answer' = "none"

\* Mutant of Mapped: the cache is keyed by the class, not by the type.
MappedByName(v) == Return(Tail(stack), v) /\ cache' = Put(cache, Top.type.name, v)

\* The innermost map returns v, and caches it.
Mapped(v) == Return(Tail(stack), v) /\ cache' = Put(cache, Top.type, v)

\* Mutant of Visit: a class stays to be visited until it is resolved.
VisitUntilResolved(c) ==
  /\ phase = "resolving" /\ stack = <<>> /\ answer = "none"
  /\ c \in todo
  /\ todo' = IF c \in DOMAIN resolved THEN todo \ {c} ELSE todo
  /\ Map(<<>>, Plain(c))
  /\ UNCHANGED <<phase, policy, content, classes, resolved, inProgress, cache, found, made,
                 prepared>>

\* resolveAll goes on with another of the filtered classes.
Visit(c) ==
  /\ phase = "resolving" /\ stack = <<>> /\ answer = "none"
  /\ c \in todo
  /\ todo' = todo \ {c}
  /\ Map(<<>>, Plain(c))
  /\ UNCHANGED <<phase, policy, content, classes, resolved, inProgress, cache, found, made,
                 prepared>>

\* A class that does not resolve is logged only; an exception ends resolveAll.
Visited ==
  /\ phase = "resolving" /\ stack = <<>> /\ answer # "none"
  /\ phase' = IF answer = "Throw" THEN "failed" ELSE phase
  /\ answer' = "none"
  /\ UNCHANGED <<policy, content, todo, classes, resolved, inProgress, cache, found, stack,
                 made, prepared>>

AllVisited ==
  /\ phase = "resolving" /\ stack = <<>> /\ answer = "none" /\ todo = {}
  /\ phase' = "done"
  /\ UNCHANGED <<policy, content, todo, classes, resolved, inProgress, cache, found, stack,
                 answer, made, prepared>>

-----------------------------------------------------------------------------
(* ResolveTracker.canResolve, and typeMapper for its answer. *)

\* Mutant of Knows: a class that is being resolved is not there yet.
KnowsNoCycles(c) ==
  IF Plain(c) \in inProgress THEN "no"
  ELSE IF c \in DOMAIN resolved THEN (IF NotEmpty(resolved[c]) THEN "yes" ELSE "no")
  ELSE IF c \in classes /\ HasContent(content[c]) THEN "open"
  ELSE "no"

\* Mutant of Knows: what was resolved already is not looked up.
KnowsNoResolved(c) ==
  IF Plain(c) \in inProgress THEN "yes"
  ELSE IF c \in classes /\ HasContent(content[c]) THEN "open"
  ELSE "no"

\* What canResolve knows of the class c of a type: being resolved counts as
\* resolvable; "open" means that it resolves the class to find out.
Knows(c) ==
  IF Plain(c) \in inProgress THEN "yes"
  ELSE IF c \in DOMAIN resolved THEN (IF NotEmpty(resolved[c]) THEN "yes" ELSE "no")
  ELSE IF c \in classes /\ HasContent(content[c]) THEN "open"
  ELSE "no"

\* Mutant of OnMissing: THROW_MISSING removes, OPAQUE_MISSING does for values.
OnMissingLenient ==
  IF policy = "OPAQUE_MISSING" /\ Top.type.pointer THEN Mapped("Opaque") ELSE Mapped("Remove")

\* What typeMapper makes of a type that cannot be resolved.
OnMissing ==
  CASE policy = "IGNORE_MISSING" -> Mapped("Remove")
    [] policy = "OPAQUE_MISSING" -> Mapped("Opaque")
    [] policy = "THROW_MISSING"  -> Return(Tail(stack), "Throw") /\ UNCHANGED cache
    [] policy = "INCLUDE_MISSING" ->
         /\ stack' = <<[Top EXCEPT !.stage = "include"]>> \o Tail(stack)
         /\ answer' = "none"
         /\ UNCHANGED cache

\* Mutant of Unmarked: the mark stays when the class does not resolve.
UnmarkedOnSuccess == IF answer = "class" THEN inProgress \ {Top.mark} ELSE inProgress

\* The marks when the class has been resolved, or has failed to.
Unmarked == inProgress \ {Top.mark}

\* canResolve on a class nobody has resolved yet marks it and resolves it.
CanResolve ==
  /\ Running("map", "can") /\ answer = "none"
  /\ LET c == Top.type.name
     IN  CASE Knows(c) = "yes" -> Mapped("Unchanged") /\ UNCHANGED inProgress
           [] Knows(c) = "no" -> OnMissing /\ UNCHANGED inProgress
           [] Knows(c) = "open" ->
                /\ inProgress' = inProgress \cup {Plain(c)}
                /\ stack' = <<ClassFrame(c), [Top EXCEPT !.mark = Plain(c)]>> \o Tail(stack)
                /\ UNCHANGED <<answer, cache>>
  /\ UNCHANGED <<phase, policy, content, todo, classes, resolved, found, made, prepared>>

\* canResolve after that class: it is recorded, empty or not, unless it
\* failed; the mark is taken back in any case, also for an exception.
CanResolved ==
  /\ Running("map", "can") /\ answer # "none"
  /\ inProgress' = Unmarked
  /\ resolved' = IF answer = "class" THEN Put(resolved, Top.type.name, made) ELSE resolved
  /\ CASE answer = "Throw" -> Return(Tail(stack), "Throw") /\ UNCHANGED cache
       [] answer = "class" /\ NotEmpty(made) -> Mapped("Unchanged")
       [] answer = "null" \/ (answer = "class" /\ ~NotEmpty(made)) -> OnMissing
  /\ UNCHANGED <<phase, policy, content, todo, classes, found, made, prepared>>

-----------------------------------------------------------------------------
(* INCLUDE_MISSING: the class is looked for in everything that was parsed. *)

\* Mutant of Declared: looks among the selected classes only.
DeclaredSelected(c) == c \in classes /\ HasContent(content[c])

\* A class the headers declare, with content, that the parsed resolver can
\* find; no template has the type's name.
Declared(c) == c \in Names /\ HasContent(content[c])

\* What including a resolved class does; an empty one is removed after all.
Include(c, r) ==
  IF NotEmpty(r)
    THEN /\ resolved' = Put(resolved, c, r)
         /\ classes' = classes \cup {c}
         /\ Mapped("Unchanged")
    ELSE Mapped("Remove") /\ UNCHANGED <<resolved, classes>>

\* The mark is the name of the type being mapped, "A*" for a pointer to A.
IncludeMissing ==
  /\ Running("map", "include") /\ answer = "none"
  /\ LET c == Top.type.name
     IN  IF c \in DOMAIN resolved \/ (c \notin DOMAIN found /\ ~Declared(c))
           THEN Mapped("Remove") /\ UNCHANGED <<resolved, classes, inProgress>>
           ELSE IF c \in DOMAIN found
             THEN Include(c, found[c]) /\ inProgress' = inProgress \ {Top.type}
             ELSE /\ inProgress' = inProgress \cup {Top.type}
                  /\ stack' = <<ClassFrame(c), [Top EXCEPT !.mark = Top.type]>> \o Tail(stack)
                  /\ UNCHANGED <<answer, cache, resolved, classes>>
  /\ UNCHANGED <<phase, policy, content, todo, found, made, prepared>>

Included ==
  /\ Running("map", "include") /\ answer # "none"
  /\ inProgress' = Unmarked
  /\ LET c == Top.type.name
     IN  IF answer = "class"
           THEN found' = Put(found, c, made) /\ Include(c, made)
           ELSE Mapped("Remove") /\ UNCHANGED <<found, resolved, classes>>
  /\ UNCHANGED <<phase, policy, content, todo, made, prepared>>

-----------------------------------------------------------------------------
(* WrappedClass.resolve and WrappedMethod.resolve. *)

\* A type that a method of c needs by value is mapped as a pointer, too.
Forms(t, role, c) ==
  IF t = Native THEN <<>>
  ELSE IF t.pointer \/ t = Unresolvable
    THEN <<[type |-> t, role |-> role, cls |-> c]>>
    ELSE <<[type |-> t, role |-> role, cls |-> c],
           [type |-> Pointer(t.name), role |-> role, cls |-> c]>>

\* What resolving c maps before its children: its base class, and itself.
Opening(c) ==
  (IF content[c].base = NoName THEN <<>>
   ELSE <<[type |-> Plain(content[c].base), role |-> "base", cls |-> c]>>)
  \o <<[type |-> Plain(c), role |-> "self", cls |-> c]>>

\* What its method maps: the return type, the receiver and the arguments.
OfMethod(c) ==
  LET k == content[c]
      arg[i \in 0 .. Len(k.refs)] ==
        IF i <= 1 THEN <<>>
        ELSE arg[i - 1] \o Forms(k.refs[i], IF i <= k.needed THEN "needed" ELSE "optional", c)
  IN  IF k.refs = <<>> THEN <<>>
      ELSE Forms(k.refs[1], "needed", c) \o <<[type |-> Pointer(c), role |-> "needed", cls |-> c]>>
           \o arg[Len(k.refs)]

\* What its nested class maps.
OfNested(c) ==
  LET d == content[c].nested
  IN  IF d = NoName THEN <<>> ELSE Opening(d) \o OfMethod(d)

\* The types that resolving c maps, in order, with the class they are for.
Asks(c) == Opening(c) \o OfNested(c) \o OfMethod(c)

\* Where it goes on after its nested class.
AfterNested(c) == Len(Opening(c)) + Len(OfNested(c)) + 1

\* Whether modifyMethodsIfNeeded runs at the question q, after the base
\* classes are found.
Prepares(q) == q.role = IF content[q.cls].base = NoName THEN "self" ELSE "base"

\* The class call ends with a resolved class; kept says whether its method
\* resolved too.
Finish(frame, kept) ==
  /\ made' = [base   |-> content[frame.cls].base # NoName,
              nested |-> content[frame.cls].nested # NoName /\ ~frame.lost,
              method |-> kept,
              refs   |-> frame.over \cup (IF kept THEN frame.refs ELSE {})]
  /\ Return(Tail(stack), "class")

\* The class call goes on with its n-th question.
GoOn(frame, n) ==
  stack' = <<[frame EXCEPT !.at = n]>> \o Tail(stack) /\ answer' = "none" /\ UNCHANGED made

\* resolve on a class maps the next type, or is done.
Ask ==
  /\ Running("class", "resolve") /\ answer = "none"
  /\ IF Top.at <= Len(Asks(Top.cls))
       THEN Map(stack, Asks(Top.cls)[Top.at].type) /\ UNCHANGED made
       ELSE Finish(Top, content[Top.cls].refs # <<>>)
  /\ UNCHANGED <<phase, policy, content, todo, classes, resolved, inProgress, cache, found,
                 prepared>>

\* What resolve on a class makes of the type it mapped.  A nested class that
\* does not resolve is left out, and one whose method does not is there
\* without it; either way the outer class goes on after it.
Asked ==
  /\ Running("class", "resolve") /\ answer # "none"
  /\ LET q == Asks(Top.cls)[Top.at]
         n == Top.at + 1
         own == q.cls = Top.cls
         whole == q.role \in {"base", "self"}
     IN  /\ CASE answer = "Throw" -> Return(Tail(stack), "Throw") /\ UNCHANGED made
              [] answer = "Remove" /\ own /\ whole -> Return(Tail(stack), "null") /\ UNCHANGED made
              [] answer = "Remove" /\ own /\ ~whole -> Finish(Top, q.role = "optional")
              [] answer = "Remove" /\ ~own -> GoOn([Top EXCEPT !.lost = whole], AfterNested(Top.cls))
              [] answer = "Opaque" ->
                   GoOn(Top, IF ~whole /\ Len(Forms(q.type, q.role, q.cls)) = 2 THEN n + 1 ELSE n)
              [] answer = "Unchanged" ->
                   GoOn(IF ~own THEN Top
                        ELSE IF q.role = "base" THEN [Top EXCEPT !.over = {q.type.name}]
                        ELSE IF q.type.pointer THEN [Top EXCEPT !.refs = @ \cup {q.type.name}]
                        ELSE Top, n)
         /\ prepared' = IF Prepares(q) /\ answer # "Throw"
                          THEN [prepared EXCEPT ![q.cls] = @ + 1] ELSE prepared
  /\ UNCHANGED <<phase, policy, content, todo, classes, resolved, inProgress, cache, found>>

-----------------------------------------------------------------------------

\* One step of resolving.
Step ==
  \/ \E c \in Names : Visit(c)
  \/ Visited
  \/ AllVisited
  \/ CanResolve
  \/ CanResolved
  \/ IncludeMissing
  \/ Included
  \/ Ask
  \/ Asked

Ended == phase \in {"done", "failed"} /\ UNCHANGED vars

Next == Parse \/ ResolveAll \/ Step \/ Ended

Spec == Init /\ [][Next]_vars

\* Resolving is sequential code.
FairSpec == Spec /\ WF_vars(Step)

-----------------------------------------------------------------------------
(* What resolving should find: the reference definition. *)

\* The references of a class's method that count in the world where exactly
\* the classes in S resolve: up to the first optional one that does not.
Holds(t, S) == t = Native \/ t.name \in S
MethodHolds(c, S) ==
  /\ content[c].refs # <<>>
  /\ \A i \in 1 .. content[c].needed : Holds(content[c].refs[i], S)

\* The classes of S that resolve, and not to nothing, if those in S do.
Supported(S) ==
  {c \in S : /\ content[c].base # NoName => content[c].base \in S
             /\ content[c].base # NoName \/ content[c].nested \in S \/ MethodHolds(c, S)}

\* The largest set of classes of which each is supported by the others.
Resolvable(S) ==
  LET after[n \in 0 .. Cardinality(Names)] ==
        IF n = 0 THEN S ELSE LET before == after[n - 1] IN Supported(before)
  IN  after[Cardinality(Names)]

\* What may be resolved at all: under INCLUDE_MISSING whatever is declared.
Available == IF policy = "INCLUDE_MISSING" THEN Names ELSE classes

Usable == {c \in DOMAIN resolved : NotEmpty(resolved[c])}

-----------------------------------------------------------------------------
(* Properties. *)

TypeOK ==
  /\ phase \in {"parsing", "resolving", "done", "failed"}
  /\ DOMAIN content \subseteq Names
  /\ todo \subseteq Names /\ classes \subseteq Names
  /\ DOMAIN resolved \subseteq Names /\ DOMAIN found \subseteq Names
  /\ inProgress \subseteq Types /\ DOMAIN cache \subseteq Types
  /\ \A t \in DOMAIN cache : cache[t] \in {"Unchanged", "Remove", "Opaque"}
  /\ answer \in {"none", "Unchanged", "Remove", "Opaque", "Throw", "class", "null"}
  /\ \A i \in DOMAIN stack : stack[i].kind \in {"map", "class"}

\* Marks do not outlive the call that set them, whichever way it ended.
MarksAreTakenBack == stack = <<>> => inProgress = {}

\* No class that could be resolved is lost: what each class refers to is
\* found, whatever cycles lead back to it and in whatever order the filtered
\* classes are visited.
NothingLost ==
  phase = "done" /\ policy # "OPAQUE_MISSING" =>
    (Resolvable(Available) \cap classes) \subseteq Usable

\* A class that comes out, and is not nested in another, was resolved once:
\* resolving adds methods to the parsed class (sizeOf, alignOf, a constructor),
\* so a second call, which a class that failed does get, would add them again,
\* and so does the call that a nested class gets from its outer class.
Alone(c) == \A d \in DOMAIN content : content[d].nested # c
ResolvedOnce ==
  policy # "INCLUDE_MISSING" => \A c \in Usable : Alone(c) => prepared[c] = 1

\* THROW_MISSING: when resolving ends without an exception, every filtered
\* class is there with its method whole, and all it refers to is.
ThrowLeavesNothingOut ==
  phase = "done" /\ policy = "THROW_MISSING" =>
    \A c \in classes : /\ c \in Usable
                       /\ resolved[c].refs \subseteq Usable
                       /\ \A i \in DOMAIN content[c].refs : Holds(content[c].refs[i], Usable)

\* OPAQUE_MISSING: a class keeps its method whatever that refers to.
OpaqueKeepsMethods ==
  phase = "done" /\ policy = "OPAQUE_MISSING" =>
    \A c \in DOMAIN resolved : resolved[c].method <=> content[c].refs # <<>>

\* Resolving ends, although references are cyclic.
ResolvingEnds == phase = "resolving" ~> phase \in {"done", "failed"}

-----------------------------------------------------------------------------
(* What the repository says, and the code does not keep. *)

\* README.md: "Resolving ensures references from the wrapped instances exist
\* before turning them into Resolved* classes."
ReferencesExist ==
  phase = "done" => \A c \in DOMAIN resolved : resolved[c].refs \subseteq DOMAIN resolved

=============================================================================
