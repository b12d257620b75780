-------------------------------- MODULE Naming --------------------------------
(***************************************************************************)
(* Names in the generated code: of C functions while classes are resolved  *)
(* (NameHandler), of variables while a function is written (Scope), and of *)
(* what a Kotlin file imports (ImportBlock).  Which names are wanted is    *)
(* arbitrary: different declarations may well want the same one.           *)
(*                                                                         *)
(* The first two make room by putting underscores before a name.  A name   *)
(* is its underscores and the rest, so that "_" before "a" and "_a" are    *)
(* the same name.  The third puts words together; a name is a sequence of  *)
(* words.                                                                  *)
(***************************************************************************)
EXTENDS Naturals, Sequences, Functions, FiniteSets

CONSTANTS
  Classes,
  Methods,      \* members of a class that are parsed
  Made,         \* members that resolving makes anew: sizeOf, alignOf, assignments
  Accessors,    \* getters and setters of its fields
  Words,        \* words that names are made of
  NoName,
  Wants,        \* names that they would have
  LocalWants,   \* names that variables would have
  FqNames,      \* what a file may refer to: packages and a name
  Digits,       \* what is tried behind a name: 0 to 4
  MaxAttempts,  \* bound: how often a class is resolved
  MaxScopes,    \* bound: how deep functions are nested
  MaxLocals,    \* bound: variables in a scope
  MaxImports    \* bound: what a file refers to

Word == [under : Nat, stem : Words]

ASSUME WordsAssumption == "" \in Words /\ "v" \in Words /\ "object" \in Words

ASSUME NamingAssumption ==
  /\ Wants \subseteq Word /\ LocalWants \subseteq Word /\ NoName \notin Word
  /\ Methods \cap Made = {} /\ Accessors \cap (Methods \cup Made) = {}
  /\ FqNames \subseteq [pkg : Seq(Words), name : Seq(Words)]
  /\ Digits \in Seq(Words) /\ MaxAttempts \in Nat /\ MaxScopes \in Nat
  /\ MaxLocals \in Nat /\ MaxImports \in Nat

\* No number is tried twice, and no package is called like one: a name does not
\* start with a digit.
ASSUME DigitsAssumption ==
  /\ \A i, j \in 1 .. Len(Digits) : Digits[i] = Digits[j] => i = j
  /\ \A fq \in FqNames :
       \A i \in 1 .. Len(fq.pkg), j \in 1 .. Len(Digits) : fq.pkg[i] # Digits[j]

\* A member of a class, as an object: a parsed one is the same at every attempt
\* to resolve the class, another one is made by an attempt.
Members == Methods \cup Made \cup Accessors
Keys == [class : Classes, member : Members, made : 0 .. MaxAttempts]
Wanted == [Classes -> [Members -> Wants]]

VARIABLES
  phase,     \* resolve, write, import, stopped
  want,      \* the name each member would have
  allNames,  \* NameHandler.allNames
  given,     \* NamerImpl.nameLookup of all classes
  attempts,  \* how often each class was resolved
  scopes,    \* the variables in each scope, the innermost last
  todo,      \* FqSymbols that the imports of a file are made for
  imports    \* the names they got

vars == <<phase, want, allNames, given, attempts, scopes, todo, imports>>

Nothing == [k \in Keys |-> NoName]

Init ==
  /\ phase = "resolve"
  /\ want \in Wanted
  /\ allNames = {}
  /\ given = Nothing
  /\ attempts = [c \in Classes |-> 0]
  /\ scopes = <<>>
  /\ todo = {}
  /\ imports = {}

\* Underscores are put before a name as long as it is used.
Free(name, used, new) ==
  /\ new.stem = name.stem /\ new.under >= name.under
  /\ new \notin used
  /\ \A u \in name.under .. (new.under - 1) : [under |-> u, stem |-> name.stem] \in used

\* Not more than there are used names.
Longer(name, used) ==
  {[under |-> name.under + n, stem |-> name.stem] : n \in 0 .. Cardinality(used)}

-----------------------------------------------------------------------------
(* NameHandler: names of C functions. *)

\* Another attempt to resolve a class makes some of its methods anew.
Resolve(c) ==
  /\ phase = "resolve" /\ attempts[c] < MaxAttempts
  /\ attempts' = [attempts EXCEPT ![c] = @ + 1]
  /\ UNCHANGED <<phase, want, allNames, given, scopes, todo, imports>>

\* The object that a member is in some attempt.
IsObject(k) ==
  /\ attempts[k.class] > 0
  /\ IF k.member \in Made THEN k.made \in 1 .. attempts[k.class] ELSE k.made = 0

\* Mutant of UsedBy: each class looks at its own names.
UsedByClass(k) == {given[o] : o \in {p \in Keys : p.class = k.class /\ given[p] # NoName}}

\* The names that the method k must not get.
UsedBy(k) == allNames

Give(k, name) == given' = [given EXCEPT ![k] = name]

\* Mutant of UniqueCName: a method is named whenever it is resolved.
UniqueCNameAgain(k) ==
  /\ phase = "resolve" /\ IsObject(k) /\ k.member \notin Accessors
  /\ \E new \in Longer(want[k.class][k.member], UsedBy(k)) :
       /\ Free(want[k.class][k.member], UsedBy(k), new)
       /\ Give(k, new)
       /\ allNames' = allNames \cup {new}
  /\ UNCHANGED <<phase, want, attempts, scopes, todo, imports>>

\* A method is given its name before its arguments are resolved: the name is
\* used even if the method, or the class, then fails to resolve.
UniqueCName(k) ==
  /\ phase = "resolve" /\ IsObject(k) /\ k.member \notin Accessors
  /\ given[k] = NoName
  /\ \E new \in Longer(want[k.class][k.member], UsedBy(k)) :
       /\ Free(want[k.class][k.member], UsedBy(k), new)
       /\ Give(k, new)
       /\ allNames' = allNames \cup {new}
  /\ UNCHANGED <<phase, want, attempts, scopes, todo, imports>>

\* uniqueCGetter and uniqueCSetter are not compared with anything.
AccessorName(k) ==
  /\ phase = "resolve" /\ IsObject(k) /\ k.member \in Accessors
  /\ given[k] = NoName
  /\ Give(k, want[k.class][k.member])
  /\ UNCHANGED <<phase, want, allNames, attempts, scopes, todo, imports>>

\* resolveAll is over, and the NameHandler with it.
StartWriting ==
  /\ phase = "resolve"
  /\ phase' = "write"
  /\ want' = [c \in Classes |-> [m \in Members |-> CHOOSE w \in Wants : TRUE]]
  /\ allNames' = {} /\ given' = Nothing
  /\ attempts' = [c \in Classes |-> 0]
  /\ scopes' = <<<<>>>>
  /\ UNCHANGED <<todo, imports>>

-----------------------------------------------------------------------------
(* Scope: names of variables and arguments. *)

\* Every scope uses it.
Object == [under |-> 0, stem |-> "object"]

\* Mutant of Visible: the scopes around this one are not asked.
VisibleHere == Range(scopes[Len(scopes)]) \cup {Object}

\* isUsed: names of this scope and those around it.
Visible == {Object} \cup UNION {Range(scopes[i]) : i \in 1 .. Len(scopes)}

\* The name that is asked for, or v in place of none.
Desired(name) ==
  IF name = [under |-> 0, stem |-> ""] THEN [under |-> 0, stem |-> "v"] ELSE name

AllocateName(name) ==
  /\ phase = "write" /\ Len(scopes[Len(scopes)]) < MaxLocals
  /\ \E new \in Longer(Desired(name), Visible) :
       /\ Free(Desired(name), Visible, new)
       /\ scopes' = [scopes EXCEPT ![Len(scopes)] = Append(@, new)]
  /\ UNCHANGED <<phase, want, allNames, given, attempts, todo, imports>>

PushScope ==
  /\ phase = "write" /\ Len(scopes) < MaxScopes
  /\ scopes' = Append(scopes, <<>>)
  /\ UNCHANGED <<phase, want, allNames, given, attempts, todo, imports>>

PopScope ==
  /\ phase = "write" /\ Len(scopes) > 1
  /\ scopes' = SubSeq(scopes, 1, Len(scopes) - 1)
  /\ UNCHANGED <<phase, want, allNames, given, attempts, todo, imports>>

-----------------------------------------------------------------------------
(* ImportBlock: names of what a file imports. *)

\* The text of the file is put together, the import block first.
StartImports ==
  /\ phase = "write" /\ Len(scopes) = 1
  /\ phase' = "import"
  /\ scopes' = <<>>
  /\ todo' \in {f \in SUBSET FqNames : Cardinality(f) <= MaxImports}
  /\ UNCHANGED <<want, allNames, given, attempts, imports>>

UsedNames == {i.name : i \in imports}

\* Mutant of LastCandidate: no numbers.
LastPackage(fq) == Len(fq.pkg)

LastCandidate(fq) == Len(fq.pkg) + Len(Digits)

\* The name; with the packages before it, one after the other; with a number.
Candidate(fq, i) ==
  IF i <= Len(fq.pkg) THEN SubSeq(fq.pkg, Len(fq.pkg) - i + 1, Len(fq.pkg)) \o fq.name
  ELSE fq.name \o <<Digits[i - Len(fq.pkg)]>>

Import(fq, name) ==
  /\ imports' = imports \cup {[fq |-> fq, name |-> name]}
  /\ todo' = todo \ {fq}
  /\ UNCHANGED <<phase, want, allNames, given, attempts, scopes>>

\* Mutant of SelectName: a name with a package is not compared.
SelectNameOnce(fq) ==
  /\ phase = "import" /\ fq \in todo
  /\ Import(fq, IF fq.name \in UsedNames THEN Candidate(fq, 1) ELSE fq.name)

\* selectName takes the first one that is free.
SelectName(fq) ==
  /\ phase = "import" /\ fq \in todo
  /\ \E i \in 0 .. LastCandidate(fq) :
       /\ Candidate(fq, i) \notin UsedNames
       /\ \A j \in 0 .. (i - 1) : Candidate(fq, j) \in UsedNames
       /\ Import(fq, Candidate(fq, i))

\* Too many conflicts: the generator stops.
CannotName(fq) ==
  /\ phase = "import" /\ fq \in todo
  /\ \A i \in 0 .. LastCandidate(fq) : Candidate(fq, i) \in UsedNames
  /\ phase' = "stopped"
  /\ UNCHANGED <<want, allNames, given, attempts, scopes, todo, imports>>

\* The next file.
EndFile ==
  /\ phase = "import" /\ todo = {}
  /\ phase' = "write"
  /\ scopes' = <<<<>>>>
  /\ imports' = {}
  /\ UNCHANGED <<want, allNames, given, attempts, todo>>

Next ==
  \/ \E c \in Classes : Resolve(c)
  \/ \E k \in Keys : UniqueCName(k) \/ AccessorName(k)
  \/ StartWriting
  \/ \E name \in LocalWants : AllocateName(name)
  \/ PushScope
  \/ PopScope
  \/ StartImports
  \/ \E fq \in FqNames : SelectName(fq) \/ CannotName(fq)
  \/ EndFile

Spec == Init /\ [][Next]_vars

-----------------------------------------------------------------------------
(* Properties. *)

\* All variables have their types, and there is a scope whenever one is needed.
TypeOK ==
  /\ phase \in {"resolve", "write", "import", "stopped"}
  /\ want \in Wanted
  /\ allNames \in SUBSET Word
  /\ given \in [Keys -> Word \cup {NoName}]
  /\ attempts \in [Classes -> 0 .. MaxAttempts]
  /\ scopes \in Seq(Seq(Word)) /\ (phase = "write" <=> scopes # <<>>)
  /\ todo \in SUBSET FqNames
  /\ imports \in SUBSET [fq : FqNames, name : Seq(Words)]

\* Two C functions have the same name only if one of them gets or sets a field:
\* names of methods (uniqueNameFor) differ in all classes, overloads, operators
\* and methods of earlier attempts to resolve a class included.
MethodNamesDiffer ==
  \A k, l \in Keys :
    k # l /\ given[k] = given[l] /\ given[k] # NoName =>
      k.member \in Accessors \/ l.member \in Accessors

\* A name is given for good (nameLookup): a class that is resolved once more
\* declares its methods by the names that callers may have taken from it.
NamesStay ==
  [][\A k \in Keys : phase' = "resolve" /\ given[k] # NoName => given'[k] = given[k]]_vars

\* No variable hides one that was there when it was named, in its scope or around
\* it (Scope.allocateName), and none is called object.  Of scopes only those are
\* compared that are open together.
LocalsDiffer ==
  \A i, j \in 1 .. Len(scopes) : \A p \in 1 .. Len(scopes[i]), q \in 1 .. Len(scopes[j]) :
    /\ scopes[i][p] # Object
    /\ scopes[i][p] = scopes[j][q] => i = j /\ p = q

\* In a file, no two names mean the same (ImportBlock.handleDuplicates).
ImportsDiffer == \A a, b \in imports : a.name = b.name => a.fq = b.fq

\* The generator stops over imports only when there are more of them than
\* packages and numbers to tell them apart by.
StopsLate ==
  phase = "stopped" =>
    \E fq \in todo : Cardinality(imports) > Len(fq.pkg) + Len(Digits)

=============================================================================
