-------------------------------- MODULE Output --------------------------------
(***************************************************************************)
(* The end of writeTo (IndexedServiceImpl.kt and the writers): a C header, *)
(* the C++ code behind it, the cinterop definition and the compiled        *)
(* library are put into the output directory, then one Kotlin file for     *)
(* each class and one for the functions.  The directory outlives the       *)
(* process: a run that failed or was killed leaves what it had written,    *)
(* and the next one starts from there, with whatever classes there are     *)
(* then.  Nobody looks at the results of fclose and of remove: a file may  *)
(* lose text, and an old file may stay, in a run that succeeds.            *)
(*                                                                         *)
(* What a file says is the sequence of the things it declares, defines or  *)
(* calls: a method of a class, the getter and the setter of its field, a   *)
(* function.  (Bound: one method and at most one field in each class, all  *)
(* functions in one namespace, no class that needs the callback router.)   *)
(***************************************************************************)
EXTENDS Naturals, Sequences, FiniteSets, SequencesExt, FiniteSetsExt

CONSTANTS
  MaxClasses,    \* bound: classes 1 .. MaxClasses
  MaxFunctions,  \* bound: functions 1 .. MaxFunctions
  NoFault        \* no writer throws

ASSUME OutputAssumption == MaxClasses \in Nat /\ MaxFunctions \in Nat

Classes == 1 .. MaxClasses
NoClass == 0
Functions == 1 .. MaxFunctions

Method(c) == [what |-> "method", of |-> c]
Get(c) == [what |-> "get", of |-> c]
Set(c) == [what |-> "set", of |-> c]
Function(f) == [what |-> "function", of |-> f]
Companion(c) == [what |-> "companion", of |-> c]

Items == {Method(c) : c \in Classes} \cup {Get(c) : c \in Classes}
         \cup {Set(c) : c \in Classes} \cup {Function(f) : f \in Functions}

Writers == {"header", "cpp", "kotlin"}

\* The files, in the order in which they are written: class c is written to
\* the Kotlin file Kt(c), the functions to FunctionsKt.
Header == 1
Cpp == 2
Def == 3
Library == 4
Kt(c) == 4 + c
FunctionsKt == 5 + MaxClasses
Files == 1 .. FunctionsKt
KotlinFiles == {f \in Files : f > Library}

\* There is no such file; a file that an earlier run left, whole or not; one of
\* those that this run has failed to remove; a file that was truncated and not
\* yet written; a file of this run; one that lost text when it was closed (bound:
\* what is left of the text is not looked at).
NotThere == [is |-> "absent", says |-> <<>>]
Old == [is |-> "old", says |-> <<>>]
Kept == [is |-> "kept", says |-> <<>>]
Opened == [is |-> "opened", says |-> <<>>]
Whole(text) == [is |-> "whole", says |-> text]
Cut == [is |-> "cut", says |-> <<>>]

\* What resolving and mappings leave to generate: some classes, each perhaps
\* with a base class, which need not be among them, and with a field, and
\* some functions.
Inputs ==
  {i \in [classes : SUBSET Classes, base : [Classes -> Classes \cup {NoClass}],
          fields : SUBSET Classes, functions : SUBSET Functions] :
     /\ i.fields \subseteq i.classes
     /\ \A c \in Classes : i.base[c] < c /\ (c \notin i.classes => i.base[c] = NoClass)}

\* The things of an input that the C and C++ writers come to.
PiecesOf(i) ==
  {Method(c) : c \in i.classes} \cup {Get(c) : c \in i.fields}
  \cup {Set(c) : c \in i.fields} \cup {Function(f) : f \in i.functions}

\* What goes wrong in a run: a writer throws at one thing (bound), or the Kotlin
\* writer at the companion object of a class, where sizeOf and alignOf are
\* demanded (mappings can remove them) and the destructor's name.
FaultsOf(i) ==
  {NoFault} \cup (Writers \X PiecesOf(i)) \cup ({"kotlin"} \X {Companion(c) : c \in i.classes})

NoInput ==
  [classes |-> {}, base |-> [c \in Classes |-> NoClass], fields |-> {}, functions |-> {}]

VARIABLES
  dir,    \* the output directory: the content of each file
  phase,  \* idle, open (before a file), write (in it), clean, done, failed
  file,   \* the file this run has come to
  input,  \* what this run generates
  fault,  \* what its writers throw at
  policy  \* config.errorPolicy

vars == <<dir, phase, file, input, fault, policy>>

Init ==
  /\ dir = [f \in Files |-> NotThere]
  /\ phase = "idle"
  /\ file = Header
  /\ input = NoInput
  /\ fault = NoFault
  /\ policy = "FAIL"

-----------------------------------------------------------------------------
(* What the writers make of the input. *)

\* The numbers in S, in their order.
InOrder(S) ==
  CHOOSE s \in [1 .. Cardinality(S) -> S] : \A i, j \in DOMAIN s : i < j => s[i] < s[j]

Pieces == PiecesOf(input)

Throws(w, item) == fault = <<w, item>>

\* One piece of a class: written unless the writer throws at it.
Piece(w, item) == IF Throws(w, item) THEN <<>> ELSE <<item>>

\* A field in C: a getter and then a setter, which is not reached when the
\* getter throws.
Field(w, c) == IF Throws(w, Get(c)) THEN <<>> ELSE <<Get(c)>> \o Piece(w, Set(c))

\* Mutant of ClassPieces: the policy is asked for the class as a whole.
ClassPiecesAtOnce(w, c) ==
  IF \E i \in Pieces : i.what # "function" /\ i.of = c /\ Throws(w, i)
    THEN <<>> ELSE <<Method(c)>> \o (IF c \in input.fields THEN Field(w, c) ELSE <<>>)

\* A class in C or C++: its methods, then its fields.
ClassPieces(w, c) ==
  Piece(w, Method(c)) \o (IF c \in input.fields THEN Field(w, c) ELSE <<>>)

\* The functions, in C or C++.
FunctionPieces(w, f) == Piece(w, Function(f))

\* CodeGenerator.generate: all classes, then all functions.
Module(w) ==
  FlattenSeq([n \in 1 .. Cardinality(input.classes) |-> ClassPieces(w, InOrder(input.classes)[n])])
  \o FlattenSeq([n \in 1 .. Cardinality(input.functions) |->
                   FunctionPieces(w, InOrder(input.functions)[n])])

\* A field in Kotlin: one property, getter and setter or nothing.
Property(c) ==
  IF c \notin input.fields \/ Throws("kotlin", Get(c)) \/ Throws("kotlin", Set(c))
    THEN <<>> ELSE <<Get(c), Set(c)>>

\* The classes above c that are there, from the next one on.
Bases(c) ==
  LET bases[d \in Classes] ==
        LET b == input.base[d]
        IN  IF b \in input.classes THEN <<b>> \o bases[b] ELSE <<>>
  IN  bases[c]

\* error("Can't find specified base class ..."): one of the classes above c
\* is not generated.
BaseMissing(c) ==
  LET last == IF Bases(c) = <<>> THEN c ELSE Last(Bases(c))
  IN  input.base[last] # NoClass

\* What costs the whole Kotlin class.
ClassFails(c) == BaseMissing(c) \/ Throws("kotlin", Companion(c))

\* The class below the nth class above c.
Below(c, n) == IF n = 1 THEN c ELSE Bases(c)[n - 1]

\* Mutant of Inherited: methods, too, are those of the class below.
InheritedFromBelow(c) ==
  FlattenSeq([n \in 1 .. Len(Bases(c)) |->
                Piece("kotlin", Method(Below(c, n))) \o Property(Below(c, n))])

\* handleSuperClassesRecursive: for each class above, its methods, and the
\* fields of the class below it.
Inherited(c) ==
  FlattenSeq([n \in 1 .. Len(Bases(c)) |->
                Piece("kotlin", Method(Bases(c)[n])) \o Property(Below(c, n))])

\* Mutant of KotlinClass: a companion object that fails is left out alone.
KotlinClassWithoutCompanion(c) ==
  IF BaseMissing(c) THEN <<>>
  ELSE Inherited(c) \o Piece("kotlin", Method(c)) \o Property(c)

\* The Kotlin file of c.  The block of a class is added when it is complete:
\* when the class fails, in whatever part, the file is there without it.
KotlinClass(c) ==
  IF ClassFails(c) THEN <<>>
  ELSE Inherited(c) \o Piece("kotlin", Method(c)) \o Property(c)

\* What goes into a file.
Content(f) ==
  CASE f = Header -> Module("header")
    [] f = Cpp -> Module("cpp")
    [] f = Def -> <<>>
    [] f = FunctionsKt -> [n \in 1 .. Cardinality(input.functions) |->
                             Function(InOrder(input.functions)[n])]
    [] OTHER -> KotlinClass(f - Library)

\* What the Kotlin writer comes to in the file of class c.
Reached(c) ==
  LET bases == Range(Bases(c))
      below == {c} \cup {Below(c, n) : n \in DOMAIN Bases(c)}
  IN  {Method(d) : d \in bases \cup {c}} \cup {Get(d) : d \in below} \cup {Set(d) : d \in below}

ThrowsIn(w, S) == \E i \in S \cap Pieces : Throws(w, i)

\* Mutant of Escapes: the C++ writer is not given config.errorPolicy.
EscapesButCpp(f) ==
  CASE f = Header -> policy = "FAIL" /\ ThrowsIn("header", Pieces)
    [] f \in {Cpp, Def} -> FALSE
    [] f = FunctionsKt -> ThrowsIn("kotlin", {Function(g) : g \in Functions})
    [] OTHER -> /\ policy = "FAIL"
                /\ ClassFails(f - Library) \/ ThrowsIn("kotlin", Reached(f - Library))

\* Whether an exception comes out of the generator of a file.  LogPolicy takes
\* it at the method, field or class, but there is no policy around functions
\* in Kotlin.
Escapes(f) ==
  CASE f = Header -> policy = "FAIL" /\ ThrowsIn("header", Pieces)
    [] f = Cpp -> policy = "FAIL" /\ ThrowsIn("cpp", Pieces)
    [] f = Def -> FALSE
    [] f = FunctionsKt -> ThrowsIn("kotlin", {Function(g) : g \in Functions})
    [] OTHER -> /\ policy = "FAIL"
                /\ ClassFails(f - Library) \/ ThrowsIn("kotlin", Reached(f - Library))

-----------------------------------------------------------------------------
(* One run. *)

\* Whether this run writes the file.
Wanted(f) ==
  \/ f <= Library
  \/ f = FunctionsKt /\ input.functions # {}
  \/ \E c \in input.classes : f = Kt(c)

\* The run comes to the next of its files after f; the Kotlin files that are
\* there are deleted before the first one.
GoOn(f) ==
  LET rest == {g \in Files : g > f /\ Wanted(g)}
  IN  \/ rest = {} /\ phase' = "done" /\ UNCHANGED file
      \/ \E g \in rest : (\A h \in rest : g <= h) /\ phase' = "open" /\ file' = g

\* writeTo has come to the output, in this process or in a later one.
Start ==
  /\ phase = "idle"
  /\ \E i \in Inputs : input' = i /\ fault' \in FaultsOf(i)
  /\ policy' \in {"FAIL", "LOG"}
  /\ phase' = "open"
  /\ UNCHANGED <<dir, file>>

\* The run is over, and nothing remembers it but the directory.
Leave ==
  /\ phase \in {"done", "failed"}
  /\ dir' = [f \in Files |-> IF dir[f] = NotThere THEN NotThere ELSE Old]
  /\ phase' = "idle"
  /\ file' = Header
  /\ input' = NoInput
  /\ fault' = NoFault
  /\ policy' = "FAIL"

\* The text of the file is generated, then the file is opened, which truncates
\* it: fopen(path, "w").
Open ==
  /\ phase = "open" /\ file # Library
  /\ ~Escapes(file)
  /\ dir' = [dir EXCEPT ![file] = Opened]
  /\ phase' = "write"
  /\ UNCHANGED <<file, input, fault, policy>>

\* Generating throws, or the file cannot be opened: writeTo fails.
OpenFails ==
  /\ phase = "open" /\ file # Library
  /\ phase' = "failed"
  /\ UNCHANGED <<dir, file, input, fault, policy>>

\* writeText: fputs, and fclose when the scope is left.
Write ==
  /\ phase = "write"
  /\ dir' = [dir EXCEPT ![file] = Whole(Content(file))]
  /\ GoOn(file)
  /\ UNCHANGED <<input, fault, policy>>

\* Text that fputs left in the buffer is lost in fclose, whose result is ignored:
\* the run goes on.
WriteLoses ==
  /\ phase = "write"
  /\ dir' = [dir EXCEPT ![file] = Cut]
  /\ GoOn(file)
  /\ UNCHANGED <<input, fault, policy>>

\* The compiler makes the library of the C++ code as it finds it; then the Kotlin
\* writer begins with what is in its directory.
Compile ==
  /\ phase = "open" /\ file = Library
  /\ dir' = [dir EXCEPT ![Library] = dir[Cpp]]
  /\ phase' = "clean"
  /\ UNCHANGED <<file, input, fault, policy>>

\* Mutant of CompileFails: the compiler's result is not looked at.
CompileFailsAndGoesOn ==
  /\ phase = "open" /\ file = Library
  /\ dir' \in {dir, [dir EXCEPT ![Library] = NotThere]}
  /\ phase' = "clean"
  /\ UNCHANGED <<file, input, fault, policy>>

\* require(result == 0): the compiler fails, and keeps or removes the library.
CompileFails ==
  /\ phase = "open" /\ file = Library
  /\ dir' \in {dir, [dir EXCEPT ![Library] = NotThere]}
  /\ phase' = "failed"
  /\ UNCHANGED <<file, input, fault, policy>>

\* The Kotlin files that the loop over the directory has still to come to.
Remaining == {f \in KotlinFiles : dir[f] \notin {NotThere, Kept}}

Delete(f) ==
  /\ phase = "clean"
  /\ f \in Remaining
  /\ dir' = [dir EXCEPT ![f] = NotThere]
  /\ UNCHANGED <<phase, file, input, fault, policy>>

\* remove fails, or opendir did and listed nothing: neither is noticed.
DeleteFails(f) ==
  /\ phase = "clean"
  /\ f \in Remaining
  /\ dir' = [dir EXCEPT ![f] = Kept]
  /\ UNCHANGED <<phase, file, input, fault, policy>>

\* Mutant of Cleaned: the loop over the files is left out.
CleanedNothing ==
  /\ phase = "clean"
  /\ GoOn(Library)
  /\ UNCHANGED <<dir, input, fault, policy>>

Cleaned ==
  /\ phase = "clean"
  /\ Remaining = {}
  /\ GoOn(Library)
  /\ UNCHANGED <<dir, input, fault, policy>>

\* The process is killed, or fputs fails, which throws.
Crash ==
  /\ phase \in {"open", "write", "clean"}
  /\ phase' = "failed"
  /\ UNCHANGED <<dir, file, input, fault, policy>>

Next ==
  \/ Start
  \/ Leave
  \/ Open
  \/ OpenFails
  \/ Write
  \/ WriteLoses
  \/ Compile
  \/ CompileFails
  \/ \E f \in KotlinFiles : Delete(f)
  \/ \E f \in KotlinFiles : DeleteFails(f)
  \/ Cleaned
  \/ Crash

Spec == Init /\ [][Next]_vars

-----------------------------------------------------------------------------
(* Properties. *)

Present(f) == dir[f].is = "whole"
Lost(f) == dir[f].is = "cut"
Says(f, item) == item \in Range(dir[f].says)

TypeOK ==
  /\ DOMAIN dir = Files
  /\ \A f \in Files : /\ dir[f] \in {NotThere, Old, Kept, Opened, Whole(dir[f].says), Cut}
                      /\ Range(dir[f].says) \subseteq Items
  /\ phase \in {"idle", "open", "write", "clean", "done", "failed"}
  /\ file \in Files
  /\ input \in Inputs
  /\ fault \in FaultsOf(input)
  /\ policy \in {"FAIL", "LOG"}

\* When writeTo returns, every file of this run was written by this run, to the
\* end unless closing that very file lost text, and no other file is there but
\* those that remove failed on in this run: whatever earlier runs left, files of
\* classes that are gone, files of runs that were killed or failed halfway.
OutputIsThisRuns ==
  phase = "done" =>
    \A f \in Files : IF Wanted(f) THEN Present(f) \/ Lost(f) ELSE dir[f] \in {NotThere, Kept}

\* With the error policy FAIL every function that the Kotlin files call is
\* declared in the header and defined in the library, unless the header or the
\* C++ file lost text when it was closed.
CallsAreDefined ==
  phase = "done" /\ policy = "FAIL" =>
    \A f \in KotlinFiles : Wanted(f) =>
      \A i \in Range(dir[f].says) :
        (Lost(Header) \/ Says(Header, i)) /\ (Lost(Library) \/ Says(Library, i))

\* With LOG a thing that a writer in C or C++ throws at costs that thing only
\* (a getter also its setter): all others are in that writer's output.  In Kotlin
\* a method that fails costs itself, and of the classes only those are not there
\* whose base is missing or whose companion object fails.
OnlyFailuresAreMissing ==
  phase = "done" =>
    \A i \in Pieces :
      /\ (i.what = "set" => ~Throws("header", Get(i.of))) /\ ~Throws("header", i) =>
           Lost(Header) \/ Says(Header, i)
      /\ (i.what = "set" => ~Throws("cpp", Get(i.of))) /\ ~Throws("cpp", i) =>
           Lost(Library) \/ Says(Library, i)
      /\ i.what = "method" /\ ~Throws("kotlin", i) =>
           Lost(Kt(i.of)) \/ (Says(Kt(i.of), i) <=> ~ClassFails(i.of))
      /\ i.what = "function" => Lost(FunctionsKt) \/ Says(FunctionsKt, i)

\* Methods are inherited: the Kotlin class has those of every class above it.
MethodsAreInherited ==
  phase = "done" =>
    \A c \in input.classes : ~ClassFails(c) =>
      \A n \in DOMAIN Bases(c) : ~Throws("kotlin", Method(Bases(c)[n])) =>
        Lost(Kt(c)) \/ Says(Kt(c), Method(Bases(c)[n]))

\* The Kotlin sources in the directory never are ahead of the library: a Kotlin
\* file of this run means that this run compiled the library they call into.
LibraryComesFirst ==
  (\E f \in KotlinFiles : dir[f].is \in {"opened", "whole", "cut"}) =>
     \A f \in {Header, Cpp, Def, Library} : Present(f) \/ Lost(f)

===============================================================================
