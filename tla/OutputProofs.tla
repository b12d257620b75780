----------------------------- MODULE OutputProofs -----------------------------
(***************************************************************************)
(* What a run leaves in the output directory, for any number of classes    *)
(* and functions, any contents, faults and any number of runs before it:   *)
(* which files there are (IInv) and what they say (CInv).  Between the two *)
(* are lemmas about what the writers make of the input.                    *)
(***************************************************************************)
EXTENDS Output, InductionLemmas, FiniteSetTheorems, TLAPS

\* This run has not come to the file.
Untouched(f) == dir[f].is \notin {"opened", "whole", "cut"}

\* The run has written the file, and perhaps lost text in closing it.
Closed(f) == Present(f) \/ Lost(f)

\* The file is not there, or removing it has failed.
Gone(f) == dir[f] \in {NotThere, Kept}

\* The file is as it must be when the run is over.
Settled(f) == IF Wanted(f) THEN Closed(f) ELSE Gone(f)

\* In order, the run settles one file after the other; before it comes to the
\* Kotlin files, whatever is left of them is deleted, or cannot be.
DirInv ==
  /\ phase = "idle" => file = Header /\ \A f \in Files : Untouched(f)
  /\ phase = "write" => file # Library
  /\ phase \in {"open", "write"} =>
       /\ \A f \in Files : f < file => Settled(f)
       /\ file <= Library => \A f \in KotlinFiles : Untouched(f)
       /\ file > Library => \A f \in Files : f > file => Gone(f)
       /\ Wanted(file)
  /\ phase = "clean" =>
       /\ file = Library
       /\ \A f \in 1 .. Library : Closed(f)
       /\ \A f \in KotlinFiles : Untouched(f)
  /\ OutputIsThisRuns
  /\ LibraryComesFirst

IInv ==
  /\ dir = [f \in Files |-> dir[f]]
  /\ phase \in {"idle", "open", "write", "clean", "done", "failed"}
  /\ file \in Files
  /\ DirInv

-----------------------------------------------------------------------------

\* The numbers of the files.
LEMMA FileNumbers ==
  /\ Files = 1 .. (5 + MaxClasses) /\ MaxClasses \in Nat
  /\ \A f \in Files : f \in Nat /\ f >= 1
  /\ Library = 4 /\ 1 .. Library \subseteq Files
  /\ KotlinFiles \subseteq Files /\ \A f \in Files : f \in KotlinFiles <=> f > Library
  /\ \A f \in Files : f \in 1 .. Library <=> f <= Library
<1>1. MaxClasses \in Nat
  BY OutputAssumption
<1>2. Files = 1 .. (5 + MaxClasses)
  BY DEF Files, FunctionsKt
<1>3. 1 .. Library \subseteq Files
  BY <1>1, <1>2 DEF Library
<1> QED
  BY <1>1, <1>2, <1>3 DEF KotlinFiles, Library

\* Every run writes the first four files.
LEMMA FirstFilesAreWanted == \A f \in 1 .. Library : Wanted(f)
BY DEF Wanted, Library

LEMMA InitInv == Init => IInv
<1> SUFFICES ASSUME Init PROVE IInv
  OBVIOUS
<1>1. dir = [f \in Files |-> NotThere] /\ NotThere.is = "absent"
  BY DEF Init, NotThere
<1>2. file = Header /\ file \in Files
  BY FileNumbers DEF Init, Header, Library
<1>3. \A f \in Files : Untouched(f)
  BY <1>1 DEF Untouched
<1>4. LibraryComesFirst
  BY <1>3 DEF LibraryComesFirst, Untouched, KotlinFiles
<1>5. DirInv
  BY <1>2, <1>3, <1>4 DEF DirInv, Init, OutputIsThisRuns
<1>6. dir = [f \in Files |-> dir[f]]
  BY <1>1
<1> QED
  BY <1>2, <1>5, <1>6 DEF IInv, Init

\* The run goes on after f, the last file it settled: what follows up to the
\* next file is not wanted and not there.
LEMMA GoOnKeeps ==
  ASSUME IInv, NEW f \in Files, GoOn(f), UNCHANGED input,
         dir' = [g \in Files |-> dir'[g]],
         \A g \in Files : g <= f => Settled(g)',
         \A g \in Files : g > f /\ f >= Library => Gone(g)',
         f < Library => \A g \in KotlinFiles : Untouched(g)',
         LibraryComesFirst'
  PROVE  IInv'
<1> DEFINE rest == {g \in Files : g > f /\ Wanted(g)}
<1> USE FileNumbers
<1>1. \A g \in Files : Wanted(g)' <=> Wanted(g)
  BY DEF Wanted
<1>2. CASE rest = {} /\ phase' = "done" /\ UNCHANGED file
  <2>1. f >= Library
    BY <1>2, FirstFilesAreWanted DEF Library
  <2>2. \A g \in Files : Settled(g)'
    <3> SUFFICES ASSUME NEW g \in Files PROVE Settled(g)'
      OBVIOUS
    <3>1. CASE g <= f
      BY <3>1
    <3>2. CASE g > f
      BY <1>1, <1>2, <2>1, <3>2 DEF Settled
    <3> QED
      BY <3>1, <3>2, <2>1 DEF Library
  <2>3. OutputIsThisRuns'
    BY <2>2 DEF OutputIsThisRuns, Settled, Closed, Gone
  <2> QED
    BY <1>2, <2>3 DEF IInv, DirInv
<1>3. ASSUME NEW g \in rest, \A h \in rest : g <= h, phase' = "open", file' = g
      PROVE  IInv'
  <2>1. \A h \in Files : h > f /\ h < g => ~Wanted(h)
    BY <1>3
  <2>2. f < Library => g <= Library
    BY <1>3, FirstFilesAreWanted DEF Library
  <2>3. \A h \in Files : h < g => Settled(h)'
    <3> SUFFICES ASSUME NEW h \in Files, h < g PROVE Settled(h)'
      OBVIOUS
    <3>1. CASE h <= f
      BY <3>1
    <3>2. CASE h > f
      <4>1. ~Wanted(h)
        BY <2>1, <3>2
      <4>2. f >= Library
        BY <2>2, <3>2, <4>1, FirstFilesAreWanted DEF Library
      <4> QED
        BY <1>1, <3>2, <4>1, <4>2 DEF Settled
    <3> QED
      BY <3>1, <3>2
  <2>4. g <= Library => \A h \in KotlinFiles : Untouched(h)'
    BY <1>3 DEF Library
  <2>5. g > Library => \A h \in Files : h > g => Gone(h)'
    BY <1>3, <2>2 DEF Library
  <2>6. Wanted(g)'
    BY <1>1, <1>3
  <2> QED
    BY <1>3, <2>3, <2>4, <2>5, <2>6 DEF IInv, DirInv, OutputIsThisRuns
<1> QED
  BY <1>2, <1>3 DEF GoOn

LEMMA StepInv == IInv /\ [Next]_vars => IInv'
<1> SUFFICES ASSUME IInv, [Next]_vars PROVE IInv'
  OBVIOUS
<1> USE FileNumbers
<1>1. CASE Start
  <2>1. dir' = dir /\ phase' = "open" /\ file' = Header /\ \A f \in Files : Untouched(f)
    BY <1>1 DEF Start, IInv, DirInv
  <2>2. \A f \in Files : Untouched(f)'
    BY <2>1 DEF Untouched
  <2>3. Wanted(file)'
    BY <2>1 DEF Wanted, Header, Library
  <2>4. \A f \in Files : ~(f < file')
    BY <2>1 DEF Header
  <2>5. ~(file' > Library)
    BY <2>1 DEF Header, Library
  <2>6. LibraryComesFirst'
    BY <2>1 DEF IInv, DirInv, LibraryComesFirst, Present, Lost
  <2>7. DirInv'
    BY <2>1, <2>2, <2>3, <2>4, <2>5, <2>6 DEF DirInv, OutputIsThisRuns
  <2> QED
    BY <2>1, <2>7 DEF IInv, Header, Library
<1>2. CASE Leave
  <2>1. /\ dir' = [f \in Files |-> IF dir[f] = NotThere THEN NotThere ELSE Old]
        /\ phase' = "idle" /\ file' = Header
    BY <1>2 DEF Leave
  <2>2. \A f \in Files : Untouched(f)'
    BY <2>1 DEF Untouched, NotThere, Old
  <2>3. LibraryComesFirst'
    BY <2>2 DEF LibraryComesFirst, Untouched
  <2>4. DirInv'
    BY <2>1, <2>2, <2>3 DEF DirInv, OutputIsThisRuns
  <2>5. dir' = [f \in Files |-> dir'[f]]
    BY <2>1
  <2> QED
    BY <2>1, <2>4, <2>5 DEF IInv, Header, Library
<1>3. CASE Open
  <2>1. /\ phase = "open" /\ phase' = "write" /\ file \in Files /\ file # Library
        /\ dir' = [dir EXCEPT ![file] = Opened] /\ file' = file /\ input' = input
    BY <1>3 DEF Open, IInv
  <2>2. dir' = [f \in Files |-> dir'[f]] /\ \A f \in Files : f # file => dir'[f] = dir[f]
    BY <2>1 DEF IInv
  <2>3. \A f \in Files : Wanted(f)' <=> Wanted(f)
    BY <2>1 DEF Wanted
  <2>4. /\ \A f \in Files : f < file => Settled(f)
        /\ file <= Library => \A f \in KotlinFiles : Untouched(f)
        /\ file > Library => \A f \in Files : f > file => Gone(f)
        /\ Wanted(file)
    BY <2>1 DEF IInv, DirInv
  <2>5. \A f \in Files : f < file => Settled(f)'
    BY <2>2, <2>3, <2>4 DEF Settled, Closed, Gone, Present, Lost
  <2>6. file <= Library => \A f \in KotlinFiles : Untouched(f)'
    <3> SUFFICES ASSUME file <= Library, NEW f \in KotlinFiles PROVE Untouched(f)'
      OBVIOUS
    <3>1. f \in Files /\ f # file
      BY DEF KotlinFiles
    <3> QED
      BY <2>2, <2>4, <3>1 DEF Untouched
  <2>7. file > Library => \A f \in Files : f > file => Gone(f)'
    BY <2>1, <2>2, <2>4 DEF Gone
  <2>8. LibraryComesFirst'
    <3>1. CASE file <= Library
      BY <2>6, <3>1 DEF LibraryComesFirst, Untouched
    <3>2. CASE file > Library
      <4>1. \A f \in 1 .. Library : f \in Files /\ f < file /\ Wanted(f)
        BY <2>1, <3>2, FirstFilesAreWanted
      <4>2. \A f \in 1 .. Library : Closed(f)'
        BY <2>2, <2>4, <4>1 DEF Settled, Closed, Gone, Present, Lost
      <4> QED
        BY <4>2 DEF LibraryComesFirst, Closed, Header, Cpp, Def, Library
    <3> QED
      BY <2>1, <3>1, <3>2 DEF Library
  <2>9. DirInv'
    BY <2>1, <2>3, <2>4, <2>5, <2>6, <2>7, <2>8 DEF DirInv, OutputIsThisRuns
  <2> QED
    BY <2>1, <2>2, <2>9 DEF IInv
<1>4. CASE OpenFails \/ Crash
  <2>1. dir' = dir /\ phase' = "failed" /\ file' = file
    BY <1>4 DEF OpenFails, Crash
  <2>2. LibraryComesFirst'
    BY <2>1 DEF IInv, DirInv, LibraryComesFirst, Present, Lost
  <2> QED
    BY <2>1, <2>2 DEF IInv, DirInv, OutputIsThisRuns
<1>5. CASE Write \/ WriteLoses
  <2>1. /\ phase = "write" /\ file \in Files /\ file # Library /\ input' = input
        /\ dir' \in {[dir EXCEPT ![file] = Whole(Content(file))], [dir EXCEPT ![file] = Cut]}
        /\ GoOn(file)
    BY <1>5 DEF Write, WriteLoses, IInv, DirInv
  <2>2. /\ dir' = [f \in Files |-> dir'[f]]
        /\ \A f \in Files : f # file => dir'[f] = dir[f]
        /\ dir'[file] \in {Whole(Content(file)), Cut}
    BY <2>1 DEF IInv
  <2>3. \A f \in Files : Wanted(f)' <=> Wanted(f)
    BY <2>1 DEF Wanted
  <2>4. /\ \A f \in Files : f < file => Settled(f)
        /\ file <= Library => \A f \in KotlinFiles : Untouched(f)
        /\ file > Library => \A f \in Files : f > file => Gone(f)
        /\ Wanted(file)
    BY <2>1 DEF IInv, DirInv
  <2>5. \A f \in Files : f <= file => Settled(f)'
    <3> SUFFICES ASSUME NEW f \in Files, f <= file PROVE Settled(f)'
      OBVIOUS
    <3>1. CASE f = file
      BY <2>2, <2>3, <2>4, <3>1 DEF Settled, Closed, Gone, Present, Lost, Whole, Cut
    <3>2. CASE f # file
      <4>1. f < file
        BY <2>1, <3>2
      <4> QED
        BY <2>2, <2>3, <2>4, <3>2, <4>1 DEF Settled, Closed, Gone, Present, Lost
    <3> QED
      BY <3>1, <3>2
  <2>6. \A f \in Files : f > file /\ file >= Library => Gone(f)'
    BY <2>1, <2>2, <2>4 DEF Library, Gone
  <2>7. file < Library => \A f \in KotlinFiles : Untouched(f)'
    <3> SUFFICES ASSUME file < Library, NEW f \in KotlinFiles PROVE Untouched(f)'
      OBVIOUS
    <3>1. f \in Files /\ f # file
      BY DEF KotlinFiles, Library
    <3>2. Untouched(f)
      BY <2>1, <2>4 DEF Library
    <3> QED
      BY <2>2, <3>1, <3>2 DEF Untouched
  <2>8. LibraryComesFirst'
    <3>1. CASE file < Library
      BY <2>7, <3>1 DEF LibraryComesFirst, Untouched
    <3>2. CASE file > Library
      <4>1. \A f \in 1 .. Library : f \in Files /\ f <= file /\ Wanted(f)
        BY <2>1, <3>2, FirstFilesAreWanted
      <4>2. \A f \in 1 .. Library : Closed(f)'
        BY <2>3, <2>5, <4>1 DEF Settled
      <4> QED
        BY <4>2 DEF LibraryComesFirst, Closed, Header, Cpp, Def, Library
    <3> QED
      BY <2>1, <3>1, <3>2 DEF Library
  <2> QED
    BY <2>1, <2>2, <2>5, <2>6, <2>7, <2>8, GoOnKeeps
<1>6. CASE Compile
  <2>1. /\ phase = "open" /\ file = Library /\ phase' = "clean" /\ file' = file
        /\ dir' = [dir EXCEPT ![Library] = dir[Cpp]]
    BY <1>6 DEF Compile
  <2>2. Library \in Files /\ Cpp \in 1 .. Library
    BY DEF Library, Cpp
  <2>3. \A f \in 1 .. Library : f \in Files /\ (f # Library => Closed(f))
    <3> SUFFICES ASSUME NEW f \in 1 .. Library, f # Library PROVE Closed(f)
      OBVIOUS
    <3>1. f \in Files /\ f < file /\ Wanted(f)
      BY <2>1, FirstFilesAreWanted DEF Library
    <3> QED
      BY <2>1, <3>1 DEF IInv, DirInv, Settled
  <2>4. dir' = [f \in Files |-> IF f = Library THEN dir[Cpp] ELSE dir[f]]
    BY <2>1 DEF IInv
  <2>5. \A f \in 1 .. Library : Closed(f)'
    BY <2>2, <2>3, <2>4 DEF Closed, Present, Lost, Cpp, Library
  <2>6. \A f \in KotlinFiles : Untouched(f)'
    <3> SUFFICES ASSUME NEW f \in KotlinFiles PROVE Untouched(f)'
      OBVIOUS
    <3>1. f \in Files /\ f # Library
      BY DEF KotlinFiles
    <3>2. Untouched(f)
      BY <2>1 DEF IInv, DirInv, Library
    <3> QED
      BY <2>4, <3>1, <3>2 DEF Untouched
  <2>7. LibraryComesFirst'
    BY <2>5 DEF LibraryComesFirst, Closed, Header, Cpp, Def, Library
  <2>8. DirInv'
    BY <2>1, <2>5, <2>6, <2>7 DEF DirInv, OutputIsThisRuns
  <2> QED
    BY <2>1, <2>2, <2>4, <2>8 DEF IInv
<1>7. CASE CompileFails
  <2>1. /\ phase = "open" /\ file = Library /\ phase' = "failed" /\ file' = file
        /\ dir' \in {dir, [dir EXCEPT ![Library] = NotThere]}
    BY <1>7 DEF CompileFails
  <2>2. /\ dir' = [f \in Files |-> dir'[f]]
        /\ \A f \in Files : f # Library => dir'[f] = dir[f]
    BY <2>1 DEF IInv
  <2>3. \A f \in KotlinFiles : Untouched(f)'
    <3> SUFFICES ASSUME NEW f \in KotlinFiles PROVE Untouched(f)'
      OBVIOUS
    <3>1. f \in Files /\ f # Library
      BY DEF KotlinFiles
    <3>2. Untouched(f)
      BY <2>1 DEF IInv, DirInv, Library
    <3> QED
      BY <2>2, <3>1, <3>2 DEF Untouched
  <2>4. LibraryComesFirst'
    BY <2>3 DEF LibraryComesFirst, Untouched
  <2> QED
    BY <2>1, <2>2, <2>4 DEF IInv, DirInv, OutputIsThisRuns
<1>8. ASSUME NEW k \in KotlinFiles, Delete(k) \/ DeleteFails(k) PROVE IInv'
  <2>1. /\ phase = "clean" /\ phase' = phase /\ file' = file
        /\ dir' \in {[dir EXCEPT ![k] = NotThere], [dir EXCEPT ![k] = Kept]} /\ file = Library
        /\ \A f \in 1 .. Library : Closed(f)
        /\ \A f \in KotlinFiles : Untouched(f)
    BY <1>8 DEF Delete, DeleteFails, IInv, DirInv
  <2>2. /\ dir' = [f \in Files |-> dir'[f]] /\ dir'[k] \in {NotThere, Kept}
        /\ \A f \in Files : f # k => dir'[f] = dir[f]
    BY <2>1 DEF IInv, KotlinFiles
  <2>3. \A f \in 1 .. Library : Closed(f)'
    <3> SUFFICES ASSUME NEW f \in 1 .. Library PROVE Closed(f)'
      OBVIOUS
    <3>1. f \in Files /\ f # k
      BY DEF KotlinFiles
    <3> QED
      BY <2>1, <2>2, <3>1 DEF Closed, Present, Lost
  <2>4. \A f \in KotlinFiles : Untouched(f)'
    BY <2>1, <2>2 DEF Untouched, NotThere, Kept, KotlinFiles
  <2>5. LibraryComesFirst'
    BY <2>3 DEF LibraryComesFirst, Closed, Header, Cpp, Def, Library
  <2>6. DirInv'
    BY <2>1, <2>3, <2>4, <2>5 DEF DirInv, OutputIsThisRuns
  <2> QED
    BY <2>1, <2>2, <2>6 DEF IInv
<1>9. CASE Cleaned
  <2>1. /\ phase = "clean" /\ GoOn(Library) /\ dir' = dir /\ input' = input
        /\ \A f \in KotlinFiles : Gone(f)
        /\ \A f \in 1 .. Library : Closed(f)
    BY <1>9 DEF Cleaned, Remaining, Gone, IInv, DirInv
  <2>2. \A f \in Files : f <= Library => Settled(f)'
    <3> SUFFICES ASSUME NEW f \in Files, f <= Library PROVE Settled(f)'
      OBVIOUS
    <3>1. Closed(f) /\ Wanted(f)
      BY <2>1, FirstFilesAreWanted
    <3>2. Closed(f)' /\ (Wanted(f)' <=> Wanted(f))
      BY <2>1, <3>1 DEF Closed, Present, Lost, Wanted
    <3> QED
      BY <3>1, <3>2 DEF Settled
  <2>3. \A f \in Files : f > Library => Gone(f)'
    BY <2>1 DEF Gone
  <2>4. LibraryComesFirst'
    BY <2>1 DEF IInv, DirInv, LibraryComesFirst, Present, Lost
  <2>5. Library \in Files /\ ~(Library < Library)
    BY DEF Library
  <2>6. dir' = [f \in Files |-> dir'[f]]
    BY <2>1 DEF IInv
  <2> QED
    BY <2>1, <2>2, <2>3, <2>4, <2>5, <2>6, GoOnKeeps
<1>10. CASE UNCHANGED vars
  <2>1. \A f \in Files : Settled(f)' <=> Settled(f)
    BY <1>10 DEF vars, Settled, Closed, Gone, Present, Lost, Wanted
  <2>2. Wanted(file)' <=> Wanted(file)
    BY <1>10 DEF vars, Wanted
  <2>3. OutputIsThisRuns' /\ LibraryComesFirst'
    BY <1>10 DEF IInv, DirInv, OutputIsThisRuns, LibraryComesFirst, Present, Lost, Wanted, vars
  <2>4. \A f \in Files : (Untouched(f)' <=> Untouched(f)) /\ (Closed(f)' <=> Closed(f)) /\ (Gone(f)' <=> Gone(f))
    BY <1>10 DEF vars, Untouched, Closed, Gone, Present, Lost
  <2>5. KotlinFiles \subseteq Files
    BY DEF KotlinFiles
  <2> QED
    BY <1>10, <2>1, <2>2, <2>3, <2>4, <2>5 DEF IInv, DirInv, vars
<1> QED
  BY <1>1, <1>2, <1>3, <1>4, <1>5, <1>6, <1>7, <1>8, <1>9, <1>10 DEF Next

LEMMA Invariance == Spec => []IInv
<1>1. Init => IInv
  BY InitInv
<1>2. IInv /\ [Next]_vars => IInv'
  BY StepInv
<1> QED
  BY <1>1, <1>2, PTL DEF Spec

\* When writeTo returns, the output directory holds what this run generated, but
\* for files that lost text when they were closed, and nothing else but files that
\* remove failed on, however many runs failed or were killed before it.
THEOREM DirectoryIsThisRuns == Spec => []OutputIsThisRuns
<1>1. IInv => OutputIsThisRuns
  BY DEF IInv, DirInv
<1> QED
  BY <1>1, Invariance, PTL

\* At any time, a Kotlin file of this run means that this run has compiled the
\* library behind it.
THEOREM KotlinFollowsTheLibrary == Spec => []LibraryComesFirst
<1>1. IInv => LibraryComesFirst
  BY DEF IInv, DirInv
<1> QED
  BY <1>1, Invariance, PTL

-----------------------------------------------------------------------------
(* Sequences made of sets and of sequences. *)

\* s holds the numbers of S in their order.
IsOrder(s, S) ==
  s \in [1 .. Cardinality(S) -> S] /\ \A i, j \in DOMAIN s : i < j => s[i] < s[j]

\* Every set of numbers up to n has an order.
LEMMA OrderExists ==
  ASSUME NEW n \in Nat, NEW S \in SUBSET (1 .. n)
  PROVE  \E s : IsOrder(s, S)
<1> DEFINE U == {m \in Nat : \A T \in SUBSET (1 .. m) : IsFiniteSet(T) /\ \E s : IsOrder(s, T)}
<1>1. 0 \in U
  <2> SUFFICES ASSUME NEW T \in SUBSET (1 .. 0) PROVE IsFiniteSet(T) /\ \E s : IsOrder(s, T)
    OBVIOUS
  <2>0. T = {}
    OBVIOUS
  <2>1. IsFiniteSet(T) /\ Cardinality(T) = 0
    BY <2>0, FS_EmptySet
  <2>2. <<>> \in [1 .. 0 -> T] /\ DOMAIN <<>> = {}
    OBVIOUS
  <2> QED
    BY <2>0, <2>1, <2>2 DEF IsOrder
<1>2. ASSUME NEW m \in Nat, m \in U PROVE m + 1 \in U
  <2> SUFFICES ASSUME NEW T \in SUBSET (1 .. m + 1) PROVE IsFiniteSet(T) /\ \E s : IsOrder(s, T)
    OBVIOUS
  <2>1. CASE m + 1 \notin T
    <3>1. T \in SUBSET (1 .. m)
      BY <2>1
    <3> QED
      BY <1>2, <3>1
  <2>2. CASE m + 1 \in T
    <3> DEFINE R == T \ {m + 1}
    <3>1. R \in SUBSET (1 .. m) /\ T = R \cup {m + 1} /\ m + 1 \notin R
      BY <2>2
    <3> HIDE DEF R
    <3>2. IsFiniteSet(R)
      BY <1>2, <3>1
    <3>3. PICK s : IsOrder(s, R)
      BY <1>2, <3>1
    <3>4. PICK c \in Nat : c = Cardinality(R)
      BY <3>2, FS_CardinalityType
    <3>5. IsFiniteSet(T) /\ Cardinality(T) = c + 1
      BY <3>1, <3>2, <3>4, FS_AddElement
    <3>6. /\ s \in [1 .. c -> R] /\ DOMAIN s = 1 .. c
          /\ \A i, j \in 1 .. c : i < j => s[i] < s[j]
      BY <3>3, <3>4 DEF IsOrder
    <3> DEFINE t == [i \in 1 .. c + 1 |-> IF i = c + 1 THEN m + 1 ELSE s[i]]
    <3>7. t \in [1 .. c + 1 -> T] /\ DOMAIN t = 1 .. c + 1
      BY <3>1, <3>6
    <3>8. ASSUME NEW i \in 1 .. c + 1, NEW j \in 1 .. c + 1, i < j PROVE t[i] < t[j]
      <4>1. i \in 1 .. c /\ t[i] = s[i]
        BY <3>8
      <4>2. s[i] \in 1 .. m
        BY <3>1, <3>6, <4>1
      <4>3. CASE j = c + 1
        BY <4>1, <4>2, <4>3
      <4>4. CASE j # c + 1
        <5>1. j \in 1 .. c /\ t[j] = s[j]
          BY <4>4
        <5> QED
          BY <3>6, <3>8, <4>1, <5>1
      <4> QED
        BY <4>3, <4>4
    <3> HIDE DEF t
    <3>9. IsOrder(t, T)
      BY <3>5, <3>7, <3>8 DEF IsOrder
    <3> QED
      BY <3>5, <3>9
  <2> QED
    BY <2>1, <2>2
<1> HIDE DEF U
<1>3. n \in U
  BY <1>1, <1>2, Induction
<1> QED
  BY <1>3 DEF U

\* InOrder lists each number, and nothing else.
LEMMA InOrderIs ==
  ASSUME NEW n \in Nat, NEW S \in SUBSET (1 .. n)
  PROVE  /\ Cardinality(S) \in Nat /\ InOrder(S) \in [1 .. Cardinality(S) -> S]
         /\ \A x \in S : \E i \in 1 .. Cardinality(S) : InOrder(S)[i] = x
<1> DEFINE s == InOrder(S)
           c == Cardinality(S)
<1>1. IsFiniteSet(S) /\ c \in Nat
  <2>1. IsFiniteSet(1 .. n)
    BY FS_Interval
  <2> QED
    BY <2>1, FS_Subset, FS_CardinalityType
<1>2. IsOrder(s, S)
  <2>1. PICK t : IsOrder(t, S)
    BY OrderExists
  <2>2. t \in [1 .. Cardinality(S) -> S] /\ \A i, j \in DOMAIN t : i < j => t[i] < t[j]
    BY <2>1 DEF IsOrder
  <2> QED
    BY <2>2 DEF IsOrder, InOrder
<1>3. s \in [1 .. c -> S] /\ \A i, j \in 1 .. c : i < j => s[i] < s[j]
  BY <1>2 DEF IsOrder
<1> HIDE DEF s, c
<1>4. \A i, j \in 1 .. c : s[i] = s[j] => i = j
  <2> SUFFICES ASSUME NEW i \in 1 .. c, NEW j \in 1 .. c, s[i] = s[j], i # j PROVE FALSE
    OBVIOUS
  <2>1. s[i] \in 1 .. n /\ s[j] \in 1 .. n
    BY <1>3
  <2>2. i < j \/ j < i
    BY <1>1
  <2> QED
    BY <1>3, <2>1, <2>2
<1>5. s \in Injection(1 .. c, S)
  BY <1>3, <1>4 DEF Injection, IsInjective
<1>6. IsFiniteSet(1 .. c) /\ Cardinality(1 .. c) = c
  BY <1>1, FS_Interval
<1>7. s \in Surjection(1 .. c, S)
  BY <1>1, <1>5, <1>6, FS_Injection DEF c
<1>8. \A x \in S : \E i \in 1 .. c : s[i] = x
  BY <1>7 DEF Surjection
<1> QED
  BY <1>1, <1>3, <1>8 DEF s, c

\* What the sequences of ss hold.
HeldBy(ss, n, x) == \E i \in 1 .. n : x \in Range(ss[i])

\* Two sequences, one after the other, hold what each of them holds.
LEMMA RangeOfTwo ==
  ASSUME NEW V, NEW s \in Seq(V), NEW t \in Seq(V)
  PROVE  s \o t \in Seq(V) /\ Range(s \o t) = Range(s) \cup Range(t)
<1>1. /\ s \o t \in Seq(V) /\ Len(s) \in Nat /\ Len(t) \in Nat /\ Len(s \o t) = Len(s) + Len(t)
      /\ DOMAIN s = 1 .. Len(s) /\ DOMAIN t = 1 .. Len(t) /\ DOMAIN (s \o t) = 1 .. Len(s \o t)
      /\ \A i \in 1 .. Len(s) : (s \o t)[i] = s[i]
      /\ \A i \in 1 .. Len(t) : (s \o t)[Len(s) + i] = t[i]
  OBVIOUS
<1> DEFINE u == s \o t
<1> HIDE DEF u
<1>2. ASSUME NEW i \in 1 .. Len(u) PROVE u[i] \in Range(s) \cup Range(t)
  <2>1. CASE i <= Len(s)
    BY <1>1, <2>1 DEF u, Range
  <2>2. CASE i > Len(s)
    <3>1. i - Len(s) \in 1 .. Len(t) /\ Len(s) + (i - Len(s)) = i
      BY <1>1, <2>2 DEF u
    <3>2. u[i] = t[i - Len(s)]
      BY <1>1, <3>1 DEF u
    <3> QED
      BY <1>1, <3>1, <3>2 DEF Range
  <2> QED
    BY <1>1, <2>1, <2>2 DEF u
<1>3. ASSUME NEW i \in 1 .. Len(s) PROVE s[i] \in Range(u)
  BY <1>1 DEF u, Range
<1>4. ASSUME NEW i \in 1 .. Len(t) PROVE t[i] \in Range(u)
  <2>1. Len(s) + i \in DOMAIN u /\ u[Len(s) + i] = t[i]
    BY <1>1 DEF u
  <2> QED
    BY <2>1 DEF Range
<1>5. DOMAIN u = 1 .. Len(u)
  BY <1>1 DEF u
<1>6. Range(u) = Range(s) \cup Range(t)
  BY <1>1, <1>2, <1>3, <1>4, <1>5 DEF Range
<1> QED
  BY <1>1, <1>6 DEF u

\* FlattenSeq holds what its sequences hold.
LEMMA FlattenIs ==
  ASSUME NEW V, NEW ss \in Seq(Seq(V))
  PROVE  /\ FlattenSeq(ss) \in Seq(V)
         /\ \A x : x \in Range(FlattenSeq(ss)) <=> HeldBy(ss, Len(ss), x)
<1> DEFINE n == Len(ss)
           W == Seq(V)
<1>1. n \in Nat
  OBVIOUS
<1>2. CASE n = 0
  <2>1. FlattenSeq(ss) = <<>> /\ Range(<<>>) = {} /\ <<>> \in Seq(V) /\ ss = <<>>
    BY <1>2 DEF FlattenSeq, Range
  <2> QED
    BY <1>2, <2>1 DEF HeldBy
<1>3. CASE n # 0
  <2> DEFINE Is(f) == f = [i \in 1 .. n |-> IF i = 1 THEN ss[i] ELSE f[i - 1] \o ss[i]]
             g == [x \in (1 + 1 .. n) \X W |-> x[2] \o ss[x[1]]]
  <2>1. 1 <= n /\ \A i \in 1 .. n : ss[i] \in W
    BY <1>3
  <2> HIDE DEF n
  <2>2. StepsIn(g, 1, n, W)
    <3>1. \A s \in W, i \in 1 .. n : s \o ss[i] \in W
      BY <2>1
    <3>2. \A x \in (1 + 1 .. n) \X W : x[2] \o ss[x[1]] \in W
      BY <3>1
    <3> QED
      BY <3>2 DEF StepsIn
  <2>3. PICK f : Recursive(f, 1, n, W, ss[1], g)
    <3>1. ss[1] \in W /\ 1 \in Nat /\ n \in Nat
      BY <1>1, <2>1
    <3> HIDE DEF g, W
    <3> QED
      BY <2>1, <2>2, <3>1, Recursion
  <2>4. f \in [1 .. n -> W] /\ f[1] = ss[1] /\ \A i \in 2 .. n : f[i] = f[i - 1] \o ss[i]
    <3>1. \A i \in 2 .. n : i - 1 \in 1 .. n /\ i \in 1 + 1 .. n
      BY <1>1
    <3>2. ASSUME NEW i \in 2 .. n, NEW s \in W PROVE g[<<i, s>>] = s \o ss[i]
      <4> HIDE DEF W
      <4>1. <<i, s>> \in (1 + 1 .. n) \X W
        BY <3>1
      <4> QED
        BY <4>1
    <3>3. \A i \in 2 .. n : f[i] = f[i - 1] \o ss[i]
      <4> HIDE DEF g, W
      <4>1. \A i \in 2 .. n : f[i - 1] \in W /\ f[i] = g[<<i, f[i - 1]>>]
        BY <2>3, <3>1 DEF Recursive
      <4> QED
        BY <3>2, <4>1
    <3> QED
      BY <2>3, <3>3 DEF Recursive
  <2>5. Is(f)
    <3>1. ASSUME NEW i \in 1 .. n PROVE f[i] = IF i = 1 THEN ss[i] ELSE f[i - 1] \o ss[i]
      <4>1. i = 1 \/ i \in 2 .. n
        BY <1>1
      <4> QED
        BY <2>4, <4>1
    <3> QED
      BY <2>4, <3>1
  <2>6. PICK h : Is(h) /\ FlattenSeq(ss) = h[n]
    <3>1. FlattenSeq(ss) = (CHOOSE h : Is(h))[n]
      BY <1>1, <1>3 DEF FlattenSeq, n
    <3> HIDE DEF Is
    <3> QED
      BY <2>5, <3>1
  <2> DEFINE Ok(i) == h[i] \in W /\ \A x : x \in Range(h[i]) <=> HeldBy(ss, i, x)
             U == {i \in Nat : i + 1 <= n => Ok(i + 1)}
  <2>7. /\ h[1] = ss[1]
        /\ \A i \in 1 .. n : i + 1 <= n => h[i + 1] = h[i] \o ss[i + 1]
    <3>1. \A i \in 1 .. n : h[i] = IF i = 1 THEN ss[i] ELSE h[i - 1] \o ss[i]
      BY <2>6
    <3>2. ASSUME NEW i \in 1 .. n, i + 1 <= n PROVE i + 1 \in 1 .. n /\ i + 1 # 1 /\ (i + 1) - 1 = i
      BY <1>1, <3>2
    <3>3. 1 \in 1 .. n
      BY <1>1, <2>1
    <3> HIDE DEF Is
    <3> QED
      BY <3>1, <3>2, <3>3
  <2> HIDE DEF Is
  <2>8. 0 \in U
    BY <2>1, <2>7 DEF HeldBy
  <2>9. ASSUME NEW i \in Nat, i \in U PROVE i + 1 \in U
    <3> SUFFICES ASSUME i + 1 + 1 <= n PROVE Ok(i + 1 + 1)
      OBVIOUS
    <3>1. i + 1 \in 1 .. n /\ i + 1 + 1 \in 1 .. n /\ h[i + 1 + 1] = h[i + 1] \o ss[i + 1 + 1] /\ Ok(i + 1)
      <4>1. i + 1 \in 1 .. n /\ i + 1 + 1 \in 1 .. n /\ i + 1 <= n
        BY <1>1
      <4>2. Ok(i + 1)
        BY <2>9, <4>1
      <4> HIDE DEF Ok
      <4> QED
        BY <2>7, <4>1, <4>2
    <3>2. ss[i + 1 + 1] \in W
      BY <2>1, <3>1
    <3>3. h[i + 1 + 1] \in W
      BY <3>1, <3>2
    <3>4. Range(h[i + 1 + 1]) = Range(h[i + 1]) \cup Range(ss[i + 1 + 1])
      BY <3>1, <3>2, RangeOfTwo
    <3>5. \A x : HeldBy(ss, i + 1 + 1, x) <=> HeldBy(ss, i + 1, x) \/ x \in Range(ss[i + 1 + 1])
      BY DEF HeldBy
    <3> QED
      BY <3>1, <3>3, <3>4, <3>5
  <2>10. n - 1 \in U /\ n - 1 \in Nat /\ n - 1 + 1 = n
    <3> HIDE DEF U
    <3>1. \A i \in Nat : i \in U
      BY <2>8, <2>9, Induction
    <3> QED
      BY <1>1, <2>1, <3>1
  <2> QED
    BY <2>6, <2>10 DEF n
<1> QED
  BY <1>2, <1>3

-----------------------------------------------------------------------------
(* What the writers make of the input. *)

\* The classes above d, when v holds those of the classes before it.
BasesBy(v, d) ==
  LET b == input.base[d]
  IN  IF b \in input.classes THEN <<b>> \o v[b] ELSE <<>>

\* An input.
LEMMA InputIs ==
  ASSUME input \in Inputs
  PROVE  /\ input.classes \subseteq Classes /\ input.fields \subseteq input.classes
         /\ input.functions \subseteq Functions
         /\ \A d \in Classes : input.base[d] < d
         /\ MaxClasses \in Nat /\ MaxFunctions \in Nat
BY OutputAssumption DEF Inputs

\* A class in front of those above it.
LEMMA OneMore == \A S : \A b \in S, s \in Seq(S) : <<b>> \o s \in Seq(S)
OBVIOUS

\* The classes above a class are found from the first class to the last.
LEMMA BasesExist ==
  ASSUME input \in Inputs
  PROVE  \E v : v = [d \in Classes |-> BasesBy(v, d)]
<1> DEFINE V == Seq(input.classes)
           Good(v, n) == v \in [Classes -> V] /\ \A d \in 1 .. n : v[d] = BasesBy(v, d)
           U == {n \in Nat : n <= MaxClasses => \E v : Good(v, n)}
<1>1. MaxClasses \in Nat /\ Classes = 1 .. MaxClasses /\ input.classes \subseteq Classes
      /\ \A d \in Classes : input.base[d] < d
  BY InputIs DEF Classes
<1>2. 0 \in U
  <2> DEFINE v == [d \in Classes |-> <<>>]
  <2>1. <<>> \in V
    OBVIOUS
  <2>2. v \in [Classes -> V]
    BY <2>1
  <2>3. ~ \E d \in 1 .. 0 : TRUE
    OBVIOUS
  <2> HIDE DEF v
  <2>4. Good(v, 0)
    BY <2>2, <2>3
  <2> QED
    BY <2>4
<1>3. ASSUME NEW n \in Nat, n \in U PROVE n + 1 \in U
  <2> SUFFICES ASSUME n + 1 <= MaxClasses PROVE \E v : Good(v, n + 1)
    OBVIOUS
  <2>1. PICK v : Good(v, n)
    BY <1>1, <1>3
  <2>2. n + 1 \in Classes /\ \A d \in 1 .. n + 1 : d \in Classes /\ (d # n + 1 => d \in 1 .. n)
    BY <1>1
  <2>3. BasesBy(v, n + 1) \in V
    <3>1. CASE input.base[n + 1] \in input.classes
      <4>1. v[input.base[n + 1]] \in V
        BY <1>1, <2>1, <3>1
      <4>2. BasesBy(v, n + 1) = <<input.base[n + 1]>> \o v[input.base[n + 1]]
        BY <3>1 DEF BasesBy
      <4> QED
        BY <3>1, <4>1, <4>2, OneMore
    <3>2. CASE input.base[n + 1] \notin input.classes
      BY <3>2 DEF BasesBy
    <3> QED
      BY <3>1, <3>2
  <2> DEFINE w == [v EXCEPT ![n + 1] = BasesBy(v, n + 1)]
  <2>4. w \in [Classes -> V] /\ w[n + 1] = BasesBy(v, n + 1) /\ \A d \in Classes : d # n + 1 => w[d] = v[d]
    BY <2>1, <2>2, <2>3
  <2> HIDE DEF w
  <2>5. ASSUME NEW d \in 1 .. n + 1 PROVE w[d] = BasesBy(w, d)
    <3>1. BasesBy(w, d) = BasesBy(v, d)
      <4>1. CASE input.base[d] \in input.classes
        <5>1. input.base[d] \in Classes /\ input.base[d] # n + 1
          BY <1>1, <2>2, <4>1
        <5> QED
          BY <2>4, <5>1 DEF BasesBy
      <4>2. CASE input.base[d] \notin input.classes
        BY <4>2 DEF BasesBy
      <4> QED
        BY <4>1, <4>2
    <3> QED
      BY <2>1, <2>2, <2>4, <3>1
  <2> QED
    BY <2>4, <2>5
<1> HIDE DEF U
<1>4. MaxClasses \in U
  BY <1>1, <1>2, <1>3, Induction
<1>5. PICK v : Good(v, MaxClasses)
  BY <1>1, <1>4 DEF U
<1>6. v \in [Classes -> V] /\ \A d \in Classes : v[d] = BasesBy(v, d)
  BY <1>1, <1>5
<1> QED
  BY <1>6

\* The classes above a class are classes of the input.
LEMMA BasesAre ==
  ASSUME input \in Inputs, NEW c \in Classes
  PROVE  Bases(c) \in Seq(input.classes)
<1> DEFINE Is(v) == v = [d \in Classes |-> LET b == input.base[d]
                                           IN  IF b \in input.classes THEN <<b>> \o v[b] ELSE <<>>]
<1>1. PICK v : Is(v) /\ Bases(c) = v[c]
  <2>1. \E v : Is(v)
    BY BasesExist DEF BasesBy
  <2>2. Bases(c) = (CHOOSE v : Is(v))[c]
    BY DEF Bases
  <2> HIDE DEF Is
  <2> QED
    BY <2>1, <2>2
<1>2. MaxClasses \in Nat /\ Classes = 1 .. MaxClasses /\ input.classes \subseteq Classes
      /\ \A d \in Classes : input.base[d] < d
  BY InputIs DEF Classes
<1>3. \A d \in Classes : v[d] = BasesBy(v, d)
  BY <1>1 DEF BasesBy
<1> DEFINE V == Seq(input.classes)
           U == {n \in Nat : \A d \in Classes : d <= n => v[d] \in V}
<1>4. 0 \in U
  BY <1>2
<1>5. ASSUME NEW n \in Nat, n \in U PROVE n + 1 \in U
  <2> SUFFICES ASSUME NEW d \in Classes, d <= n + 1 PROVE v[d] \in V
    OBVIOUS
  <2>1. CASE input.base[d] \in input.classes
    <3>1. input.base[d] \in Classes /\ input.base[d] <= n
      BY <1>2, <2>1
    <3>2. v[input.base[d]] \in V
      BY <1>5, <3>1
    <3>3. v[d] = <<input.base[d]>> \o v[input.base[d]]
      BY <1>3, <2>1 DEF BasesBy
    <3> QED
      BY <2>1, <3>2, <3>3, OneMore
  <2>2. CASE input.base[d] \notin input.classes
    <3>1. v[d] = <<>>
      BY <1>3, <2>2 DEF BasesBy
    <3> QED
      BY <3>1
  <2> QED
    BY <2>1, <2>2
<1> HIDE DEF U
<1>6. c \in Nat /\ c \in U
  BY <1>2, <1>4, <1>5, Induction
<1> QED
  BY <1>1, <1>6 DEF U

\* So is the class below one of them.
LEMMA BelowIs ==
  ASSUME input \in Inputs, NEW c \in input.classes, NEW n \in DOMAIN Bases(c)
  PROVE  Bases(c)[n] \in input.classes /\ Below(c, n) \in input.classes
<1>1. Bases(c) \in Seq(input.classes)
  BY InputIs, BasesAre
<1>2. DOMAIN Bases(c) = 1 .. Len(Bases(c)) /\ Len(Bases(c)) \in Nat
  BY <1>1
<1>3. \A i \in 1 .. Len(Bases(c)) : Bases(c)[i] \in input.classes
  BY <1>1
<1>4. n # 1 => n - 1 \in 1 .. Len(Bases(c))
  BY <1>2
<1> QED
  BY <1>2, <1>3, <1>4 DEF Below

\* What writer w does not come to: what it throws at, and a setter behind that.
Comes(w, x) == ~Throws(w, x) /\ (x.what = "set" => ~Throws(w, Get(x.of)))

\* The things of one class.
PiecesOfClass(c) == {Method(c)} \cup (IF c \in input.fields THEN {Get(c), Set(c)} ELSE {})

\* The things that are written, by what they are.
LEMMA ItemsAre ==
  /\ \A c \in Classes : Method(c) \in Items /\ Get(c) \in Items /\ Set(c) \in Items
  /\ \A f \in Functions : Function(f) \in Items
  /\ \A c : /\ Method(c).what = "method" /\ Get(c).what = "get" /\ Set(c).what = "set"
            /\ Method(c).of = c /\ Get(c).of = c /\ Set(c).of = c
            /\ Function(c).what = "function" /\ Function(c).of = c
BY DEF Items, Method, Get, Set, Function

\* One piece.
LEMMA PieceIs ==
  ASSUME NEW w, NEW item \in Items
  PROVE  /\ Piece(w, item) \in Seq(Items)
         /\ \A x : x \in Range(Piece(w, item)) <=> x = item /\ ~Throws(w, item)
<1>1. CASE Throws(w, item)
  <2>1. Piece(w, item) = <<>> /\ <<>> \in Seq(Items) /\ Range(<<>>) = {}
    BY <1>1 DEF Piece, Range
  <2> QED
    BY <1>1, <2>1
<1>2. CASE ~Throws(w, item)
  <2>1. Piece(w, item) = <<item>> /\ <<item>> \in Seq(Items) /\ Range(<<item>>) = {item}
    BY <1>2 DEF Piece, Range
  <2> QED
    BY <1>2, <2>1
<1> QED
  BY <1>1, <1>2

\* The getter, then the setter, up to what w throws at.
LEMMA FieldIs ==
  ASSUME NEW w, NEW c \in Classes
  PROVE  /\ Field(w, c) \in Seq(Items)
         /\ \A x : x \in Range(Field(w, c)) <=> x \in {Get(c), Set(c)} /\ Comes(w, x)
<1>1. CASE Throws(w, Get(c))
  <2>1. Field(w, c) = <<>> /\ <<>> \in Seq(Items) /\ Range(<<>>) = {}
    BY <1>1 DEF Field, Range
  <2> QED
    BY <1>1, <2>1, ItemsAre DEF Comes
<1>2. CASE ~Throws(w, Get(c))
  <2>1. Field(w, c) = <<Get(c)>> \o Piece(w, Set(c))
    BY <1>2 DEF Field
  <2>2. <<Get(c)>> \in Seq(Items) /\ Range(<<Get(c)>>) = {Get(c)}
    BY ItemsAre DEF Range
  <2>3. Piece(w, Set(c)) \in Seq(Items) /\ \A x : x \in Range(Piece(w, Set(c))) <=> x = Set(c) /\ ~Throws(w, Set(c))
    BY ItemsAre, PieceIs
  <2>4. Field(w, c) \in Seq(Items) /\ Range(Field(w, c)) = Range(<<Get(c)>>) \cup Range(Piece(w, Set(c)))
    <3>1. PICK g \in Seq(Items) : g = <<Get(c)>>
      BY <2>2
    <3>2. PICK p \in Seq(Items) : p = Piece(w, Set(c))
      BY <2>3
    <3>3. g \o p \in Seq(Items) /\ Range(g \o p) = Range(g) \cup Range(p)
      BY RangeOfTwo
    <3> QED
      BY <2>1, <3>1, <3>2, <3>3
  <2> QED
    BY <1>2, <2>2, <2>3, <2>4, ItemsAre DEF Comes
<1> QED
  BY <1>1, <1>2

\* A class in C or C++.
LEMMA ClassPiecesAre ==
  ASSUME NEW w, NEW c \in Classes
  PROVE  /\ ClassPieces(w, c) \in Seq(Items)
         /\ \A x : x \in Range(ClassPieces(w, c)) <=> x \in PiecesOfClass(c) /\ Comes(w, x)
<1> DEFINE m == Piece(w, Method(c))
           f == IF c \in input.fields THEN Field(w, c) ELSE <<>>
<1>1. m \in Seq(Items) /\ \A x : x \in Range(m) <=> x = Method(c) /\ ~Throws(w, Method(c))
  BY ItemsAre, PieceIs
<1>2. f \in Seq(Items)
      /\ \A x : x \in Range(f) <=> c \in input.fields /\ x \in {Get(c), Set(c)} /\ Comes(w, x)
  <2>1. CASE c \in input.fields
    BY <2>1, FieldIs
  <2>2. CASE c \notin input.fields
    <3>1. f = <<>> /\ <<>> \in Seq(Items) /\ Range(<<>>) = {}
      BY <2>2 DEF Range
    <3> QED
      BY <2>2, <3>1
  <2> QED
    BY <2>1, <2>2
<1>3. ClassPieces(w, c) = m \o f
  BY DEF ClassPieces
<1> HIDE DEF m, f
<1>4. ClassPieces(w, c) \in Seq(Items) /\ Range(ClassPieces(w, c)) = Range(m) \cup Range(f)
  BY <1>1, <1>2, <1>3, RangeOfTwo
<1>5. \A x : x = Method(c) => (Comes(w, x) <=> ~Throws(w, x))
  BY ItemsAre DEF Comes
<1> QED
  BY <1>1, <1>2, <1>4, <1>5 DEF PiecesOfClass

\* P[c] is what is written for c, a number in S.
Written(P, S, n) == n \in Nat /\ S \in SUBSET (1 .. n) /\ P \in [S -> Seq(Items)]

\* All of it, in order.
InOneSeq(P, S) == FlattenSeq([i \in 1 .. Cardinality(S) |-> P[InOrder(S)[i]]])

\* It holds what is written for each of them.
LEMMA InOneSeqIs ==
  ASSUME NEW n, NEW S, NEW P, Written(P, S, n)
  PROVE  /\ InOneSeq(P, S) \in Seq(Items)
         /\ \A x : x \in Range(InOneSeq(P, S)) <=> \E c \in S : x \in Range(P[c])
<1> DEFINE m == Cardinality(S)
           o == InOrder(S)
           V == Seq(Items)
           ss == [i \in 1 .. m |-> P[o[i]]]
<1>1. m \in Nat /\ o \in [1 .. m -> S] /\ \A c \in S : \E i \in 1 .. m : o[i] = c
  BY InOrderIs DEF Written
<1>2. P \in [S -> V] /\ InOneSeq(P, S) = FlattenSeq(ss)
  BY DEF Written, InOneSeq
<1> HIDE DEF m, o, V
<1>3. ss \in Seq(V) /\ Len(ss) = m
  <2>1. \A i \in 1 .. m : P[o[i]] \in V
    BY <1>1, <1>2
  <2> QED
    BY <1>1, <2>1
<1>4. \A i \in 1 .. m : ss[i] = P[o[i]] /\ o[i] \in S
  BY <1>1
<1> HIDE DEF ss
<1>5. FlattenSeq(ss) \in Seq(Items) /\ \A x : x \in Range(FlattenSeq(ss)) <=> HeldBy(ss, m, x)
  BY <1>3, FlattenIs DEF V
<1>6. ASSUME NEW x PROVE HeldBy(ss, m, x) <=> \E c \in S : x \in Range(P[c])
  <2>1. ASSUME NEW i \in 1 .. m, x \in Range(ss[i]) PROVE \E c \in S : x \in Range(P[c])
    <3>1. ss[i] = P[o[i]] /\ o[i] \in S
      BY <1>4
    <3> QED
      BY <2>1, <3>1
  <2>2. ASSUME NEW c \in S, x \in Range(P[c]) PROVE \E i \in 1 .. m : x \in Range(ss[i])
    <3>1. PICK i \in 1 .. m : o[i] = c
      BY <1>1
    <3>2. ss[i] = P[c]
      BY <1>4, <3>1
    <3> QED
      BY <2>2, <3>2
  <2> QED
    BY <2>1, <2>2 DEF HeldBy
<1> QED
  BY <1>2, <1>5, <1>6

\* All classes and functions, in C or C++.
LEMMA ModuleIs ==
  ASSUME input \in Inputs, NEW w
  PROVE  /\ Module(w) \in Seq(Items)
         /\ \A x : x \in Range(Module(w)) <=> x \in Pieces /\ Comes(w, x)
<1> DEFINE C == input.classes
           F == input.functions
           P == [c \in C |-> ClassPieces(w, c)]
           Q == [f \in F |-> FunctionPieces(w, f)]
           cs == [n \in 1 .. Cardinality(C) |-> ClassPieces(w, InOrder(C)[n])]
           fs == [n \in 1 .. Cardinality(F) |-> FunctionPieces(w, InOrder(F)[n])]
<1>1. /\ C \in SUBSET (1 .. MaxClasses) /\ F \in SUBSET (1 .. MaxFunctions)
      /\ MaxClasses \in Nat /\ MaxFunctions \in Nat /\ input.fields \subseteq C
      /\ C \subseteq Classes /\ F \subseteq Functions
  BY InputIs DEF Classes, Functions
<1>2. \A c \in C : /\ ClassPieces(w, c) \in Seq(Items)
                   /\ \A x : x \in Range(ClassPieces(w, c)) <=> x \in PiecesOfClass(c) /\ Comes(w, x)
  BY <1>1, ClassPiecesAre
<1>3. \A f \in F : /\ FunctionPieces(w, f) \in Seq(Items)
                   /\ \A x : x \in Range(FunctionPieces(w, f)) <=> x = Function(f) /\ ~Throws(w, x)
  BY <1>1, ItemsAre, PieceIs DEF FunctionPieces
<1>4. Written(P, C, MaxClasses) /\ Written(Q, F, MaxFunctions)
  BY <1>1, <1>2, <1>3 DEF Written
<1>5. FlattenSeq(cs) = InOneSeq(P, C)
  <2>1. InOrder(C) \in [1 .. Cardinality(C) -> C]
    BY <1>1, InOrderIs
  <2>2. cs = [n \in 1 .. Cardinality(C) |-> P[InOrder(C)[n]]]
    BY <2>1
  <2> HIDE DEF cs, P
  <2> QED
    BY <2>2 DEF InOneSeq
<1>6. FlattenSeq(fs) = InOneSeq(Q, F)
  <2>1. InOrder(F) \in [1 .. Cardinality(F) -> F]
    BY <1>1, InOrderIs
  <2>2. fs = [n \in 1 .. Cardinality(F) |-> Q[InOrder(F)[n]]]
    BY <2>1
  <2> HIDE DEF fs, Q
  <2> QED
    BY <2>2 DEF InOneSeq
<1>7. Module(w) = FlattenSeq(cs) \o FlattenSeq(fs)
  BY DEF Module
<1>8. \A c \in C : P[c] = ClassPieces(w, c)
  OBVIOUS
<1>9. \A f \in F : Q[f] = FunctionPieces(w, f)
  OBVIOUS
<1> HIDE DEF C, F, P, Q, cs, fs
<1>10. FlattenSeq(cs) \in Seq(Items) /\ \A x : x \in Range(FlattenSeq(cs)) <=> \E c \in C : x \in Range(P[c])
  BY <1>4, <1>5, InOneSeqIs
<1>11. FlattenSeq(fs) \in Seq(Items) /\ \A x : x \in Range(FlattenSeq(fs)) <=> \E f \in F : x \in Range(Q[f])
  BY <1>4, <1>6, InOneSeqIs
<1>12. Module(w) \in Seq(Items) /\ Range(Module(w)) = Range(FlattenSeq(cs)) \cup Range(FlattenSeq(fs))
  <2>1. PICK a \in Seq(Items) : a = FlattenSeq(cs)
    BY <1>10
  <2>2. PICK b \in Seq(Items) : b = FlattenSeq(fs)
    BY <1>11
  <2> QED
    BY <1>7, <2>1, <2>2, RangeOfTwo
<1>13. ASSUME NEW x
       PROVE  x \in Pieces <=> (\E c \in C : x \in PiecesOfClass(c)) \/ \E f \in F : x = Function(f)
  BY <1>1 DEF Pieces, PiecesOf, PiecesOfClass, C, F
<1>14. \A f \in F : \A x : x = Function(f) => (Comes(w, x) <=> ~Throws(w, x))
  BY ItemsAre DEF Comes
<1>15. ASSUME NEW x PROVE x \in Range(Module(w)) <=> x \in Pieces /\ Comes(w, x)
  <2>1. x \in Range(FlattenSeq(cs)) <=> Comes(w, x) /\ \E c \in C : x \in PiecesOfClass(c)
    BY <1>2, <1>8, <1>10
  <2>2. x \in Range(FlattenSeq(fs)) <=> Comes(w, x) /\ \E f \in F : x = Function(f)
    BY <1>3, <1>9, <1>11, <1>14
  <2> QED
    BY <1>12, <1>13, <2>1, <2>2
<1> QED
  BY <1>12, <1>15

\* A property of a Kotlin class.
LEMMA PropertyIs ==
  ASSUME NEW c \in Classes
  PROVE  /\ Property(c) \in Seq(Items)
         /\ \A x \in Range(Property(c)) : c \in input.fields /\ x \in {Get(c), Set(c)}
<1>1. <<>> \in Seq(Items) /\ Range(<<>>) = {}
  BY DEF Range
<1>2. <<Get(c), Set(c)>> \in Seq(Items) /\ Range(<<Get(c), Set(c)>>) = {Get(c), Set(c)}
  BY ItemsAre DEF Range
<1> QED
  BY <1>1, <1>2 DEF Property

\* What a Kotlin class has from the classes above it.
LEMMA InheritedIs ==
  ASSUME input \in Inputs, NEW c \in input.classes
  PROVE  /\ Inherited(c) \in Seq(Items) /\ Range(Inherited(c)) \subseteq Pieces
         /\ \A n \in DOMAIN Bases(c) : ~Throws("kotlin", Method(Bases(c)[n])) =>
              Method(Bases(c)[n]) \in Range(Inherited(c))
<1> DEFINE m == Len(Bases(c))
           One(n) == Piece("kotlin", Method(Bases(c)[n])) \o Property(Below(c, n))
           ss == [n \in 1 .. m |-> One(n)]
<1>1. m \in Nat /\ DOMAIN Bases(c) = 1 .. m
  BY InputIs, BasesAre
<1>2. ASSUME NEW n \in 1 .. m
      PROVE  /\ One(n) \in Seq(Items) /\ Range(One(n)) \subseteq Pieces
             /\ ~Throws("kotlin", Method(Bases(c)[n])) => Method(Bases(c)[n]) \in Range(One(n))
  <2>1. PICK b \in input.classes : b = Bases(c)[n]
    BY <1>1, BelowIs
  <2>2. PICK d \in input.classes : d = Below(c, n)
    BY <1>1, BelowIs
  <2>3. b \in Classes /\ d \in Classes
    BY InputIs
  <2>4. PICK p \in Seq(Items) : p = Piece("kotlin", Method(b)) /\
          \A x : x \in Range(p) <=> x = Method(b) /\ ~Throws("kotlin", Method(b))
    BY <2>3, ItemsAre, PieceIs
  <2>5. PICK q \in Seq(Items) : q = Property(d) /\
          \A x \in Range(q) : d \in input.fields /\ x \in {Get(d), Set(d)}
    BY <2>3, PropertyIs
  <2>6. p \o q \in Seq(Items) /\ Range(p \o q) = Range(p) \cup Range(q)
    BY RangeOfTwo
  <2>7. One(n) = p \o q
    BY <2>1, <2>2, <2>4, <2>5
  <2>8. Method(b) \in Pieces /\ (d \in input.fields => Get(d) \in Pieces /\ Set(d) \in Pieces)
    BY DEF Pieces, PiecesOf
  <2> HIDE DEF One
  <2> QED
    BY <2>1, <2>4, <2>5, <2>6, <2>7, <2>8
<1>3. Inherited(c) = FlattenSeq(ss)
  BY DEF Inherited
<1>4. \A n \in 1 .. m : ss[n] = One(n)
  OBVIOUS
<1>5. ss \in Seq(Seq(Items)) /\ Len(ss) = m
  <2> HIDE DEF One, m
  <2> QED
    BY <1>1, <1>2
<1> HIDE DEF ss, One, m
<1>6. FlattenSeq(ss) \in Seq(Items) /\ \A x : x \in Range(FlattenSeq(ss)) <=> HeldBy(ss, m, x)
  BY <1>5, FlattenIs
<1> QED
  BY <1>1, <1>2, <1>3, <1>4, <1>6 DEF HeldBy

\* The Kotlin file of a class, which says nothing when the class fails.
LEMMA KotlinClassIs ==
  ASSUME input \in Inputs, NEW c \in input.classes
  PROVE  /\ KotlinClass(c) \in Seq(Items) /\ Range(KotlinClass(c)) \subseteq Pieces
         /\ ClassFails(c) => Range(KotlinClass(c)) = {}
         /\ ~ClassFails(c) =>
              /\ ~Throws("kotlin", Method(c)) => Method(c) \in Range(KotlinClass(c))
              /\ \A n \in DOMAIN Bases(c) : ~Throws("kotlin", Method(Bases(c)[n])) =>
                   Method(Bases(c)[n]) \in Range(KotlinClass(c))
<1>1. CASE ClassFails(c)
  <2>1. KotlinClass(c) = <<>> /\ <<>> \in Seq(Items) /\ Range(<<>>) = {}
    BY <1>1 DEF KotlinClass, Range
  <2> QED
    BY <1>1, <2>1
<1>2. CASE ~ClassFails(c)
  <2>1. c \in Classes
    BY InputIs
  <2>2. PICK h \in Seq(Items) : h = Inherited(c) /\ Range(h) \subseteq Pieces /\
          \A n \in DOMAIN Bases(c) : ~Throws("kotlin", Method(Bases(c)[n])) =>
              Method(Bases(c)[n]) \in Range(h)
    BY InheritedIs
  <2>3. PICK p \in Seq(Items) : p = Piece("kotlin", Method(c)) /\
          \A x : x \in Range(p) <=> x = Method(c) /\ ~Throws("kotlin", Method(c))
    BY <2>1, ItemsAre, PieceIs
  <2>4. PICK q \in Seq(Items) : q = Property(c) /\
          \A x \in Range(q) : c \in input.fields /\ x \in {Get(c), Set(c)}
    BY <2>1, PropertyIs
  <2>5. KotlinClass(c) = h \o p \o q
    BY <1>2, <2>2, <2>3, <2>4 DEF KotlinClass
  <2>6. h \o p \in Seq(Items) /\ Range(h \o p) = Range(h) \cup Range(p)
    BY RangeOfTwo
  <2>7. h \o p \o q \in Seq(Items) /\ Range(h \o p \o q) = Range(h \o p) \cup Range(q)
    <3>1. PICK r \in Seq(Items) : r = h \o p
      BY <2>6
    <3>2. r \o q \in Seq(Items) /\ Range(r \o q) = Range(r) \cup Range(q)
      BY RangeOfTwo
    <3> QED
      BY <3>1, <3>2
  <2>8. Method(c) \in Pieces /\ (c \in input.fields => Get(c) \in Pieces /\ Set(c) \in Pieces)
    BY DEF Pieces, PiecesOf
  <2> QED
    BY <1>2, <2>2, <2>3, <2>4, <2>5, <2>6, <2>7, <2>8
<1> QED
  BY <1>1, <1>2

-----------------------------------------------------------------------------
(* What the files say. *)

\* The file is one that is there, or is not, in one of the ways it may be.
FileIs(f) == dir[f] \in {NotThere, Old, Kept, Opened, Whole(dir[f].says), Cut}

\* A file of this run says what its generator made, which has not thrown; the
\* library is made of the C++ code.
SaysItsContent(f) ==
  Present(f) =>
    IF f = Library THEN dir[f].says = Content(Cpp) /\ ~Escapes(Cpp)
    ELSE dir[f].says = Content(f) /\ ~Escapes(f) /\ Wanted(f)

CInv ==
  /\ input \in Inputs /\ fault \in FaultsOf(input) /\ policy \in {"FAIL", "LOG"}
  /\ \A f \in Files : FileIs(f) /\ SaysItsContent(f)
  /\ phase = "write" => ~Escapes(file)

\* As long as a run goes on, what it generates is the same.
LEMMA SameContent ==
  ASSUME UNCHANGED <<input, fault, policy>>
  PROVE  \A f : /\ Content(f)' = Content(f) /\ (Escapes(f)' <=> Escapes(f)) /\ (Wanted(f)' <=> Wanted(f))
<1> SUFFICES ASSUME NEW f
             PROVE  /\ Content(f)' = Content(f) /\ (Escapes(f)' <=> Escapes(f)) /\ (Wanted(f)' <=> Wanted(f))
  OBVIOUS
<1>1. Content(f)' = Content(f)
  BY DEF Content, Module, ClassPieces, FunctionPieces, Piece, Field, Throws, KotlinClass, Inherited,
         Property, Below, ClassFails, BaseMissing, Bases
<1>2. Escapes(f)' <=> Escapes(f)
  BY DEF Escapes, ThrowsIn, Throws, Reached, Below, ClassFails, BaseMissing, Bases, Pieces
<1>3. Wanted(f)' <=> Wanted(f)
  BY DEF Wanted
<1> QED
  BY <1>1, <1>2, <1>3

\* The ways in which a file is there.
LEMMA FileKinds ==
  /\ NotThere.is = "absent" /\ Old.is = "old" /\ Kept.is = "kept"
  /\ Opened.is = "opened" /\ Cut.is = "cut"
  /\ \A t : Whole(t).is = "whole" /\ Whole(t).says = t
BY DEF NotThere, Old, Kept, Opened, Whole, Cut

\* In a run a file is left as it is, opened, written, deleted, or the library;
\* writing and deleting may fail.
LEMMA RunKeeps ==
  ASSUME CInv, UNCHANGED <<input, fault, policy>>, phase' = "write" => ~Escapes(file'),
         \A f \in Files :
            \/ dir'[f] \in {dir[f], NotThere, Kept, Opened, Cut}
            \/ f # Library /\ dir'[f] = Whole(Content(f)) /\ ~Escapes(f) /\ Wanted(f)
            \/ f = Library /\ dir'[f] = dir[Cpp]
  PROVE  CInv'
<1> DEFINE Fits(f) == \/ dir'[f] \in {dir[f], NotThere, Kept, Opened, Cut}
                      \/ f # Library /\ dir'[f] = Whole(Content(f)) /\ ~Escapes(f) /\ Wanted(f)
                      \/ f = Library /\ dir'[f] = dir[Cpp]
<1>1. input' \in Inputs /\ fault' \in FaultsOf(input') /\ policy' \in {"FAIL", "LOG"}
  BY DEF CInv
<1>2. Cpp \in Files /\ Cpp # Library
  BY FileNumbers DEF Cpp, Library
<1>3. ASSUME NEW f \in Files PROVE FileIs(f)' /\ SaysItsContent(f)'
  <2>1. FileIs(f) /\ SaysItsContent(f) /\ FileIs(Cpp) /\ SaysItsContent(Cpp)
    BY <1>2 DEF CInv
  <2>2. PICK s : s = Content(f)
    OBVIOUS
  <2>3. Content(f)' = Content(f) /\ (Escapes(f)' <=> Escapes(f)) /\ (Wanted(f)' <=> Wanted(f))
        /\ Content(Cpp)' = Content(Cpp) /\ (Escapes(Cpp)' <=> Escapes(Cpp))
    BY SameContent
  <2>4. CASE dir'[f] = dir[f]
    <3>1. FileIs(f)'
      BY <2>1, <2>4 DEF FileIs
    <3>2. Present(f)' => Present(f)
      BY <2>4 DEF Present
    <3> QED
      BY <2>1, <2>3, <2>4, <3>1, <3>2 DEF SaysItsContent
  <2>5. CASE dir'[f] \in {NotThere, Kept, Opened, Cut}
    <3>1. FileIs(f)' /\ ~Present(f)'
      BY <2>5, FileKinds DEF FileIs, Present
    <3> QED
      BY <3>1 DEF SaysItsContent
  <2>6. CASE f # Library /\ dir'[f] = Whole(Content(f)) /\ ~Escapes(f) /\ Wanted(f)
    <3>1. FileIs(f)' /\ dir'[f].says = Content(f)
      BY <2>6, FileKinds DEF FileIs
    <3> QED
      BY <2>3, <2>6, <3>1 DEF SaysItsContent
  <2>7. CASE f = Library /\ dir'[f] = dir[Cpp]
    <3>1. FileIs(f)'
      BY <2>1, <2>7 DEF FileIs
    <3>2. Present(f)' => Present(Cpp) /\ dir'[f].says = dir[Cpp].says
      BY <2>7 DEF Present
    <3> QED
      BY <1>2, <2>1, <2>3, <2>7, <3>1, <3>2 DEF SaysItsContent
  <2> QED
    BY <2>4, <2>5, <2>6, <2>7
<1> QED
  BY <1>1, <1>3, SameContent DEF CInv

\* A run starts with files that no run under way has written.
LEMMA StartKeeps ==
  ASSUME IInv, CInv, Start
  PROVE  CInv'
<1>1. /\ phase = "idle" /\ phase' = "open" /\ dir' = dir /\ policy' \in {"FAIL", "LOG"}
      /\ input' \in Inputs /\ fault' \in FaultsOf(input')
  BY DEF Start
<1>2. \A f \in Files : ~Present(f)' /\ FileIs(f)'
  BY <1>1 DEF IInv, DirInv, CInv, Untouched, Present, FileIs
<1> QED
  BY <1>1, <1>2 DEF CInv, SaysItsContent

\* Nothing is generated.
LEMMA NoInputIs == NoInput \in Inputs /\ NoFault \in FaultsOf(NoInput)
<1>1. MaxClasses \in Nat /\ Classes = 1 .. MaxClasses
  BY OutputAssumption DEF Classes
<1>2. NoInput \in [classes : SUBSET Classes, base : [Classes -> Classes \cup {NoClass}],
                   fields : SUBSET Classes, functions : SUBSET Functions]
  BY DEF NoInput
<1>3. \A c \in Classes : NoInput.base[c] < c /\ NoInput.base[c] = NoClass
  BY <1>1 DEF NoInput, NoClass
<1>4. NoInput.fields \subseteq NoInput.classes
  BY DEF NoInput
<1> QED
  BY <1>2, <1>3, <1>4 DEF Inputs, FaultsOf

\* What a run leaves is old for the next.
LEMMA LeaveKeeps ==
  ASSUME CInv, Leave
  PROVE  CInv'
<1>1. /\ dir' = [f \in Files |-> IF dir[f] = NotThere THEN NotThere ELSE Old]
      /\ phase' = "idle" /\ input' = NoInput /\ fault' = NoFault /\ policy' = "FAIL"
  BY DEF Leave
<1>2. \A f \in Files : FileIs(f)' /\ ~Present(f)'
  BY <1>1, FileKinds DEF FileIs, Present
<1> QED
  BY <1>1, <1>2, NoInputIs DEF CInv, SaysItsContent

\* At first there are no files.
LEMMA ContentInit == Init => CInv
<1> SUFFICES ASSUME Init PROVE CInv
  OBVIOUS
<1>1. \A f \in Files : FileIs(f) /\ ~Present(f)
  BY FileKinds DEF Init, FileIs, Present
<1> QED
  BY <1>1, NoInputIs DEF Init, CInv, SaysItsContent

\* Every step keeps what the files say in line with the input.
LEMMA ContentStep == IInv /\ CInv /\ [Next]_vars => CInv'
<1> SUFFICES ASSUME IInv, CInv, [Next]_vars PROVE CInv'
  OBVIOUS
<1>1. dir = [f \in Files |-> dir[f]] /\ file \in Files /\ Library \in Files
  BY FileNumbers DEF IInv, Library
<1>2. CASE Open
  <2>1. /\ phase' = "write" /\ dir' = [dir EXCEPT ![file] = Opened] /\ ~Escapes(file)
        /\ UNCHANGED <<file, input, fault, policy>>
    BY <1>2 DEF Open
  <2>2. \A f \in Files : dir'[f] \in {dir[f], Opened}
    BY <1>1, <2>1
  <2> QED
    BY <2>1, <2>2, RunKeeps
<1>3. CASE Write \/ WriteLoses
  <2>1. /\ dir' \in {[dir EXCEPT ![file] = Whole(Content(file))], [dir EXCEPT ![file] = Cut]}
        /\ phase = "write" /\ GoOn(file)
        /\ UNCHANGED <<input, fault, policy>>
    BY <1>3 DEF Write, WriteLoses
  <2>2. phase' # "write"
    BY <2>1 DEF GoOn
  <2>3. file # Library /\ Wanted(file) /\ ~Escapes(file)
    BY <2>1 DEF IInv, DirInv, CInv
  <2>4. PICK text : text = Whole(Content(file))
    OBVIOUS
  <2>5. \A f \in Files : IF f = file THEN dir'[f] \in {Whole(Content(f)), Cut} ELSE dir'[f] = dir[f]
    BY <1>1, <2>1, <2>4
  <2> QED
    BY <2>1, <2>2, <2>3, <2>5, RunKeeps
<1>4. CASE Compile
  <2>1. /\ phase' = "clean" /\ dir' = [dir EXCEPT ![Library] = dir[Cpp]]
        /\ UNCHANGED <<file, input, fault, policy>>
    BY <1>4 DEF Compile
  <2>2. \A f \in Files : IF f = Library THEN dir'[f] = dir[Cpp] ELSE dir'[f] = dir[f]
    BY <1>1, <2>1
  <2> QED
    BY <2>1, <2>2, RunKeeps
<1>5. CASE CompileFails
  <2>1. /\ phase' = "failed" /\ dir' \in {dir, [dir EXCEPT ![Library] = NotThere]}
        /\ UNCHANGED <<file, input, fault, policy>>
    BY <1>5 DEF CompileFails
  <2>2. \A f \in Files : dir'[f] \in {dir[f], NotThere}
    BY <1>1, <2>1
  <2> QED
    BY <2>1, <2>2, RunKeeps
<1>6. ASSUME NEW k \in KotlinFiles, Delete(k) \/ DeleteFails(k) PROVE CInv'
  <2>1. /\ dir' \in {[dir EXCEPT ![k] = NotThere], [dir EXCEPT ![k] = Kept]}
        /\ phase = "clean" /\ phase' = phase /\ UNCHANGED <<file, input, fault, policy>>
    BY <1>6 DEF Delete, DeleteFails
  <2>2. \A f \in Files : dir'[f] \in {dir[f], NotThere, Kept}
    BY <1>1, <2>1
  <2> QED
    BY <2>1, <2>2, RunKeeps
<1>7. CASE OpenFails \/ Cleaned \/ Crash \/ UNCHANGED vars
  <2>1. dir' = dir /\ UNCHANGED <<input, fault, policy>>
    BY <1>7 DEF OpenFails, Cleaned, Crash, vars
  <2>2. phase' = "write" => phase = "write" /\ file' = file
    BY <1>7 DEF OpenFails, Cleaned, Crash, vars, GoOn
  <2>3. phase' = "write" => ~Escapes(file')
    BY <2>2 DEF CInv
  <2> QED
    BY <2>1, <2>3, RunKeeps
<1> QED
  BY <1>2, <1>3, <1>4, <1>5, <1>6, <1>7, StartKeeps, LeaveKeeps DEF Next

\* Both invariants hold always.
LEMMA ContentAlways == Spec => [](IInv /\ CInv)
<1>1. Init => IInv /\ CInv
  BY InitInv, ContentInit
<1>2. IInv /\ CInv /\ [Next]_vars => (IInv /\ CInv)'
  BY StepInv, ContentStep
<1> QED
  BY <1>1, <1>2, PTL DEF Spec

\* The C files are not the others.
LEMMA FilesDiffer ==
  Header # Cpp /\ \A f \in {Header, Cpp} : f # Def /\ f # FunctionsKt
BY FileNumbers DEF Header, Cpp, Def, FunctionsKt

\* A file says things of the input only.
LEMMA ContentIs ==
  ASSUME input \in Inputs, NEW f \in Files, f # Library, Wanted(f)
  PROVE  /\ Range(Content(f)) \subseteq Pieces
         /\ f = FunctionsKt => \A g \in input.functions : Function(g) \in Range(Content(f))
<1> USE FileNumbers
<1>1. CASE f \in {Header, Cpp}
  <2>1. f # FunctionsKt /\ \E w : Content(f) = Module(w)
    BY <1>1 DEF Content, Header, Cpp, Def, FunctionsKt
  <2> QED
    BY <2>1, ModuleIs
<1>2. CASE f = Def
  <2>1. f # FunctionsKt /\ Content(f) = <<>> /\ Range(<<>>) = {}
    BY <1>2 DEF Content, Header, Cpp, Def, FunctionsKt, Range
  <2> QED
    BY <2>1
<1>3. CASE f = FunctionsKt
  <2> DEFINE F == input.functions
             s == Content(f)
  <2>1. s = [n \in 1 .. Cardinality(F) |-> Function(InOrder(F)[n])]
    BY <1>3 DEF Content, Header, Cpp, Def, FunctionsKt
  <2>2. F \in SUBSET (1 .. MaxFunctions) /\ MaxFunctions \in Nat
    BY InputIs DEF Functions
  <2>3. /\ InOrder(F) \in [1 .. Cardinality(F) -> F]
        /\ \A g \in F : \E n \in 1 .. Cardinality(F) : InOrder(F)[n] = g
    <3> HIDE DEF F, s
    <3> QED
      BY <2>2, InOrderIs
  <2>4. \A g \in F : Function(g) \in Pieces
    BY DEF Pieces, PiecesOf
  <2> HIDE DEF F, s
  <2>5. DOMAIN s = 1 .. Cardinality(F) /\ \A n \in 1 .. Cardinality(F) : s[n] = Function(InOrder(F)[n])
    BY <2>1
  <2>6. \A g \in F : Function(g) \in Range(s)
    BY <2>3, <2>5 DEF Range
  <2>7. Range(s) \subseteq Pieces
    BY <2>3, <2>4, <2>5 DEF Range
  <2> QED
    BY <2>6, <2>7 DEF F, s
<1>4. CASE f \notin {Header, Cpp, Def, FunctionsKt}
  <2>1. PICK c \in input.classes : f = Kt(c)
    BY <1>4 DEF Wanted, Header, Cpp, Def, Library
  <2>2. c \in Nat /\ f - Library = c
    BY <2>1, InputIs DEF Classes, Kt, Library
  <2>3. Content(f) = KotlinClass(c)
    BY <1>4, <2>2 DEF Content
  <2> QED
    BY <1>4, <2>3, KotlinClassIs
<1> QED
  BY <1>1, <1>2, <1>3, <1>4

\* What the file of a class says.
LEMMA KotlinFileIs ==
  ASSUME input \in Inputs, NEW c \in input.classes
  PROVE  Kt(c) \in Files /\ Kt(c) # Library /\ Wanted(Kt(c)) /\ Content(Kt(c)) = KotlinClass(c)
<1>1. c \in 1 .. MaxClasses /\ MaxClasses \in Nat
  BY InputIs DEF Classes
<1>2. Kt(c) \in 5 .. 4 + MaxClasses /\ Kt(c) - Library = c
  BY <1>1 DEF Kt, Library
<1>3. Kt(c) \notin {Header, Cpp, Def, Library, FunctionsKt}
  BY <1>1, <1>2 DEF Header, Cpp, Def, Library, FunctionsKt
<1>4. Kt(c) \in Files
  BY <1>1, <1>2, FileNumbers
<1> QED
  BY <1>2, <1>3, <1>4 DEF Wanted, Content

\* What the run has written of a file when it is done: nothing is said by one that
\* lost text, and any other says its content.
LEMMA DoneSays ==
  ASSUME IInv, CInv, phase = "done", NEW f \in Files, Wanted(f), f # Library
  PROVE  \/ Lost(f) /\ ~Present(f) /\ Range(dir[f].says) = {}
         \/ ~Lost(f) /\ Present(f) /\ dir[f].says = Content(f) /\ ~Escapes(f)
<1>1. FileIs(f) /\ SaysItsContent(f) /\ (Present(f) \/ Lost(f))
  BY DEF IInv, DirInv, OutputIsThisRuns, CInv
<1>2. CASE Lost(f)
  <2>1. ~Present(f) /\ dir[f] = Cut
    BY <1>1, <1>2, FileKinds DEF FileIs, Lost, Present
  <2>2. dir[f].says = <<>> /\ Range(<<>>) = {}
    BY <2>1 DEF Cut, Range
  <2> QED
    BY <1>2, <2>1, <2>2
<1>3. CASE ~Lost(f)
  BY <1>1, <1>3 DEF SaysItsContent
<1> QED
  BY <1>2, <1>3

\* The header and the library say what their writers come to, if no text was lost.
LEMMA LibrarySays ==
  ASSUME IInv, CInv, phase = "done"
  PROVE  /\ input \in Inputs
         /\ ~Lost(Header) => ~Escapes(Header) /\ \A x \in Pieces : Comes("header", x) => Says(Header, x)
         /\ ~Lost(Library) => ~Escapes(Cpp) /\ \A x \in Pieces : Comes("cpp", x) => Says(Library, x)
<1>1. input \in Inputs
  BY DEF CInv
<1>2. /\ Header \in Files /\ Wanted(Header) /\ Header # Library
      /\ Library \in Files /\ Wanted(Library)
  BY FileNumbers DEF Header, Library, Wanted
<1>3. ASSUME ~Lost(Header) PROVE ~Escapes(Header) /\ dir[Header].says = Module("header")
  <2>1. ~Escapes(Header) /\ dir[Header].says = Content(Header)
    BY <1>2, <1>3, DoneSays
  <2>2. Content(Header) = Module("header")
    BY FilesDiffer DEF Content
  <2> QED
    BY <2>1, <2>2
<1>4. ASSUME ~Lost(Library) PROVE ~Escapes(Cpp) /\ dir[Library].says = Module("cpp")
  <2>1. ~Escapes(Cpp) /\ dir[Library].says = Content(Cpp)
    BY <1>2, <1>4 DEF IInv, DirInv, OutputIsThisRuns, CInv, SaysItsContent
  <2>2. Content(Cpp) = Module("cpp")
    BY FilesDiffer DEF Content
  <2> QED
    BY <2>1, <2>2
<1>5. \A x : x \in Range(Module("header")) <=> x \in Pieces /\ Comes("header", x)
  BY <1>1, ModuleIs
<1>6. \A x : x \in Range(Module("cpp")) <=> x \in Pieces /\ Comes("cpp", x)
  BY <1>1, ModuleIs
<1> QED
  BY <1>1, <1>3, <1>4, <1>5, <1>6 DEF Says

\* With the policy FAIL a writer in C or C++ that got through has thrown at
\* nothing.
LEMMA NothingThrew ==
  ASSUME input \in Inputs, policy = "FAIL", NEW x \in Pieces
  PROVE  /\ ~Escapes(Header) => Comes("header", x)
         /\ ~Escapes(Cpp) => Comes("cpp", x)
<1>1. ~Escapes(Header) => \A y \in Pieces : ~Throws("header", y)
  <2>1. ~Escapes(Header) => ~ThrowsIn("header", Pieces)
    BY FilesDiffer DEF Escapes
  <2> QED
    BY <2>1 DEF ThrowsIn
<1>2. ~Escapes(Cpp) => \A y \in Pieces : ~Throws("cpp", y)
  <2>1. ~Escapes(Cpp) => ~ThrowsIn("cpp", Pieces)
    BY FilesDiffer DEF Escapes
  <2> QED
    BY <2>1 DEF ThrowsIn
<1>3. x.what = "set" => Get(x.of) \in Pieces
  BY DEF Pieces, PiecesOf, Method, Get, Set, Function
<1> QED
  BY <1>1, <1>2, <1>3 DEF Comes

\* With the error policy FAIL every function that the Kotlin files call is in
\* the header and in the library, unless that file lost text when it was closed,
\* for any classes, base classes and fields.
THEOREM CallsHaveADefinition == Spec => []CallsAreDefined
<1>1. IInv /\ CInv => CallsAreDefined
  <2> SUFFICES ASSUME IInv, CInv, phase = "done", policy = "FAIL",
                      NEW f \in KotlinFiles, Wanted(f), NEW x \in Range(dir[f].says)
               PROVE  (Lost(Header) \/ Says(Header, x)) /\ (Lost(Library) \/ Says(Library, x))
    BY DEF CallsAreDefined
  <2>1. f \in Files /\ f # Library
    BY FileNumbers DEF KotlinFiles
  <2>2. dir[f].says = Content(f)
    BY <2>1, DoneSays
  <2>3. x \in Pieces
    BY <2>1, <2>2, LibrarySays, ContentIs
  <2> QED
    BY <2>3, LibrarySays, NothingThrew
<1> QED
  BY <1>1, ContentAlways, PTL

\* A thing that a writer in C or C++ throws at costs that thing (and a setter
\* behind it), a method that fails in Kotlin costs itself, and a Kotlin class is
\* missing just when its base is, or when its companion object fails.
THEOREM FailuresCostThemselves == Spec => []OnlyFailuresAreMissing
<1>1. IInv /\ CInv => OnlyFailuresAreMissing
  <2> SUFFICES ASSUME IInv, CInv, phase = "done", NEW i \in Pieces
               PROVE
      /\ (i.what = "set" => ~Throws("header", Get(i.of))) /\ ~Throws("header", i) =>
           Lost(Header) \/ Says(Header, i)
      /\ (i.what = "set" => ~Throws("cpp", Get(i.of))) /\ ~Throws("cpp", i) =>
           Lost(Library) \/ Says(Library, i)
      /\ i.what = "method" /\ ~Throws("kotlin", i) =>
           Lost(Kt(i.of)) \/ (Says(Kt(i.of), i) <=> ~ClassFails(i.of))
      /\ i.what = "function" => Lost(FunctionsKt) \/ Says(FunctionsKt, i)
    BY DEF OnlyFailuresAreMissing
  <2>0. input \in Inputs
    BY DEF CInv
  <2>1. /\ (i.what = "set" => ~Throws("header", Get(i.of))) /\ ~Throws("header", i) =>
             Lost(Header) \/ Says(Header, i)
        /\ (i.what = "set" => ~Throws("cpp", Get(i.of))) /\ ~Throws("cpp", i) =>
             Lost(Library) \/ Says(Library, i)
    BY LibrarySays DEF Comes
  <2>2. ASSUME i.what = "method", ~Throws("kotlin", i)
        PROVE  Lost(Kt(i.of)) \/ (Says(Kt(i.of), i) <=> ~ClassFails(i.of))
    <3>1. PICK c \in input.classes : i = Method(c) /\ i.of = c
      BY <2>2 DEF Pieces, PiecesOf, Method, Get, Set, Function
    <3>2. Lost(Kt(c)) \/ dir[Kt(c)].says = KotlinClass(c)
      BY <2>0, DoneSays, KotlinFileIs
    <3>3. Method(c) \in Range(KotlinClass(c)) <=> ~ClassFails(c)
      BY <2>0, <2>2, <3>1, KotlinClassIs
    <3> QED
      BY <3>1, <3>2, <3>3 DEF Says
  <2>3. ASSUME i.what = "function" PROVE Lost(FunctionsKt) \/ Says(FunctionsKt, i)
    <3>1. PICK g \in input.functions : i = Function(g)
      BY <2>3 DEF Pieces, PiecesOf, Method, Get, Set, Function
    <3>2. FunctionsKt \in Files /\ FunctionsKt # Library /\ Wanted(FunctionsKt)
      BY <3>1, FileNumbers DEF FunctionsKt, Library, Wanted
    <3>3. Lost(FunctionsKt) \/ dir[FunctionsKt].says = Content(FunctionsKt)
      BY <3>2, DoneSays
    <3>4. Function(g) \in Range(Content(FunctionsKt))
      BY <2>0, <3>2, ContentIs
    <3> QED
      BY <3>1, <3>3, <3>4 DEF Says
  <2> QED
    BY <2>1, <2>2, <2>3
<1> QED
  BY <1>1, ContentAlways, PTL

\* A Kotlin class that is generated has the methods of every class above it,
\* however long the chain is.
THEOREM MethodsComeDown == Spec => []MethodsAreInherited
<1>1. IInv /\ CInv => MethodsAreInherited
  <2> SUFFICES ASSUME IInv, CInv, phase = "done", NEW c \in input.classes, ~ClassFails(c),
                      NEW n \in DOMAIN Bases(c), ~Throws("kotlin", Method(Bases(c)[n]))
               PROVE  Lost(Kt(c)) \/ Says(Kt(c), Method(Bases(c)[n]))
    BY DEF MethodsAreInherited
  <2>0. input \in Inputs
    BY DEF CInv
  <2>1. Lost(Kt(c)) \/ dir[Kt(c)].says = KotlinClass(c)
    BY <2>0, DoneSays, KotlinFileIs
  <2>2. Method(Bases(c)[n]) \in Range(KotlinClass(c))
    BY <2>0, KotlinClassIs
  <2> QED
    BY <2>1, <2>2 DEF Says
<1> QED
  BY <1>1, ContentAlways, PTL

\* Every variable keeps its type, and files say things of the input only.
THEOREM OutputTypeCorrect == Spec => []TypeOK
<1>1. IInv /\ CInv => TypeOK
  <2> SUFFICES ASSUME IInv, CInv PROVE TypeOK
    OBVIOUS
  <2>1. Pieces \subseteq Items
    BY InputIs DEF CInv, Pieces, PiecesOf, Items
  <2>2. ASSUME NEW f \in Files PROVE Range(dir[f].says) \subseteq Items
    <3>1. FileIs(f) /\ SaysItsContent(f) /\ input \in Inputs
      BY DEF CInv
    <3>2. CASE ~Present(f)
      <4>1. dir[f] \in {NotThere, Old, Kept, Opened, Cut}
        BY <3>1, <3>2, FileKinds DEF FileIs, Present
      <4>2. dir[f].says = <<>> /\ Range(<<>>) = {}
        BY <4>1 DEF NotThere, Old, Kept, Opened, Cut, Range
      <4> QED
        BY <4>2
    <3>3. CASE Present(f)
      <4>1. Cpp \in Files /\ Cpp # Library /\ Wanted(Cpp)
        BY FileNumbers DEF Cpp, Library, Wanted
      <4>2. Range(Content(Cpp)) \subseteq Pieces
        BY <3>1, <4>1, ContentIs
      <4>3. f # Library => Range(dir[f].says) \subseteq Pieces
        BY <3>1, <3>3, ContentIs DEF SaysItsContent
      <4>4. f = Library => Range(dir[f].says) \subseteq Pieces
        BY <3>1, <3>3, <4>2 DEF SaysItsContent
      <4> QED
        BY <2>1, <4>3, <4>4
    <3> QED
      BY <3>2, <3>3
  <2>3. DOMAIN dir = Files
    BY DEF IInv
  <2> QED
    BY <2>2, <2>3 DEF TypeOK, IInv, CInv, FileIs
<1> QED
  BY <1>1, ContentAlways, PTL

===============================================================================
