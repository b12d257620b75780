----------------------------- MODULE NamingProofs -----------------------------
(***************************************************************************)
(* Names that must differ do, for any classes, wanted names and bounds.    *)
(* The search for a free name fails only when all that it tries is taken.  *)
(***************************************************************************)
EXTENDS Naming, InductionLemmas, FiniteSetTheorems, SequenceTheorems, TLAPS

\* What a name is given is in allNames from then on.
GivenAreUsed ==
  \A k \in Keys : given[k] # NoName /\ k.member \notin Accessors => given[k] \in allNames

IInv ==
  /\ TypeOK
  /\ GivenAreUsed
  /\ MethodNamesDiffer
  /\ LocalsDiffer
  /\ ImportsDiffer

-----------------------------------------------------------------------------

\* What selectName tries is a sequence of words.
LEMMA CandidateType ==
  ASSUME NEW fq \in FqNames, NEW i \in 0 .. LastCandidate(fq)
  PROVE  Candidate(fq, i) \in Seq(Words)
<1>1. fq \in [pkg : Seq(Words), name : Seq(Words)]
  BY NamingAssumption
<1>2. CASE i <= Len(fq.pkg)
  <2>1. SubSeq(fq.pkg, Len(fq.pkg) - i + 1, Len(fq.pkg)) \in Seq(Words)
    BY <1>1, <1>2
  <2> QED
    BY <1>1, <1>2, <2>1 DEF Candidate
<1>3. CASE ~(i <= Len(fq.pkg))
  <2>1. Digits[i - Len(fq.pkg)] \in Words
    BY <1>1, <1>3, NamingAssumption DEF LastCandidate
  <2> QED
    BY <1>1, <1>3, <2>1 DEF Candidate
<1> QED
  BY <1>2, <1>3

\* A free name is a word that is not used.
LEMMA FreeIsFree ==
  ASSUME NEW name \in Word, NEW used, NEW new \in Longer(name, used), Free(name, used, new)
  PROVE  new \in Word /\ new \notin used
<1>1. PICK n \in 0 .. Cardinality(used) : new = [under |-> name.under + n, stem |-> name.stem]
  BY DEF Longer
<1> QED
  BY <1>1 DEF Word, Free

LEMMA InitInv == Init => IInv
<1> SUFFICES ASSUME Init PROVE IInv
  OBVIOUS
<1>1. TypeOK
  BY NamingAssumption DEF Init, TypeOK, Nothing
<1>2. GivenAreUsed /\ MethodNamesDiffer
  BY DEF Init, Nothing, GivenAreUsed, MethodNamesDiffer
<1>3. LocalsDiffer /\ ImportsDiffer
  BY DEF Init, LocalsDiffer, ImportsDiffer
<1> QED
  BY <1>1, <1>2, <1>3 DEF IInv

\* Naming a method takes a name that no other method has.
LEMMA UniqueCNameKeeps ==
  ASSUME IInv, NEW k \in Keys, UniqueCName(k)
  PROVE  IInv'
<1> USE DEF IInv
<1> DEFINE w == want[k.class][k.member]
<1>1. w \in Word
  <2>1. k.class \in Classes /\ k.member \in Members
    BY DEF Keys
  <2> QED
    BY <2>1, NamingAssumption DEF TypeOK, Wanted
<1>2. PICK new \in Longer(w, allNames) :
        Free(w, allNames, new) /\ Give(k, new) /\ allNames' = allNames \cup {new}
  BY DEF UniqueCName, UsedBy
<1>3. new \in Word /\ new \notin allNames
  BY <1>1, <1>2, FreeIsFree
<1>4. TypeOK'
  BY <1>2, <1>3 DEF TypeOK, UniqueCName, Give
<1>5. \A l \in Keys : given'[l] = IF l = k THEN new ELSE given[l]
  BY <1>2 DEF Give, TypeOK
<1>6. GivenAreUsed'
  BY <1>2, <1>5 DEF GivenAreUsed
<1>7. MethodNamesDiffer'
  BY <1>3, <1>5 DEF MethodNamesDiffer, GivenAreUsed
<1>8. LocalsDiffer' /\ ImportsDiffer'
  BY DEF UniqueCName, LocalsDiffer, ImportsDiffer
<1> QED
  BY <1>4, <1>6, <1>7, <1>8

\* The accessor of a field is not compared, and does not count.
LEMMA AccessorNameKeeps ==
  ASSUME IInv, NEW k \in Keys, AccessorName(k)
  PROVE  IInv'
<1> USE DEF IInv
<1>1. want[k.class][k.member] \in Word
  <2>1. k.class \in Classes /\ k.member \in Members
    BY DEF Keys
  <2> QED
    BY <2>1, NamingAssumption DEF TypeOK, Wanted
<1>2. TypeOK'
  BY <1>1 DEF TypeOK, AccessorName, Give
<1>3. \A l \in Keys : l # k => given'[l] = given[l]
  BY DEF AccessorName, Give, TypeOK
<1>4. GivenAreUsed' /\ MethodNamesDiffer'
  BY <1>3 DEF GivenAreUsed, MethodNamesDiffer, AccessorName
<1>5. LocalsDiffer' /\ ImportsDiffer'
  BY DEF AccessorName, LocalsDiffer, ImportsDiffer
<1> QED
  BY <1>2, <1>4, <1>5

\* A variable gets a name that none in sight has.
LEMMA AllocateNameKeeps ==
  ASSUME IInv, NEW name \in LocalWants, AllocateName(name)
  PROVE  IInv'
<1> USE DEF IInv
<1> DEFINE n == Len(scopes)
<1>1. Desired(name) \in Word
  <2>1. "v" \in Words
    BY WordsAssumption
  <2>2. [under |-> 0, stem |-> "v"] \in Word
    BY <2>1 DEF Word
  <2>3. name \in Word
    BY NamingAssumption
  <2> QED
    BY <2>2, <2>3 DEF Desired
<1>2. PICK new \in Longer(Desired(name), Visible) :
        /\ Free(Desired(name), Visible, new)
        /\ scopes' = [scopes EXCEPT ![n] = Append(@, new)]
  BY DEF AllocateName
<1>3. new \in Word /\ new \notin Visible
  BY <1>1, <1>2, FreeIsFree
<1>4. n \in Nat \ {0} /\ \A i \in 1 .. n : scopes[i] \in Seq(Word)
  BY DEF AllocateName, TypeOK
<1>5. scopes' \in Seq(Seq(Word)) /\ Len(scopes') = n
  <2>1. Append(scopes[n], new) \in Seq(Word)
    BY <1>3, <1>4
  <2> QED
    BY <1>2, <1>4, <2>1 DEF TypeOK
<1>6. \A i \in 1 .. n : i # n => scopes'[i] = scopes[i]
  BY <1>2, <1>4 DEF TypeOK
<1>7. scopes'[n] = Append(scopes[n], new)
  BY <1>2, <1>4 DEF TypeOK
<1>8. \A i \in 1 .. n : \A p \in 1 .. Len(scopes[i]) : scopes[i][p] # new
  <2> SUFFICES ASSUME NEW i \in 1 .. n, NEW p \in 1 .. Len(scopes[i])
               PROVE  scopes[i][p] \in Visible
    BY <1>3
  <2>1. scopes[i][p] \in Range(scopes[i])
    <3>1. p \in DOMAIN scopes[i]
      BY <1>4
    <3> QED
      BY <3>1 DEF Range
  <2> QED
    BY <2>1 DEF Visible
<1>9. new # Object
  BY <1>3 DEF Visible
<1>10. LocalsDiffer'
  <2>1. \A a \in 1 .. n : \A x \in 1 .. Len(scopes'[a]) :
          \/ x \in 1 .. Len(scopes[a]) /\ scopes'[a][x] = scopes[a][x]
          \/ a = n /\ x = Len(scopes[n]) + 1 /\ scopes'[a][x] = new
    <3> SUFFICES ASSUME NEW a \in 1 .. n, NEW x \in 1 .. Len(scopes'[a])
                 PROVE  \/ x \in 1 .. Len(scopes[a]) /\ scopes'[a][x] = scopes[a][x]
                        \/ a = n /\ x = Len(scopes[n]) + 1 /\ scopes'[a][x] = new
      OBVIOUS
    <3>1. CASE a # n
      BY <1>6, <3>1
    <3>2. CASE a = n
      <4>1. scopes[n] \in Seq(Word) /\ scopes'[n] = Append(scopes[n], new)
        BY <1>4, <1>7
      <4>2. x \in 1 .. Len(scopes[n]) + 1
        BY <4>1, <3>2
      <4> QED
        BY <4>1, <4>2, <3>2
    <3> QED
      BY <3>1, <3>2
  <2> SUFFICES ASSUME NEW i \in 1 .. n, NEW j \in 1 .. n,
                      NEW p \in 1 .. Len(scopes'[i]), NEW q \in 1 .. Len(scopes'[j])
               PROVE  /\ scopes'[i][p] # Object
                      /\ scopes'[i][p] = scopes'[j][q] => i = j /\ p = q
    BY <1>5 DEF LocalsDiffer
  <2>2. scopes'[i][p] # Object
    BY <2>1, <1>9 DEF LocalsDiffer
  <2>3. scopes'[i][p] = scopes'[j][q] => i = j /\ p = q
    <3> DEFINE Old(a, x) == x \in 1 .. Len(scopes[a]) /\ scopes'[a][x] = scopes[a][x]
               New(a, x) == a = n /\ x = Len(scopes[n]) + 1 /\ scopes'[a][x] = new
    <3>1. (Old(i, p) \/ New(i, p)) /\ (Old(j, q) \/ New(j, q))
      BY <2>1
    <3>2. Old(i, p) /\ Old(j, q) => (scopes'[i][p] = scopes'[j][q] => i = j /\ p = q)
      <4> SUFFICES ASSUME p \in 1 .. Len(scopes[i]), q \in 1 .. Len(scopes[j]),
                          scopes[i][p] = scopes[j][q]
                   PROVE  i = j /\ p = q
        OBVIOUS
      <4> QED
        BY DEF LocalsDiffer
    <3>3. Old(i, p) /\ New(j, q) => scopes'[i][p] # scopes'[j][q]
      BY <1>8
    <3>4. New(i, p) /\ Old(j, q) => scopes'[i][p] # scopes'[j][q]
      BY <1>8
    <3>5. New(i, p) /\ New(j, q) => i = j /\ p = q
      OBVIOUS
    <3> QED
      BY <3>1, <3>2, <3>3, <3>4, <3>5
  <2> QED
    BY <2>2, <2>3
<1>11. TypeOK'
  BY <1>4, <1>5 DEF TypeOK, AllocateName
<1>12. GivenAreUsed' /\ MethodNamesDiffer' /\ ImportsDiffer'
  BY DEF AllocateName, GivenAreUsed, MethodNamesDiffer, ImportsDiffer
<1> QED
  BY <1>10, <1>11, <1>12

\* A scope comes with no variables, and goes with its own.
LEMMA ScopesKeep ==
  ASSUME IInv, PushScope \/ PopScope
  PROVE  IInv'
<1> USE DEF IInv
<1>1. scopes \in Seq(Seq(Word))
  BY DEF TypeOK
<1>2. CASE PushScope
  <2>1. <<>> \in Seq(Word)
    OBVIOUS
  <2>2. scopes' \in Seq(Seq(Word)) /\ Len(scopes') = Len(scopes) + 1
    BY <1>1, <1>2, <2>1 DEF PushScope
  <2>3. scopes'[Len(scopes) + 1] = <<>> /\ \A i \in 1 .. Len(scopes) : scopes'[i] = scopes[i]
    BY <1>1, <1>2, <2>1 DEF PushScope
  <2>4. \A i \in 1 .. Len(scopes') : \A p \in 1 .. Len(scopes'[i]) :
          i \in 1 .. Len(scopes) /\ scopes'[i] = scopes[i]
    <3> SUFFICES ASSUME NEW i \in 1 .. Len(scopes'), NEW p \in 1 .. Len(scopes'[i])
                 PROVE  i \in 1 .. Len(scopes)
      BY <2>3
    <3>1. Len(scopes) \in Nat
      BY <1>1
    <3>2. i # Len(scopes) + 1
      <4>1. Len(<<>>) = 0
        OBVIOUS
      <4> QED
        BY <2>3, <4>1
    <3> QED
      BY <2>2, <3>1, <3>2
  <2>5. LocalsDiffer'
    <3> SUFFICES ASSUME NEW i \in 1 .. Len(scopes'), NEW j \in 1 .. Len(scopes'),
                        NEW p \in 1 .. Len(scopes'[i]), NEW q \in 1 .. Len(scopes'[j])
                 PROVE  /\ scopes'[i][p] # Object
                        /\ scopes'[i][p] = scopes'[j][q] => i = j /\ p = q
      BY DEF LocalsDiffer
    <3>1. /\ i \in 1 .. Len(scopes) /\ scopes'[i] = scopes[i]
          /\ j \in 1 .. Len(scopes) /\ scopes'[j] = scopes[j]
      BY <2>4
    <3> QED
      BY <3>1 DEF LocalsDiffer
  <2>6. TypeOK'
    <3>1. Len(scopes) \in Nat
      BY <1>1
    <3>2. scopes' # <<>>
      BY <2>2, <3>1
    <3> QED
      BY <1>2, <2>2, <3>2 DEF PushScope, TypeOK
  <2> QED
    BY <1>2, <2>5, <2>6 DEF PushScope, GivenAreUsed, MethodNamesDiffer, ImportsDiffer
<1>3. CASE PopScope
  <2>0. Len(scopes) \in Nat /\ Len(scopes) > 1
    BY <1>1, <1>3 DEF PopScope
  <2>1. /\ scopes' \in Seq(Seq(Word)) /\ Len(scopes') = Len(scopes) - 1
        /\ \A i \in 1 .. Len(scopes') : scopes'[i] = scopes[i]
    BY <1>1, <1>3 DEF PopScope
  <2>2. LocalsDiffer'
    <3> SUFFICES ASSUME NEW i \in 1 .. Len(scopes'), NEW j \in 1 .. Len(scopes'),
                        NEW p \in 1 .. Len(scopes'[i]), NEW q \in 1 .. Len(scopes'[j])
                 PROVE  /\ scopes'[i][p] # Object
                        /\ scopes'[i][p] = scopes'[j][q] => i = j /\ p = q
      BY DEF LocalsDiffer
    <3>1. i \in 1 .. Len(scopes) /\ j \in 1 .. Len(scopes)
      BY SMTT(30), <2>0, <2>1
    <3>2. scopes'[i] = scopes[i] /\ scopes'[j] = scopes[j]
      BY <2>1
    <3>3. p \in 1 .. Len(scopes[i]) /\ q \in 1 .. Len(scopes[j])
      BY <3>2
    <3>4. LocalsDiffer
      BY DEF IInv
    <3>5. /\ scopes[i][p] # Object
          /\ scopes[i][p] = scopes[j][q] => i = j /\ p = q
      BY <3>1, <3>3, <3>4 DEF LocalsDiffer
    <3> QED
      BY <3>2, <3>5
  <2>3. TypeOK'
    <3>1. scopes # <<>> /\ scopes' # <<>>
      BY <1>1, <2>0, <2>1
    <3> QED
      BY <1>3, <2>1, <3>1 DEF PopScope, TypeOK
  <2> QED
    BY <1>3, <2>2, <2>3 DEF PopScope, GivenAreUsed, MethodNamesDiffer, ImportsDiffer
<1> QED
  BY <1>2, <1>3

\* An import gets a name that no other one has.
LEMMA SelectNameKeeps ==
  ASSUME IInv, NEW fq \in FqNames, SelectName(fq)
  PROVE  IInv'
<1> USE DEF IInv
<1>1. PICK i \in 0 .. LastCandidate(fq) :
        Candidate(fq, i) \notin UsedNames /\ Import(fq, Candidate(fq, i))
  BY DEF SelectName
<1>2. Candidate(fq, i) \in Seq(Words)
  BY CandidateType
<1>3. \A a \in imports : a.name # Candidate(fq, i)
  BY <1>1 DEF UsedNames
<1>4. TypeOK'
  BY <1>1, <1>2 DEF Import, TypeOK
<1>5. ImportsDiffer'
  BY <1>1, <1>3 DEF Import, ImportsDiffer
<1> QED
  BY <1>1, <1>4, <1>5 DEF Import, GivenAreUsed, MethodNamesDiffer, LocalsDiffer

\* Between the stages of a run everything is forgotten.
LEMMA StagesKeep ==
  ASSUME IInv, StartWriting \/ StartImports \/ EndFile
  PROVE  IInv'
<1> USE DEF IInv
<1>1. <<<<>>>> \in Seq(Seq(Word)) /\ Len(<<<<>>>>) = 1 /\ Len(<<<<>>>>[1]) = 0
  OBVIOUS
<1>2. CASE StartWriting
  <2>1. want' \in Wanted
    <3>1. \A c \in Classes, m \in Members : want[c][m] \in Wants
      BY DEF TypeOK, Wanted
    <3> QED
      BY <1>2, <3>1 DEF StartWriting, Wanted
  <2>2. TypeOK'
    BY <1>1, <1>2, <2>1, NamingAssumption DEF StartWriting, TypeOK, Nothing
  <2> QED
    BY <1>1, <1>2, <2>2
    DEF StartWriting, GivenAreUsed, MethodNamesDiffer, Nothing, LocalsDiffer, ImportsDiffer
<1>3. CASE StartImports
  <2>1. TypeOK'
    BY <1>3 DEF StartImports, TypeOK
  <2> QED
    BY <1>3, <2>1 DEF StartImports, GivenAreUsed, MethodNamesDiffer, LocalsDiffer, ImportsDiffer
<1>4. CASE EndFile
  <2>1. TypeOK'
    BY <1>1, <1>4 DEF EndFile, TypeOK
  <2> QED
    BY <1>1, <1>4, <2>1 DEF EndFile, GivenAreUsed, MethodNamesDiffer, LocalsDiffer, ImportsDiffer
<1> QED
  BY <1>2, <1>3, <1>4

LEMMA StepInv == IInv /\ [Next]_vars => IInv'
<1> SUFFICES ASSUME IInv, [Next]_vars PROVE IInv'
  OBVIOUS
<1>1. ASSUME NEW c \in Classes, Resolve(c) PROVE IInv'
  <2>1. attempts[c] \in 0 .. MaxAttempts /\ MaxAttempts \in Nat
    BY NamingAssumption DEF IInv, TypeOK
  <2>2. attempts[c] + 1 \in 0 .. MaxAttempts
    BY <1>1, <2>1 DEF Resolve
  <2>3. TypeOK'
    BY <1>1, <2>2 DEF Resolve, IInv, TypeOK
  <2> QED
    BY <1>1, <2>3
    DEF Resolve, IInv, GivenAreUsed, MethodNamesDiffer, LocalsDiffer, ImportsDiffer
<1>2. ASSUME NEW k \in Keys, UniqueCName(k) PROVE IInv'
  BY <1>2, UniqueCNameKeeps
<1>3. ASSUME NEW k \in Keys, AccessorName(k) PROVE IInv'
  BY <1>3, AccessorNameKeeps
<1>4. CASE StartWriting \/ StartImports \/ EndFile
  BY <1>4, StagesKeep
<1>5. ASSUME NEW name \in LocalWants, AllocateName(name) PROVE IInv'
  BY <1>5, AllocateNameKeeps
<1>6. CASE PushScope \/ PopScope
  BY <1>6, ScopesKeep
<1>7. ASSUME NEW fq \in FqNames, SelectName(fq) PROVE IInv'
  BY <1>7, SelectNameKeeps
<1>8. ASSUME NEW fq \in FqNames, CannotName(fq) PROVE IInv'
  BY <1>8 DEF CannotName, IInv, TypeOK, GivenAreUsed, MethodNamesDiffer, LocalsDiffer, ImportsDiffer
<1>9. CASE UNCHANGED vars
  BY <1>9 DEF vars, IInv, TypeOK, GivenAreUsed, MethodNamesDiffer, LocalsDiffer, ImportsDiffer
<1> QED
  BY <1>1, <1>2, <1>3, <1>4, <1>5, <1>6, <1>7, <1>8, <1>9 DEF Next

LEMMA Invariance == Spec => []IInv
  BY InitInv, StepInv, PTL DEF Spec

\* The variables of Naming keep their types.
THEOREM NamingTypeCorrect == Spec => []TypeOK
<1>1. IInv => TypeOK
  BY DEF IInv
<1> QED
  BY <1>1, Invariance, PTL

\* However many methods want a name, in however many classes, each C function
\* that is a method has one of its own (NameHandler.uniqueNameFor).
THEOREM MethodsAreToldApart == Spec => []MethodNamesDiffer
<1>1. IInv => MethodNamesDiffer
  BY DEF IInv
<1> QED
  BY <1>1, Invariance, PTL

\* No variable hides one of the scopes around it, however deep functions are
\* nested (Scope.allocateName).
THEOREM NothingIsHidden == Spec => []LocalsDiffer
<1>1. IInv => LocalsDiffer
  BY DEF IInv
<1> QED
  BY <1>1, Invariance, PTL

\* Whatever a file imports, no two imports get the same name, also when a name
\* with a package or a number looks like another (ImportBlock.selectName).
THEOREM ImportsAreToldApart == Spec => []ImportsDiffer
<1>1. IInv => ImportsDiffer
  BY DEF IInv
<1> QED
  BY <1>1, Invariance, PTL

\* A C function keeps its name while classes are resolved (NamerImpl.name).
THEOREM NamesAreForGood == Spec => NamesStay
<1> DEFINE Kept == \A k \in Keys : phase' = "resolve" /\ given[k] # NoName => given'[k] = given[k]
<1>1. TypeOK /\ [Next]_vars => [Kept]_vars
  <2> SUFFICES ASSUME TypeOK, Next PROVE Kept
    OBVIOUS
  <2>1. ASSUME NEW c \in Classes, Resolve(c) PROVE Kept
    BY <2>1 DEF Resolve
  <2>2. ASSUME NEW k \in Keys, UniqueCName(k) PROVE Kept
    BY <2>2 DEF UniqueCName, Give, TypeOK
  <2>3. ASSUME NEW k \in Keys, AccessorName(k) PROVE Kept
    BY <2>3 DEF AccessorName, Give, TypeOK
  <2>4. CASE StartWriting \/ StartImports \/ EndFile
    BY <2>4 DEF StartWriting, StartImports, EndFile
  <2>5. ASSUME NEW name \in LocalWants, AllocateName(name) PROVE Kept
    BY <2>5 DEF AllocateName
  <2>6. CASE PushScope \/ PopScope
    BY <2>6 DEF PushScope, PopScope
  <2>7. ASSUME NEW fq \in FqNames, SelectName(fq) PROVE Kept
    BY <2>7 DEF SelectName, Import
  <2>8. ASSUME NEW fq \in FqNames, CannotName(fq) PROVE Kept
    BY <2>8 DEF CannotName
  <2> QED
    BY <2>1, <2>2, <2>3, <2>4, <2>5, <2>6, <2>7, <2>8 DEF Next
<1> QED
  BY <1>1, NamingTypeCorrect, PTL DEF Spec, NamesStay

-----------------------------------------------------------------------------
(* What selectName tries. *)

Parts(fq) ==
  /\ fq.pkg \in Seq(Words) /\ fq.name \in Seq(Words)
  /\ Len(fq.pkg) \in Nat /\ Len(fq.name) \in Nat /\ Len(Digits) \in Nat
  /\ LastCandidate(fq) = Len(fq.pkg) + Len(Digits)

LEMMA PartsOf == \A fq \in FqNames : Parts(fq)
BY NamingAssumption DEF Parts, LastCandidate

\* With a number: the name, and one more word, the number.
LEMMA NumberedCandidate ==
  ASSUME NEW fq \in FqNames, NEW i \in 0 .. LastCandidate(fq), i > Len(fq.pkg)
  PROVE  /\ i - Len(fq.pkg) \in 1 .. Len(Digits)
         /\ Len(Candidate(fq, i)) = Len(fq.name) + 1
         /\ \A m \in 1 .. Len(fq.name) : Candidate(fq, i)[m] = fq.name[m]
         /\ Candidate(fq, i)[Len(fq.name) + 1] = Digits[i - Len(fq.pkg)]
<1> DEFINE d == i - Len(fq.pkg)
           s == fq.name
           one == <<Digits[d]>>
<1>1. /\ fq.pkg \in Seq(Words) /\ s \in Seq(Words) /\ Len(s) \in Nat
      /\ Len(fq.pkg) \in Nat /\ Len(Digits) \in Nat
      /\ LastCandidate(fq) = Len(fq.pkg) + Len(Digits)
  BY PartsOf DEF Parts
<1>2. d \in 1 .. Len(Digits) /\ Candidate(fq, i) = s \o one
  <2>1. ~ (i <= Len(fq.pkg)) /\ d \in 1 .. Len(Digits)
    BY <1>1
  <2> QED
    BY <2>1 DEF Candidate
<1>3. one \in Seq(Words) /\ Len(one) = 1 /\ one[1] = Digits[d]
  BY <1>2, NamingAssumption
<1> HIDE DEF d, s, one
<1>4. /\ Len(s \o one) = Len(s) + 1
      /\ \A m \in 1 .. Len(s) + 1 : (s \o one)[m] = IF m <= Len(s) THEN s[m] ELSE one[m - Len(s)]
  <2>1. s \in Seq(Words) /\ one \in Seq(Words)
    BY <1>1, <1>3
  <2>2. /\ Len(s \o one) = Len(s) + Len(one)
        /\ \A m \in 1 .. Len(s) + Len(one) :
             (s \o one)[m] = IF m <= Len(s) THEN s[m] ELSE one[m - Len(s)]
    BY <2>1
  <2> QED
    BY <1>3, <2>2
<1>5. Len(s) + 1 \in 1 .. Len(s) + 1 /\ (Len(s) + 1) - Len(s) = 1 /\ ~ (Len(s) + 1 <= Len(s))
  BY <1>1
<1>6. \A m \in 1 .. Len(s) : m \in 1 .. Len(s) + 1 /\ m <= Len(s)
  BY <1>1
<1>7. (s \o one)[Len(s) + 1] = Digits[d]
  BY <1>3, <1>4, <1>5
<1>8. \A m \in 1 .. Len(s) : (s \o one)[m] = s[m]
  BY <1>4, <1>6
<1> QED
  BY <1>2, <1>4, <1>7, <1>8 DEF d, s

\* With packages: the last i of them, and the name.
LEMMA PackagedCandidate ==
  ASSUME NEW fq \in FqNames, NEW i \in 0 .. LastCandidate(fq), i <= Len(fq.pkg)
  PROVE  /\ Len(Candidate(fq, i)) = Len(fq.name) + i
         /\ i = 1 => /\ Candidate(fq, i)[1] = fq.pkg[Len(fq.pkg)]
                     /\ \A m \in 1 .. Len(fq.name) : Candidate(fq, i)[m + 1] = fq.name[m]
<1> DEFINE k == Len(fq.pkg)
           s == fq.name
           before == SubSeq(fq.pkg, k - i + 1, k)
<1>1. /\ fq.pkg \in Seq(Words) /\ s \in Seq(Words) /\ Len(s) \in Nat /\ k \in Nat
      /\ Candidate(fq, i) = before \o s
      /\ i \in Nat /\ i <= k
  <2>1. Candidate(fq, i) = before \o s
    BY DEF Candidate
  <2> QED
    BY <2>1, PartsOf DEF Parts
<1>2. /\ before \in Seq(Words) /\ Len(before) = i
      /\ i = 1 => before[1] = fq.pkg[k]
  <2>1. \A m \in k - i + 1 .. k : fq.pkg[m] \in Words
    BY <1>1
  <2>2. k - i + 1 \in Int /\ k \in Int
    BY <1>1
  <2> HIDE DEF k
  <2>3. /\ before \in Seq(Words)
        /\ Len(before) = IF k - i + 1 <= k THEN k - (k - i + 1) + 1 ELSE 0
        /\ \A m \in 1 .. k - (k - i + 1) + 1 : before[m] = fq.pkg[(k - i + 1) + m - 1]
    BY <2>1, <2>2, SubSeqProperties
  <2>4. Len(before) = i
    BY <1>1, <2>3
  <2>5. i = 1 => before[1] = fq.pkg[k]
    <3> SUFFICES ASSUME i = 1 PROVE before[1] = fq.pkg[k]
      OBVIOUS
    <3>1. 1 \in 1 .. k - (k - i + 1) + 1 /\ (k - i + 1) + 1 - 1 = k
      BY <1>1
    <3> QED
      BY <2>3, <3>1
  <2> QED
    BY <2>3, <2>4, <2>5
<1> HIDE DEF k, s, before
<1>3. /\ Len(before \o s) = i + Len(s)
      /\ \A m \in 1 .. i + Len(s) : (before \o s)[m] = IF m <= i THEN before[m] ELSE s[m - i]
  BY <1>1, <1>2
<1>4. ASSUME i = 1
      PROVE  (before \o s)[1] = fq.pkg[k] /\ \A m \in 1 .. Len(s) : (before \o s)[m + 1] = s[m]
  <2>1. \A m \in 1 .. Len(s) : m + 1 \in 1 .. i + Len(s) /\ ~ (m + 1 <= i) /\ (m + 1) - i = m
    BY <1>1, <1>4
  <2>2. 1 \in 1 .. i + Len(s) /\ 1 <= i
    BY <1>1, <1>4
  <2> QED
    BY <1>2, <1>3, <1>4, <2>1, <2>2
<1> QED
  BY <1>1, <1>3, <1>4 DEF k, s

\* A package before a name is never a number behind it.
LEMMA PackageIsNoNumber ==
  ASSUME NEW fq \in FqNames, NEW i \in 0 .. LastCandidate(fq), NEW j \in 0 .. LastCandidate(fq),
         i <= Len(fq.pkg), j > Len(fq.pkg), Candidate(fq, i) = Candidate(fq, j)
  PROVE  FALSE
<1> DEFINE s == Candidate(fq, j)
           n == Len(fq.name)
           p == fq.pkg[Len(fq.pkg)]
<1>1. n \in Nat /\ Len(fq.pkg) \in Nat
  BY PartsOf DEF Parts
<1>2. /\ Len(s) = n + 1 /\ (\A m \in 1 .. n : s[m] = fq.name[m])
      /\ j - Len(fq.pkg) \in 1 .. Len(Digits)
      /\ s[n + 1] = Digits[j - Len(fq.pkg)]
  BY NumberedCandidate
<1>3. /\ Len(s) = n + i
      /\ i = 1 => s[1] = p /\ \A m \in 1 .. n : s[m + 1] = fq.name[m]
  BY PackagedCandidate
<1>4. i = 1 /\ Len(fq.pkg) \in 1 .. Len(fq.pkg)
  BY <1>1, <1>2, <1>3
<1> HIDE DEF s, n, p
<1> DEFINE N == {m \in Nat : m <= n => s[m + 1] = p}
<1>5. 0 \in N
  BY <1>3, <1>4
<1>6. ASSUME NEW m \in Nat, m \in N PROVE m + 1 \in N
  <2> SUFFICES ASSUME m + 1 <= n PROVE s[(m + 1) + 1] = p
    OBVIOUS
  <2>1. m + 1 \in 1 .. n /\ s[m + 1] = p
    BY <1>1, <1>6
  <2> QED
    BY <1>2, <1>3, <1>4, <2>1
<1> HIDE DEF N
<1>7. n \in N
  BY <1>1, <1>5, <1>6, Induction
<1>8. s[n + 1] = p
  BY <1>1, <1>7 DEF N
<1>9. fq.pkg[Len(fq.pkg)] = Digits[j - Len(fq.pkg)]
  BY <1>2, <1>8 DEF p
<1> QED
  BY <1>2, <1>4, <1>9, DigitsAssumption

\* All that is tried is different.
LEMMA CandidatesDiffer ==
  ASSUME NEW fq \in FqNames, NEW i \in 0 .. LastCandidate(fq), NEW j \in 0 .. LastCandidate(fq),
         Candidate(fq, i) = Candidate(fq, j)
  PROVE  i = j
<1>1. /\ Len(fq.pkg) \in Nat /\ Len(fq.name) \in Nat /\ Len(Digits) \in Nat
      /\ LastCandidate(fq) = Len(fq.pkg) + Len(Digits)
  BY PartsOf DEF Parts
<1>2. (i <= Len(fq.pkg) <=> j <= Len(fq.pkg))
  <2>1. ~ (i <= Len(fq.pkg) /\ j > Len(fq.pkg))
    BY PackageIsNoNumber
  <2>2. ~ (j <= Len(fq.pkg) /\ i > Len(fq.pkg))
    BY PackageIsNoNumber
  <2> QED
    BY <1>1, <2>1, <2>2
<1>3. CASE i <= Len(fq.pkg) /\ j <= Len(fq.pkg)
  <2>1. Len(fq.name) + i = Len(fq.name) + j
    BY <1>3, PackagedCandidate
  <2> QED
    BY <1>1, <2>1
<1>4. CASE i > Len(fq.pkg) /\ j > Len(fq.pkg)
  <2>1. /\ i - Len(fq.pkg) \in 1 .. Len(Digits) /\ j - Len(fq.pkg) \in 1 .. Len(Digits)
        /\ Digits[i - Len(fq.pkg)] = Digits[j - Len(fq.pkg)]
    <3>1. /\ i - Len(fq.pkg) \in 1 .. Len(Digits)
          /\ Candidate(fq, i)[Len(fq.name) + 1] = Digits[i - Len(fq.pkg)]
      BY <1>4, NumberedCandidate
    <3>2. /\ j - Len(fq.pkg) \in 1 .. Len(Digits)
          /\ Candidate(fq, j)[Len(fq.name) + 1] = Digits[j - Len(fq.pkg)]
      BY <1>4, NumberedCandidate
    <3> QED
      BY <3>1, <3>2
  <2>2. i - Len(fq.pkg) = j - Len(fq.pkg)
    BY <2>1, DigitsAssumption
  <2> QED
    BY <1>1, <2>2
<1> QED
  BY <1>1, <1>2, <1>3, <1>4

\* When all of it is used there are at least as many imports.
LEMMA AllAreUsed ==
  ASSUME NEW fq \in FqNames, IsFiniteSet(imports),
         \A i \in 0 .. LastCandidate(fq) : Candidate(fq, i) \in UsedNames
  PROVE  Cardinality(imports) > LastCandidate(fq)
<1> DEFINE T == 0 .. LastCandidate(fq)
           f == [i \in T |-> CHOOSE m \in imports : m.name = Candidate(fq, i)]
<1>1. \A i \in T : f[i] \in imports /\ f[i].name = Candidate(fq, i)
  <2> SUFFICES ASSUME NEW i \in T
               PROVE  f[i] \in imports /\ f[i].name = Candidate(fq, i)
    OBVIOUS
  <2>1. \E m \in imports : m.name = Candidate(fq, i)
    BY DEF UsedNames
  <2> QED
    BY <2>1
<1>2. f \in [T -> imports] /\ DOMAIN f = T
  BY <1>1
<1> HIDE DEF f
<1>3. \A i, j \in T : f[i] = f[j] => i = j
  BY <1>1, CandidatesDiffer
<1>4. f \in Injection(T, imports)
  BY <1>2, <1>3 DEF Injection, IsInjective
<1>5. Cardinality(T) <= Cardinality(imports)
  <2> HIDE DEF T
  <2> QED
    BY <1>4, FS_Injection
<1>6. LastCandidate(fq) \in Nat
  BY PartsOf DEF Parts
<1>7. Cardinality(T) = LastCandidate(fq) + 1
  <2>1. Cardinality(0 .. LastCandidate(fq)) =
          IF 0 > LastCandidate(fq) THEN 0 ELSE LastCandidate(fq) - 0 + 1
    BY <1>6, FS_Interval
  <2> QED
    BY <1>6, <2>1
<1>8. Cardinality(imports) \in Nat
  BY FS_CardinalityType
<1> QED
  BY <1>5, <1>6, <1>7, <1>8

\* The generator stops over imports only when a name and all that is tried in its
\* place are taken by others: never while packages and numbers can tell it apart
\* (ImportBlock.selectName), whatever the names look like.
THEOREM ImportsStopLate == Spec => []StopsLate
<1>1. Init => IsFiniteSet(imports) /\ StopsLate
  BY FS_EmptySet DEF Init, StopsLate
<1>2. TypeOK /\ IsFiniteSet(imports) /\ StopsLate /\ [Next]_vars
        => IsFiniteSet(imports') /\ StopsLate'
  <2> SUFFICES ASSUME TypeOK, IsFiniteSet(imports), StopsLate, [Next]_vars
               PROVE  IsFiniteSet(imports') /\ StopsLate'
    OBVIOUS
  <2>1. ASSUME NEW fq \in FqNames, SelectName(fq)
        PROVE  IsFiniteSet(imports') /\ StopsLate'
    <3>1. phase' # "stopped" /\ \E i \in 0 .. LastCandidate(fq) : Import(fq, Candidate(fq, i))
      BY <2>1 DEF SelectName, Import
    <3>2. PICK new : imports' = imports \cup {new}
      BY <3>1 DEF Import
    <3> QED
      BY <3>1, <3>2, FS_AddElement DEF StopsLate
  <2>2. ASSUME NEW fq \in FqNames, CannotName(fq)
        PROVE  IsFiniteSet(imports') /\ StopsLate'
    <3>1. /\ fq \in todo /\ UNCHANGED <<todo, imports>>
          /\ \A i \in 0 .. LastCandidate(fq) : Candidate(fq, i) \in UsedNames
      BY <2>2 DEF CannotName
    <3>2. Cardinality(imports) > Len(fq.pkg) + Len(Digits)
      BY <3>1, AllAreUsed DEF LastCandidate
    <3> QED
      BY <3>1, <3>2 DEF StopsLate
  <2>3. CASE EndFile
    BY <2>3, FS_EmptySet DEF EndFile, StopsLate
  <2>4. CASE \/ \E c \in Classes : Resolve(c)
             \/ \E k \in Keys : UniqueCName(k) \/ AccessorName(k)
             \/ StartWriting
             \/ \E name \in LocalWants : AllocateName(name)
             \/ PushScope \/ PopScope \/ StartImports
    <3>1. imports' = imports /\ phase' # "stopped"
      BY <2>4 DEF Resolve, UniqueCName, AccessorName, StartWriting, AllocateName, PushScope,
                  PopScope, StartImports
    <3> QED
      BY <3>1 DEF StopsLate
  <2>5. CASE UNCHANGED vars
    BY <2>5 DEF vars, StopsLate
  <2> QED
    BY <2>1, <2>2, <2>3, <2>4, <2>5 DEF Next
<1>3. (IsFiniteSet(imports))' <=> IsFiniteSet(imports')
  OBVIOUS
<1> QED
  BY <1>1, <1>2, <1>3, NamingTypeCorrect, PTL DEF Spec

=============================================================================
