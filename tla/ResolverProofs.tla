--------------------------- MODULE ResolverProofs ---------------------------
(***************************************************************************)
(* Proofs about Resolver, for any classes, references and policies.  The   *)
(* invariants follow the recursion and build on one another:               *)
(*  - IInv: calls of map and of resolve alternate, so that what the        *)
(*    innermost call returned is an answer to the one that asked, and      *)
(*    every mark in otherResolved belongs to a call that waits;            *)
(*  - OInv: under OPAQUE_MISSING a call of resolve loses no reference;     *)
(*  - SInv: the types, and who called whom: each call of map is for the    *)
(*    type that the resolve below it asks for at this point;               *)
(*  - BInv: which policies throw, and which look elsewhere;                *)
(*  - TInv: under THROW_MISSING all that was found is made, or marked;     *)
(*  - LInv: under IGNORE_MISSING and INCLUDE_MISSING no class that the     *)
(*    reference definition keeps was given up;                             *)
(*  - NInv: without INCLUDE_MISSING a class that is nested in no other is  *)
(*    resolved once, or fails.                                             *)
(***************************************************************************)
EXTENDS Resolver, InductionLemmas, FiniteSetTheorems, SequenceTheorems, TLAPS

\* A call, whatever it is about.
IsFrame(f) ==
  /\ f = [kind |-> f.kind, stage |-> f.stage, type |-> f.type, mark |-> f.mark,
          cls |-> f.cls, at |-> f.at, over |-> f.over, refs |-> f.refs, lost |-> f.lost]
  /\ f.kind \in {"map", "class"}

\* Calls of map and of resolve alternate; the outermost is one of map.
IsStack(s) ==
  /\ \E F : s \in Seq(F)
  /\ \A i \in 1 .. Len(s) : IsFrame(s[i])
  /\ \A i \in 1 .. Len(s) - 1 : s[i].kind # s[i + 1].kind
  /\ s # <<>> => s[Len(s)].kind = "map"

\* What a call of map and a call of resolve may return.
Mappings == {"Unchanged", "Remove", "Opaque"}
MapAnswers == Mappings \cup {"Throw"}
ClassAnswers == {"class", "null", "Throw"}

\* What the innermost call has got is an answer to what it asked for.
Fits(s, a) ==
  s # <<>> => a = "none" \/ (IF s[1].kind = "map" THEN a \in ClassAnswers ELSE a \in MapAnswers)

\* The mark m is that of a call of map which waits, or has just got its answer.
Held(s, a, m) ==
  \E i \in 1 .. Len(s) : s[i].kind = "map" /\ s[i].mark = m /\ (i > 1 \/ a # "none")

\* The inductive invariant: answers fit the calls, and marks belong to them.
IInv ==
  /\ policy \in AllPolicies
  /\ \A t \in DOMAIN cache : cache[t] \in Mappings
  /\ IsStack(stack)
  /\ Fits(stack, answer)
  /\ \A m \in inProgress : Held(stack, answer, m)

-----------------------------------------------------------------------------
(* The stack. *)

\* Sequences of one element make a sequence of two.
LEMMA OneAndOne ==
  ASSUME NEW a, NEW b
  PROVE  <<a>> \o <<b>> = <<a, b>>
<1> DEFINE t == <<a>> \o <<b>>
<1>1. <<a>> \in Seq({a, b}) /\ <<b>> \in Seq({a, b}) /\ <<a, b>> \in Seq({a, b})
  OBVIOUS
<1>2. t \in Seq({a, b}) /\ Len(t) = 2 /\ t[1] = a /\ t[2] = b
  BY <1>1
<1>3. \A i \in 1 .. 2 : t[i] = <<a, b>>[i]
  BY <1>2
<1> HIDE DEF t
<1>4. t = <<a, b>>
  BY <1>1, <1>2, <1>3, SeqEqual
<1> QED
  BY <1>4 DEF t

\* A call is made by one of the other kind.
LEMMA Pushed ==
  ASSUME NEW s, IsStack(s), NEW f, IsFrame(f),
         IF s = <<>> THEN f.kind = "map" ELSE f.kind # s[1].kind
  PROVE  /\ IsStack(<<f>> \o s)
         /\ <<f>> \o s # <<>> /\ (<<f>> \o s)[1] = f
         /\ Len(<<f>> \o s) = Len(s) + 1 /\ Len(s) \in Nat
         /\ \A i \in 1 .. Len(s) : (<<f>> \o s)[i + 1] = s[i]
<1> DEFINE t == <<f>> \o s
<1>1. PICK F : s \in Seq(F)
  BY DEF IsStack
<1>2. s \in Seq(F \cup {f}) /\ <<f>> \in Seq(F \cup {f})
  BY <1>1
<1>3. /\ t \in Seq(F \cup {f}) /\ Len(s) \in Nat
      /\ Len(t) = Len(s) + 1
      /\ t[1] = f
      /\ \A i \in 1 .. Len(s) : t[i + 1] = s[i]
      /\ \A i \in 2 .. Len(t) : t[i] = s[i - 1]
  BY <1>2
<1>4. t # <<>>
  BY <1>3
<1>5. \A i \in 1 .. Len(t) : IsFrame(t[i])
  <2> SUFFICES ASSUME NEW i \in 1 .. Len(t) PROVE IsFrame(t[i])
    OBVIOUS
  <2>1. CASE i = 1
    BY <2>1, <1>3
  <2>2. CASE i # 1
    <3>1. i - 1 \in 1 .. Len(s) /\ t[i] = s[i - 1]
      BY <2>2, <1>3
    <3> QED
      BY <3>1 DEF IsStack
  <2> QED
    BY <2>1, <2>2
<1>6. \A i \in 1 .. Len(t) - 1 : t[i].kind # t[i + 1].kind
  <2> SUFFICES ASSUME NEW i \in 1 .. Len(t) - 1 PROVE t[i].kind # t[i + 1].kind
    OBVIOUS
  <2>1. i \in 1 .. Len(s) /\ t[i + 1] = s[i]
    BY <1>3
  <2>2. CASE i = 1
    <3>1. s # <<>>
      BY <2>1
    <3> QED
      BY <2>1, <2>2, <3>1, <1>3
  <2>3. CASE i # 1
    <3>1. i - 1 \in 1 .. Len(s) - 1 /\ t[i] = s[i - 1] /\ (i - 1) + 1 = i
      BY <2>1, <2>3, <1>3
    <3> QED
      BY <2>1, <3>1 DEF IsStack
  <2> QED
    BY <2>2, <2>3
<1>7. t[Len(t)].kind = "map"
  <2>1. CASE s = <<>>
    <3>1. Len(t) = 1
      BY <2>1, <1>3
    <3> QED
      BY <2>1, <3>1, <1>3
  <2>2. CASE s # <<>>
    <3>1. Len(s) \in 1 .. Len(s) /\ t[Len(s) + 1] = s[Len(s)]
      BY <2>2, <1>1, <1>3
    <3> QED
      BY <2>2, <3>1, <1>3 DEF IsStack
  <2> QED
    BY <2>1, <2>2
<1> QED
  BY <1>3, <1>4, <1>5, <1>6, <1>7 DEF IsStack

\* Below a call of resolve is the call of map that made it.
LEMMA Popped ==
  ASSUME NEW s, IsStack(s), s # <<>>
  PROVE  /\ IsStack(Tail(s)) /\ IsFrame(Head(s)) /\ Head(s) = s[1]
         /\ IF Tail(s) = <<>> THEN Head(s).kind = "map" ELSE Head(s).kind # Tail(s)[1].kind
         /\ Len(s) \in Nat /\ Len(Tail(s)) = Len(s) - 1
         /\ \A i \in 1 .. Len(Tail(s)) : Tail(s)[i] = s[i + 1]
<1> DEFINE t == Tail(s)
<1>1. PICK F : s \in Seq(F)
  BY DEF IsStack
<1>2. /\ t \in Seq(F) /\ Len(s) \in Nat /\ Len(s) >= 1
      /\ Len(t) = Len(s) - 1
      /\ \A i \in 1 .. Len(t) : t[i] = s[i + 1]
      /\ Head(s) = s[1]
  BY <1>1, HeadTailProperties
<1>3. IsFrame(Head(s))
  BY <1>2 DEF IsStack
<1>4. \A i \in 1 .. Len(t) : IsFrame(t[i])
  <2> SUFFICES ASSUME NEW i \in 1 .. Len(t) PROVE IsFrame(t[i])
    OBVIOUS
  <2>1. i + 1 \in 1 .. Len(s) /\ t[i] = s[i + 1]
    BY <1>2
  <2> QED
    BY <2>1 DEF IsStack
<1>5. \A i \in 1 .. Len(t) - 1 : t[i].kind # t[i + 1].kind
  <2> SUFFICES ASSUME NEW i \in 1 .. Len(t) - 1 PROVE t[i].kind # t[i + 1].kind
    OBVIOUS
  <2>1. /\ i + 1 \in 1 .. Len(s) - 1
        /\ t[i] = s[i + 1] /\ t[i + 1] = s[(i + 1) + 1]
    BY <1>2
  <2> QED
    BY <2>1 DEF IsStack
<1>6. t # <<>> => t[Len(t)].kind = "map"
  <2> SUFFICES ASSUME t # <<>> PROVE t[Len(t)].kind = "map"
    OBVIOUS
  <2>1. Len(t) \in 1 .. Len(t) /\ Len(t) + 1 = Len(s)
    BY <1>2
  <2>2. t[Len(t)] = s[Len(s)]
    BY <2>1, <1>2
  <2> QED
    BY <2>2 DEF IsStack
<1>7. IF t = <<>> THEN Head(s).kind = "map" ELSE Head(s).kind # t[1].kind
  <2>1. CASE t = <<>>
    <3>1. Len(t) = 0
      BY <2>1
    <3>2. Len(s) = 1
      BY <3>1, <1>2
    <3> QED
      BY <2>1, <3>2, <1>2 DEF IsStack
  <2>2. CASE t # <<>>
    <3>1. 1 \in 1 .. Len(s) - 1 /\ t[1] = s[1 + 1]
      BY <2>2, <1>2
    <3> QED
      BY <2>2, <3>1, <1>2 DEF IsStack
  <2> QED
    BY <2>1, <2>2
<1> QED
  BY <1>2, <1>3, <1>4, <1>5, <1>6, <1>7 DEF IsStack

\* Two calls in front of the rest are two calls one after the other.
LEMMA Prepended ==
  ASSUME NEW s, IsStack(s), s # <<>>, NEW f, NEW g
  PROVE  <<f>> \o (<<g>> \o Tail(s)) = <<f, g>> \o Tail(s)
<1>1. PICK F : Tail(s) \in Seq(F)
  BY Popped DEF IsStack
<1> DEFINE G == F \cup {f, g}
<1>2. Tail(s) \in Seq(G) /\ <<f>> \in Seq(G) /\ <<g>> \in Seq(G)
  BY <1>1
<1>3. (<<f>> \o <<g>>) \o Tail(s) = <<f>> \o (<<g>> \o Tail(s))
  BY <1>2, ConcatAssociative
<1> QED
  BY <1>3, OneAndOne

\* A call ends: its caller gets v, and every mark but that of the call stays held.
LEMMA Returned ==
  ASSUME NEW s, IsStack(s), s # <<>>, NEW v, NEW a,
         IF Head(s).kind = "map" THEN v \in MapAnswers ELSE v \in ClassAnswers
  PROVE  /\ IsStack(Tail(s)) /\ Fits(Tail(s), v)
         /\ \A m : /\ Held(s, a, m)
                   /\ Head(s).kind = "class" \/ a = "none" \/ Head(s).mark # m
                   => Held(Tail(s), v, m)
<1> DEFINE t == Tail(s)
<1>1. /\ IsStack(t) /\ IsFrame(Head(s)) /\ Head(s) = s[1]
      /\ IF t = <<>> THEN Head(s).kind = "map" ELSE Head(s).kind # t[1].kind
      /\ Len(s) \in Nat /\ Len(t) = Len(s) - 1
      /\ \A i \in 1 .. Len(t) : t[i] = s[i + 1]
  BY Popped
<1>2. Fits(t, v)
  <2> SUFFICES ASSUME t # <<>> PROVE IF t[1].kind = "map" THEN v \in ClassAnswers ELSE v \in MapAnswers
    BY DEF Fits
  <2>1. 1 \in 1 .. Len(t)
    BY <1>1 DEF IsStack
  <2>2. IsFrame(t[1])
    BY <1>1, <2>1 DEF IsStack
  <2> QED
    BY <1>1, <2>2 DEF IsFrame
<1>3. ASSUME NEW m, Held(s, a, m), Head(s).kind = "class" \/ a = "none" \/ Head(s).mark # m
      PROVE  Held(t, v, m)
  <2>1. PICK i \in 1 .. Len(s) : s[i].kind = "map" /\ s[i].mark = m /\ (i > 1 \/ a # "none")
    BY <1>3 DEF Held
  <2>2. i # 1
    BY <1>1, <1>3, <2>1
  <2>3. i - 1 \in 1 .. Len(t) /\ t[i - 1] = s[i]
    <3>1. i - 1 \in 1 .. Len(t) /\ (i - 1) + 1 = i
      BY <1>1, <2>2
    <3> QED
      BY <1>1, <3>1
  <2>4. v # "none"
    BY DEF MapAnswers, ClassAnswers, Mappings
  <2> QED
    BY <2>1, <2>3, <2>4 DEF Held
<1> QED
  BY <1>1, <1>2, <1>3

\* A call makes another one, and waits: every mark stays held.
LEMMA Called ==
  ASSUME NEW s, IsStack(s), NEW a, NEW f, IsFrame(f),
         IF s = <<>> THEN f.kind = "map" ELSE f.kind # s[1].kind
  PROVE  /\ IsStack(<<f>> \o s) /\ Fits(<<f>> \o s, "none")
         /\ \A m : Held(s, a, m) => Held(<<f>> \o s, "none", m)
         /\ s # <<>> /\ s[1].kind = "map" => Held(<<f>> \o s, "none", s[1].mark)
<1> DEFINE t == <<f>> \o s
<1>1. /\ IsStack(t) /\ Len(t) = Len(s) + 1 /\ Len(s) \in Nat
      /\ \A i \in 1 .. Len(s) : t[i + 1] = s[i]
  BY Pushed
<1>2. Fits(t, "none")
  BY DEF Fits
<1>3. ASSUME NEW m, NEW i \in 1 .. Len(s), s[i].kind = "map", s[i].mark = m
      PROVE  Held(t, "none", m)
  <2>1. i + 1 \in 1 .. Len(t) /\ t[i + 1] = s[i] /\ i + 1 > 1
    BY <1>1
  <2> QED
    BY <1>3, <2>1 DEF Held
<1>4. \A m : Held(s, a, m) => Held(t, "none", m)
  BY <1>3 DEF Held
<1>5. s # <<>> => 1 \in 1 .. Len(s)
  BY <1>1 DEF IsStack
<1> QED
  BY <1>1, <1>2, <1>3, <1>4, <1>5

\* A call goes on to its next question: every mark but its own stays held.
LEMMA WentOn ==
  ASSUME NEW s, IsStack(s), s # <<>>, NEW a, NEW f, IsFrame(f), f.kind = Head(s).kind
  PROVE  /\ IsStack(<<f>> \o Tail(s)) /\ Fits(<<f>> \o Tail(s), "none")
         /\ \A m : /\ Held(s, a, m)
                   /\ Head(s).kind = "class" \/ a = "none" \/ Head(s).mark # m
                   => Held(<<f>> \o Tail(s), "none", m)
<1> DEFINE t == Tail(s)
<1>1. /\ IsStack(t) /\ Head(s) = s[1] /\ IsFrame(Head(s))
      /\ IF t = <<>> THEN f.kind = "map" ELSE f.kind # t[1].kind
  BY Popped
<1>2. PICK v : v \in MapAnswers /\ v \in ClassAnswers
  BY DEF MapAnswers, ClassAnswers
<1>3. \A m : /\ Held(s, a, m)
             /\ Head(s).kind = "class" \/ a = "none" \/ Head(s).mark # m
             => Held(t, v, m)
  BY <1>2, Returned
<1>4. /\ IsStack(<<f>> \o t) /\ Fits(<<f>> \o t, "none")
      /\ \A m : Held(t, v, m) => Held(<<f>> \o t, "none", m)
  BY <1>1, Called
<1> QED
  BY <1>3, <1>4

LEMMA Frames ==
  /\ \A t : IsFrame(MapFrame(t)) /\ MapFrame(t).kind = "map"
  /\ \A c : IsFrame(ClassFrame(c)) /\ ClassFrame(c).kind = "class"
BY DEF IsFrame, MapFrame, ClassFrame

LEMMA Puts ==
  ASSUME NEW m, NEW k, NEW v, \A x \in DOMAIN m : m[x] \in Mappings, v \in Mappings
  PROVE  \A x \in DOMAIN Put(m, k, v) : Put(m, k, v)[x] \in Mappings
BY DEF Put

\* The calls under way when a step is taken.
LEMMA TopIs ==
  ASSUME IInv, NEW k, NEW g, Running(k, g)
  PROVE  /\ stack # <<>> /\ IsStack(stack) /\ IsFrame(Top) /\ Top = stack[1] /\ Top.kind = k
         /\ answer = "none" \/ (IF k = "map" THEN answer \in ClassAnswers ELSE answer \in MapAnswers)
<1>1. stack # <<>> /\ Top.kind = k /\ IsStack(stack)
  BY DEF Running, IInv
<1>2. IsFrame(Head(stack)) /\ Head(stack) = stack[1]
  BY <1>1, Popped
<1>3. Fits(stack, answer)
  BY DEF IInv
<1> QED
  BY <1>1, <1>2, <1>3 DEF Top, Fits

\* map returns a mapping, and caches it: what is held then.
LEMMA MappedIs ==
  ASSUME IInv, NEW g, Running("map", g), NEW v, v \in Mappings, Mapped(v)
  PROVE  /\ \A t \in DOMAIN cache' : cache'[t] \in Mappings
         /\ IsStack(stack') /\ Fits(stack', answer')
         /\ \A m \in inProgress : answer = "none" \/ m # Top.mark => Held(stack', answer', m)
<1>1. /\ stack # <<>> /\ IsStack(stack) /\ Top.kind = "map"
      /\ stack' = Tail(stack) /\ answer' = v /\ cache' = Put(cache, Top.type, v)
  BY TopIs DEF Mapped, Return
<1>2. \A t \in DOMAIN cache' : cache'[t] \in Mappings
  BY <1>1, Puts DEF IInv
<1>3. v \in MapAnswers
  BY DEF MapAnswers
<1>4. /\ IsStack(Tail(stack)) /\ Fits(Tail(stack), v)
      /\ \A m : /\ Held(stack, answer, m)
                /\ Head(stack).kind = "class" \/ answer = "none" \/ Head(stack).mark # m
                => Held(Tail(stack), v, m)
  BY <1>1, <1>3, Returned DEF Top
<1>5. \A m \in inProgress : answer = "none" \/ m # Top.mark => Held(Tail(stack), v, m)
  BY <1>4 DEF Top, IInv
<1> QED
  BY <1>1, <1>2, <1>4, <1>5

\* The same of what typeMapper makes of a missing type.
LEMMA OnMissingIs ==
  ASSUME IInv, NEW g, Running("map", g), OnMissing
  PROVE  /\ \A t \in DOMAIN cache' : cache'[t] \in Mappings
         /\ IsStack(stack') /\ Fits(stack', answer')
         /\ \A m \in inProgress : answer = "none" \/ m # Top.mark => Held(stack', answer', m)
<1>1. stack # <<>> /\ IsStack(stack) /\ IsFrame(Top) /\ Top.kind = "map"
  BY TopIs
<1>2. CASE policy \in {"IGNORE_MISSING", "OPAQUE_MISSING"}
  <2>1. PICK v \in Mappings : Mapped(v)
    BY <1>2 DEF OnMissing, Mappings
  <2> QED
    BY <2>1, MappedIs
<1>3. CASE policy = "THROW_MISSING"
  <2>1. stack' = Tail(stack) /\ answer' = "Throw" /\ cache' = cache
    BY <1>3 DEF OnMissing, Return
  <2>2. "Throw" \in MapAnswers
    BY DEF MapAnswers
  <2>3. /\ IsStack(Tail(stack)) /\ Fits(Tail(stack), "Throw")
        /\ \A m : /\ Held(stack, answer, m)
                  /\ Head(stack).kind = "class" \/ answer = "none" \/ Head(stack).mark # m
                  => Held(Tail(stack), "Throw", m)
    BY <1>1, <2>2, Returned DEF Top
  <2>4. \A m \in inProgress : answer = "none" \/ m # Top.mark => Held(Tail(stack), "Throw", m)
    BY <2>3 DEF Top, IInv
  <2>5. \A t \in DOMAIN cache' : cache'[t] \in Mappings
    BY <2>1 DEF IInv
  <2> QED
    BY <2>1, <2>3, <2>4, <2>5
<1>4. CASE policy = "INCLUDE_MISSING"
  <2> DEFINE f == [Top EXCEPT !.stage = "include"]
  <2>1. stack' = <<f>> \o Tail(stack) /\ answer' = "none" /\ cache' = cache
    BY <1>4 DEF OnMissing
  <2>2. IsFrame(f) /\ f.kind = Head(stack).kind
    BY <1>1 DEF IsFrame, Top
  <2>3. /\ IsStack(<<f>> \o Tail(stack)) /\ Fits(<<f>> \o Tail(stack), "none")
        /\ \A m : /\ Held(stack, answer, m)
                  /\ Head(stack).kind = "class" \/ answer = "none" \/ Head(stack).mark # m
                  => Held(<<f>> \o Tail(stack), "none", m)
    BY <1>1, <2>2, WentOn
  <2>4. \A m \in inProgress : answer = "none" \/ m # Top.mark => Held(<<f>> \o Tail(stack), "none", m)
    BY <2>3 DEF Top, IInv
  <2>5. \A t \in DOMAIN cache' : cache'[t] \in Mappings
    BY <2>1 DEF IInv
  <2> QED
    BY <2>1, <2>3, <2>4, <2>5
<1> QED
  BY <1>2, <1>3, <1>4 DEF IInv, AllPolicies

\* The same of a call of map, by resolveAll or by resolve on a class.
LEMMA MapIs ==
  ASSUME IInv, NEW rest, IsStack(rest), rest = <<>> \/ rest[1].kind = "class", NEW t, Map(rest, t)
  PROVE  /\ IsStack(stack') /\ Fits(stack', answer')
         /\ \A m : Held(rest, answer, m) => Held(stack', answer', m)
<1>1. CASE t \in DOMAIN cache
  <2>1. stack' = rest /\ answer' = cache[t] /\ cache[t] \in Mappings
    BY <1>1 DEF Map, Return, IInv
  <2>2. Fits(rest, cache[t])
    BY <2>1 DEF Fits, MapAnswers
  <2>3. cache[t] # "none"
    BY <2>1 DEF Mappings
  <2>4. \A m : Held(rest, answer, m) => Held(rest, cache[t], m)
    BY <2>3 DEF Held
  <2> QED
    BY <2>1, <2>2, <2>4
<1>2. CASE t \notin DOMAIN cache
  <2> DEFINE f == MapFrame(t)
  <2>1. stack' = <<f>> \o rest /\ answer' = "none"
    BY <1>2 DEF Map
  <2>2. IsFrame(f) /\ f.kind = "map"
    BY Frames
  <2>3. /\ IsStack(<<f>> \o rest) /\ Fits(<<f>> \o rest, "none")
        /\ \A m : Held(rest, answer, m) => Held(<<f>> \o rest, "none", m)
    BY <2>2, Called
  <2> QED
    BY <2>1, <2>3
<1> QED
  BY <1>1, <1>2

-----------------------------------------------------------------------------
(* The actions. *)

LEMMA VisitInv ==
  ASSUME IInv, NEW c \in Names, Visit(c)
  PROVE  IInv'
<1>1. /\ stack = <<>> /\ IsStack(stack) /\ Map(stack, Plain(c))
      /\ UNCHANGED <<policy, cache, inProgress>>
  BY DEF Visit, IInv
<1>2. /\ IsStack(stack') /\ Fits(stack', answer')
      /\ \A m : Held(stack, answer, m) => Held(stack', answer', m)
  BY <1>1, MapIs
<1> QED
  BY <1>1, <1>2 DEF IInv

\* With no call under way nothing is marked.
LEMMA VisitedInv ==
  ASSUME IInv, Visited
  PROVE  IInv'
<1>1. stack = <<>> /\ UNCHANGED <<policy, cache, stack, inProgress>>
  BY DEF Visited
<1>2. inProgress = {}
  <2>1. Len(stack) = 0
    BY <1>1
  <2> QED
    BY <2>1 DEF IInv, Held
<1> QED
  BY <1>1, <1>2 DEF IInv, Fits

\* resolve on a class is called for a type that is marked first.
LEMMA CallOfClass ==
  ASSUME IInv, NEW g, Running("map", g), answer = "none", NEW c, NEW k,
         inProgress' = inProgress \cup {k},
         stack' = <<ClassFrame(c), [Top EXCEPT !.mark = k]>> \o Tail(stack),
         UNCHANGED <<policy, answer, cache>>
  PROVE  IInv'
<1> DEFINE f == [Top EXCEPT !.mark = k]
           s == <<f>> \o Tail(stack)
<1>1. stack # <<>> /\ IsStack(stack) /\ IsFrame(Top) /\ Top.kind = "map"
  BY TopIs
<1>2. IsFrame(f) /\ f.kind = Head(stack).kind /\ f.kind = "map" /\ f.mark = k
  BY <1>1 DEF IsFrame, Top
<1>3. /\ IsStack(s)
      /\ \A m \in inProgress : Held(s, "none", m)
  BY <1>1, <1>2, WentOn DEF IInv
<1>4. s # <<>> /\ s[1] = f
  <2>1. IsStack(Tail(stack))
        /\ IF Tail(stack) = <<>> THEN f.kind = "map" ELSE f.kind # Tail(stack)[1].kind
    BY <1>1, <1>2, Popped
  <2> QED
    BY <1>2, <2>1, Pushed
<1>5. IsFrame(ClassFrame(c)) /\ ClassFrame(c).kind = "class"
  BY Frames
<1>6. /\ IsStack(<<ClassFrame(c)>> \o s) /\ Fits(<<ClassFrame(c)>> \o s, "none")
      /\ \A m : Held(s, "none", m) => Held(<<ClassFrame(c)>> \o s, "none", m)
      /\ Held(<<ClassFrame(c)>> \o s, "none", k)
  <2>1. IF s = <<>> THEN ClassFrame(c).kind = "map" ELSE ClassFrame(c).kind # s[1].kind
    BY <1>2, <1>4, <1>5
  <2> HIDE DEF s
  <2> QED
    BY <1>2, <1>3, <1>4, <1>5, <2>1, Called
<1>7. stack' = <<ClassFrame(c)>> \o s
  BY <1>1, Prepended
<1>8. \A m \in inProgress' : Held(stack', answer', m)
  BY <1>3, <1>6, <1>7
<1> QED
  BY <1>6, <1>7, <1>8 DEF IInv

LEMMA CanResolveInv ==
  ASSUME IInv, CanResolve
  PROVE  IInv'
<1> DEFINE c == Top.type.name
<1>1. Running("map", "can") /\ answer = "none" /\ UNCHANGED policy
  BY DEF CanResolve
<1>2. CASE Knows(c) = "yes"
  <2>1. Mapped("Unchanged") /\ UNCHANGED inProgress /\ "Unchanged" \in Mappings
    BY <1>2 DEF CanResolve, Mappings
  <2>2. /\ \A t \in DOMAIN cache' : cache'[t] \in Mappings
        /\ IsStack(stack') /\ Fits(stack', answer')
        /\ \A m \in inProgress : Held(stack', answer', m)
    BY <1>1, <2>1, MappedIs
  <2> QED
    BY <1>1, <2>1, <2>2 DEF IInv
<1>3. CASE Knows(c) = "no"
  <2>1. OnMissing /\ UNCHANGED inProgress
    BY <1>3 DEF CanResolve
  <2>2. /\ \A t \in DOMAIN cache' : cache'[t] \in Mappings
        /\ IsStack(stack') /\ Fits(stack', answer')
        /\ \A m \in inProgress : Held(stack', answer', m)
    BY <1>1, <2>1, OnMissingIs
  <2> QED
    BY <1>1, <2>1, <2>2 DEF IInv
<1>4. CASE Knows(c) = "open"
  <2>1. /\ inProgress' = inProgress \cup {Plain(c)}
        /\ stack' = <<ClassFrame(c), [Top EXCEPT !.mark = Plain(c)]>> \o Tail(stack)
        /\ UNCHANGED <<policy, answer, cache>>
    BY <1>1, <1>4 DEF CanResolve
  <2> QED
    BY <1>1, <2>1, CallOfClass
<1>5. Knows(c) \in {"yes", "no", "open"}
  BY DEF Knows
<1> QED
  BY <1>2, <1>3, <1>4, <1>5

LEMMA CanResolvedInv ==
  ASSUME IInv, CanResolved
  PROVE  IInv'
<1>1. /\ Running("map", "can") /\ answer # "none" /\ UNCHANGED policy
      /\ inProgress' = inProgress \ {Top.mark}
  BY DEF CanResolved, Unmarked
<1>2. /\ answer \in ClassAnswers /\ stack # <<>> /\ IsStack(stack)
      /\ Top.kind = "map"
  BY <1>1, TopIs
<1>3. CASE answer = "Throw"
  <2>1. stack' = Tail(stack) /\ answer' = "Throw" /\ cache' = cache
    BY <1>3 DEF CanResolved, Return
  <2>2. "Throw" \in MapAnswers
    BY DEF MapAnswers
  <2>3. /\ IsStack(Tail(stack)) /\ Fits(Tail(stack), "Throw")
        /\ \A m : /\ Held(stack, answer, m)
                  /\ Head(stack).kind = "class" \/ answer = "none" \/ Head(stack).mark # m
                  => Held(Tail(stack), "Throw", m)
    BY <1>2, <2>2, Returned DEF Top
  <2>4. \A m \in inProgress' : Held(Tail(stack), "Throw", m)
    BY <1>1, <2>3 DEF Top, IInv
  <2> QED
    BY <1>1, <2>1, <2>3, <2>4 DEF IInv
<1>4. CASE answer = "class" /\ NotEmpty(made)
  <2>1. Mapped("Unchanged") /\ "Unchanged" \in Mappings
    BY <1>4 DEF CanResolved, Mappings
  <2>2. /\ \A t \in DOMAIN cache' : cache'[t] \in Mappings
        /\ IsStack(stack') /\ Fits(stack', answer')
        /\ \A m \in inProgress : m # Top.mark => Held(stack', answer', m)
    BY <1>1, <2>1, MappedIs
  <2> QED
    BY <1>1, <2>2 DEF IInv
<1>5. CASE answer = "null" \/ (answer = "class" /\ ~NotEmpty(made))
  <2>1. OnMissing
    BY <1>5 DEF CanResolved
  <2>2. /\ \A t \in DOMAIN cache' : cache'[t] \in Mappings
        /\ IsStack(stack') /\ Fits(stack', answer')
        /\ \A m \in inProgress : m # Top.mark => Held(stack', answer', m)
    BY <1>1, <2>1, OnMissingIs
  <2> QED
    BY <1>1, <2>2 DEF IInv
<1> QED
  BY <1>2, <1>3, <1>4, <1>5 DEF ClassAnswers

\* Including a class returns a mapping.
LEMMA IncludeIs ==
  ASSUME NEW c, NEW r, Include(c, r)
  PROVE  \E v \in Mappings : Mapped(v)
BY DEF Include, Mappings

LEMMA IncludeMissingInv ==
  ASSUME IInv, IncludeMissing
  PROVE  IInv'
<1> DEFINE c == Top.type.name
<1>1. Running("map", "include") /\ answer = "none" /\ UNCHANGED policy
  BY DEF IncludeMissing
<1>2. CASE c \in DOMAIN resolved \/ (c \notin DOMAIN found /\ ~Declared(c)) \/ c \in DOMAIN found
  <2>1. \E v \in Mappings : Mapped(v)
    <3>1. Mapped("Remove") \/ Include(c, found[c])
      BY <1>2 DEF IncludeMissing
    <3>2. "Remove" \in Mappings
      BY DEF Mappings
    <3> QED
      BY <3>1, <3>2, IncludeIs
  <2>2. inProgress' \subseteq inProgress
    BY <1>2 DEF IncludeMissing
  <2>3. /\ \A t \in DOMAIN cache' : cache'[t] \in Mappings
        /\ IsStack(stack') /\ Fits(stack', answer')
        /\ \A m \in inProgress : Held(stack', answer', m)
    BY <1>1, <2>1, MappedIs
  <2> QED
    BY <1>1, <2>2, <2>3 DEF IInv
<1>3. CASE ~(c \in DOMAIN resolved \/ (c \notin DOMAIN found /\ ~Declared(c)) \/ c \in DOMAIN found)
  <2>1. /\ inProgress' = inProgress \cup {Top.type}
        /\ stack' = <<ClassFrame(c), [Top EXCEPT !.mark = Top.type]>> \o Tail(stack)
        /\ UNCHANGED <<policy, answer, cache>>
    BY <1>1, <1>3 DEF IncludeMissing
  <2> QED
    BY <1>1, <2>1, CallOfClass
<1> QED
  BY <1>2, <1>3

LEMMA IncludedInv ==
  ASSUME IInv, Included
  PROVE  IInv'
<1>1. /\ Running("map", "include") /\ answer # "none" /\ UNCHANGED policy
      /\ inProgress' = inProgress \ {Top.mark}
  BY DEF Included, Unmarked
<1>2. \E v \in Mappings : Mapped(v)
  <2>1. Mapped("Remove") \/ Include(Top.type.name, made)
    BY DEF Included
  <2>2. "Remove" \in Mappings
    BY DEF Mappings
  <2> QED
    BY <2>1, <2>2, IncludeIs
<1>3. /\ \A t \in DOMAIN cache' : cache'[t] \in Mappings
      /\ IsStack(stack') /\ Fits(stack', answer')
      /\ \A m \in inProgress : m # Top.mark => Held(stack', answer', m)
  BY <1>1, <1>2, MappedIs
<1> QED
  BY <1>1, <1>3 DEF IInv

\* resolve on a class returns, asks, or goes on; it leaves the marks alone.
LEMMA ClassStep ==
  ASSUME IInv, Running("class", "resolve"), UNCHANGED <<policy, cache, inProgress>>,
         \/ \E v \in ClassAnswers : Return(Tail(stack), v)
         \/ \E t : Map(stack, t)
         \/ \E f : /\ IsFrame(f) /\ f.kind = "class"
                   /\ stack' = <<f>> \o Tail(stack) /\ answer' = "none"
  PROVE  IInv'
<1>1. stack # <<>> /\ IsStack(stack) /\ Head(stack).kind = "class" /\ stack[1].kind = "class"
  BY TopIs DEF Top
<1>2. ASSUME NEW v \in ClassAnswers, Return(Tail(stack), v)
      PROVE  IInv'
  <2>1. stack' = Tail(stack) /\ answer' = v
    BY <1>2 DEF Return
  <2>2. /\ IsStack(Tail(stack)) /\ Fits(Tail(stack), v)
        /\ \A m : Held(stack, answer, m) => Held(Tail(stack), v, m)
    BY <1>1, Returned
  <2> QED
    BY <2>1, <2>2 DEF IInv
<1>3. ASSUME NEW t, Map(stack, t)
      PROVE  IInv'
  <2>1. /\ IsStack(stack') /\ Fits(stack', answer')
        /\ \A m : Held(stack, answer, m) => Held(stack', answer', m)
    BY <1>1, <1>3, MapIs
  <2> QED
    BY <2>1 DEF IInv
<1>4. ASSUME NEW f, IsFrame(f), f.kind = "class", stack' = <<f>> \o Tail(stack), answer' = "none"
      PROVE  IInv'
  <2>1. /\ IsStack(<<f>> \o Tail(stack)) /\ Fits(<<f>> \o Tail(stack), "none")
        /\ \A m : Held(stack, answer, m) => Held(<<f>> \o Tail(stack), "none", m)
    BY <1>1, <1>4, WentOn
  <2> QED
    BY <1>4, <2>1 DEF IInv
<1> QED
  BY <1>2, <1>3, <1>4

LEMMA AskInv ==
  ASSUME IInv, Ask
  PROVE  IInv'
<1>1. Running("class", "resolve") /\ UNCHANGED <<policy, cache, inProgress>>
  BY DEF Ask
<1>2. Return(Tail(stack), "class") \/ \E t : Map(stack, t)
  BY DEF Ask, Finish
<1>3. "class" \in ClassAnswers
  BY DEF ClassAnswers
<1> QED
  BY <1>1, <1>2, <1>3, ClassStep

LEMMA AskedInv ==
  ASSUME IInv, Asked
  PROVE  IInv'
<1> DEFINE q == Asks(Top.cls)[Top.at]
           after == IF q.cls # Top.cls THEN Top
                    ELSE IF q.role = "base" THEN [Top EXCEPT !.over = {q.type.name}]
                    ELSE IF q.type.pointer THEN [Top EXCEPT !.refs = @ \cup {q.type.name}]
                    ELSE Top
<1>1. /\ Running("class", "resolve") /\ answer # "none"
      /\ UNCHANGED <<policy, cache, inProgress>>
  BY DEF Asked
<1>2. IsFrame(Top) /\ Top.kind = "class" /\ answer \in MapAnswers
  BY <1>1, TopIs
<1>3. /\ \A n : IsFrame([Top EXCEPT !.at = n]) /\ [Top EXCEPT !.at = n].kind = "class"
      /\ \A n : IsFrame([after EXCEPT !.at = n]) /\ [after EXCEPT !.at = n].kind = "class"
  <2>1. /\ \A x : IsFrame([Top EXCEPT !.over = x]) /\ [Top EXCEPT !.over = x].kind = "class"
        /\ \A x : IsFrame([Top EXCEPT !.refs = x]) /\ [Top EXCEPT !.refs = x].kind = "class"
    BY <1>2 DEF IsFrame
  <2>2. IsFrame(after) /\ after.kind = "class"
    BY <1>2, <2>1
  <2>3. ASSUME NEW f, IsFrame(f), f.kind = "class", NEW n
        PROVE  IsFrame([f EXCEPT !.at = n]) /\ [f EXCEPT !.at = n].kind = "class"
    BY <2>3 DEF IsFrame
  <2> HIDE DEF after
  <2> QED
    BY <1>2, <2>2, <2>3
<1>4. CASE answer = "Throw" \/ (answer = "Remove" /\ q.cls = Top.cls)
  <2>1. \E v \in {"Throw", "null", "class"} : Return(Tail(stack), v)
    BY <1>4 DEF Asked, Finish
  <2> QED
    BY <1>1, <2>1, ClassStep DEF ClassAnswers
<1>7. CASE answer = "Remove" /\ q.cls # Top.cls
  <2>1. \E x, n : GoOn([Top EXCEPT !.lost = x], n)
    BY <1>7 DEF Asked
  <2>2. PICK x, n : GoOn([Top EXCEPT !.lost = x], n)
    BY <2>1
  <2>3. PICK f : f = [Top EXCEPT !.lost = x]
    OBVIOUS
  <2>4. IsFrame(f) /\ f.kind = "class"
    BY <1>2, <2>3 DEF IsFrame
  <2>5. IsFrame([f EXCEPT !.at = n]) /\ [f EXCEPT !.at = n].kind = "class"
    BY <2>4 DEF IsFrame
  <2>6. stack' = <<[f EXCEPT !.at = n]>> \o Tail(stack) /\ answer' = "none"
    BY <2>2, <2>3 DEF GoOn
  <2> QED
    BY <1>1, <2>5, <2>6, ClassStep
<1>5. CASE answer = "Opaque"
  <2>1. \E n : GoOn(Top, n)
    BY <1>5 DEF Asked
  <2> QED
    BY <1>1, <1>3, <2>1, ClassStep DEF GoOn
<1>6. CASE answer = "Unchanged"
  <2>1. GoOn(after, Top.at + 1)
    BY <1>6 DEF Asked
  <2> HIDE DEF after
  <2> QED
    BY <1>1, <1>3, <2>1, ClassStep DEF GoOn
<1> QED
  BY <1>2, <1>4, <1>5, <1>6, <1>7 DEF MapAnswers, Mappings

-----------------------------------------------------------------------------

LEMMA InitInv == Init => IInv
<1> SUFFICES ASSUME Init PROVE IInv
  OBVIOUS
<1>1. policy \in AllPolicies
  BY ResolverAssumption DEF Init
<1>2. IsStack(<<>>)
  <2>1. <<>> \in Seq({}) /\ Len(<<>>) = 0
    OBVIOUS
  <2> QED
    BY <2>1 DEF IsStack
<1> QED
  BY <1>1, <1>2 DEF Init, IInv, Fits

LEMMA StepInv == IInv /\ [Next]_vars => IInv'
<1> SUFFICES ASSUME IInv, [Next]_vars PROVE IInv'
  OBVIOUS
<1>1. CASE Parse
  BY <1>1 DEF Parse, IInv
<1>2. CASE ResolveAll
  BY <1>2 DEF ResolveAll, IInv
<1>3. CASE AllVisited
  BY <1>3 DEF AllVisited, IInv
<1>4. CASE Ended \/ UNCHANGED vars
  BY <1>4 DEF Ended, vars, IInv
<1>5. CASE \E c \in Names : Visit(c)
  BY <1>5, VisitInv
<1>6. CASE Visited
  BY <1>6, VisitedInv
<1>7. CASE CanResolve
  BY <1>7, CanResolveInv
<1>8. CASE CanResolved
  BY <1>8, CanResolvedInv
<1>9. CASE IncludeMissing
  BY <1>9, IncludeMissingInv
<1>10. CASE Included
  BY <1>10, IncludedInv
<1>11. CASE Ask
  BY <1>11, AskInv
<1>12. CASE Asked
  BY <1>12, AskedInv
<1> QED
  BY <1>1, <1>2, <1>3, <1>4, <1>5, <1>6, <1>7, <1>8, <1>9, <1>10, <1>11, <1>12 DEF Next, Step

LEMMA IInvMarks == IInv => MarksAreTakenBack
<1> SUFFICES ASSUME IInv, stack = <<>> PROVE inProgress = {}
  BY DEF MarksAreTakenBack
<1>1. Len(stack) = 0
  OBVIOUS
<1> QED
  BY <1>1 DEF IInv, Held

\* When no call of map is under way, no class counts as being resolved: the
\* mark that canResolve sets, or typeMapper for INCLUDE_MISSING, is taken back
\* whether resolve returns a class, returns null or throws.
THEOREM MarksGoWithTheirCalls == Spec => []MarksAreTakenBack
<1>1. Spec => []IInv
  BY InitInv, StepInv, PTL DEF Spec
<1> QED
  BY <1>1, IInvMarks, PTL

-----------------------------------------------------------------------------
(* OPAQUE_MISSING: no answer takes a reference away, so that resolve on a  *)
(* class always reaches its end; what it returns is about the class that   *)
(* the call of map below it has asked for.                                 *)

\* A call of resolve is about the class of the type that is being mapped.
Linked(s) ==
  /\ \A i \in 1 .. Len(s) : s[i].kind = "map" => s[i].stage = "can"
  /\ \A i \in 1 .. Len(s) - 1 : s[i].kind = "class" => s[i + 1].type.name = s[i].cls

\* Whether r, made of the class c, has the method that c has.
Whole(r, c) == r.method <=> content[c].refs # <<>>

\* What OPAQUE_MISSING adds: nothing is ever taken away from a class.
OInv ==
  policy = "OPAQUE_MISSING" =>
    /\ \A t \in DOMAIN cache : cache[t] # "Remove"
    /\ answer \notin {"Remove", "Throw", "null"}
    /\ Linked(stack)
    /\ answer = "class" /\ stack # <<>> => Whole(made, Top.type.name)
    /\ \A c \in DOMAIN resolved : Whole(resolved[c], c)
    /\ phase = "parsing" => stack = <<>> /\ answer = "none" /\ resolved = <<>>

LEMMA LinkedPopped ==
  ASSUME NEW s, IsStack(s), s # <<>>, Linked(s)
  PROVE  /\ Linked(Tail(s))
         /\ Head(s).kind = "class" => Tail(s) # <<>> /\ Head(Tail(s)).type.name = Head(s).cls
<1> DEFINE t == Tail(s)
<1>1. /\ IsStack(t) /\ Head(s) = s[1]
      /\ IF t = <<>> THEN Head(s).kind = "map" ELSE Head(s).kind # t[1].kind
      /\ Len(s) \in Nat /\ Len(t) = Len(s) - 1
      /\ \A i \in 1 .. Len(t) : t[i] = s[i + 1]
  BY Popped
<1>2. ASSUME NEW i \in 1 .. Len(t), t[i].kind = "map"
      PROVE  t[i].stage = "can"
  <2>1. i + 1 \in 1 .. Len(s) /\ t[i] = s[i + 1]
    BY <1>1
  <2> QED
    BY <1>2, <2>1 DEF Linked
<1>3. ASSUME NEW i \in 1 .. Len(t) - 1, t[i].kind = "class"
      PROVE  t[i + 1].type.name = t[i].cls
  <2>1. i + 1 \in 1 .. Len(s) - 1 /\ t[i] = s[i + 1] /\ t[i + 1] = s[(i + 1) + 1]
    BY <1>1
  <2> QED
    BY <1>3, <2>1 DEF Linked
<1>4. ASSUME Head(s).kind = "class"
      PROVE  t # <<>> /\ Head(t).type.name = Head(s).cls
  <2>1. t # <<>>
    BY <1>1, <1>4
  <2>2. Head(t) = t[1] /\ Len(t) >= 1
    BY <1>1, <2>1, Popped DEF IsStack
  <2>3. 1 \in 1 .. Len(s) - 1 /\ t[1] = s[1 + 1]
    BY <1>1, <2>2
  <2> QED
    BY <1>1, <1>4, <2>1, <2>2, <2>3 DEF Linked
<1> QED
  BY <1>2, <1>3, <1>4 DEF Linked

LEMMA LinkedPushed ==
  ASSUME NEW s, IsStack(s), Linked(s), NEW f, IsFrame(f),
         IF s = <<>> THEN f.kind = "map" ELSE f.kind # s[1].kind,
         f.kind = "map" => f.stage = "can",
         f.kind = "class" => s[1].type.name = f.cls
  PROVE  Linked(<<f>> \o s)
<1> DEFINE t == <<f>> \o s
<1>1. /\ t[1] = f /\ Len(t) = Len(s) + 1 /\ Len(s) \in Nat
      /\ \A i \in 1 .. Len(s) : t[i + 1] = s[i]
  BY Pushed
<1>2. ASSUME NEW i \in 1 .. Len(t), t[i].kind = "map"
      PROVE  t[i].stage = "can"
  <2>1. CASE i = 1
    BY <1>1, <1>2, <2>1
  <2>2. CASE i # 1
    <3>1. i - 1 \in 1 .. Len(s) /\ (i - 1) + 1 = i
      BY <1>1, <2>2
    <3>2. t[i] = s[i - 1]
      BY <1>1, <3>1
    <3> QED
      BY <1>2, <3>1, <3>2 DEF Linked
  <2> QED
    BY <2>1, <2>2
<1>3. ASSUME NEW i \in 1 .. Len(t) - 1, t[i].kind = "class"
      PROVE  t[i + 1].type.name = t[i].cls
  <2>1. i \in 1 .. Len(s) /\ t[i + 1] = s[i]
    BY <1>1
  <2>2. CASE i = 1
    BY <1>1, <1>3, <2>1, <2>2
  <2>3. CASE i # 1
    <3>1. i - 1 \in 1 .. Len(s) - 1 /\ (i - 1) + 1 = i
      BY <1>1, <2>1, <2>3
    <3>2. t[i] = s[i - 1]
      BY <1>1, <3>1
    <3> QED
      BY <1>3, <2>1, <3>1, <3>2 DEF Linked
  <2> QED
    BY <2>2, <2>3
<1> QED
  BY <1>2, <1>3 DEF Linked

\* A step that makes no mapping but Unchanged or Opaque keeps the cache so.
LEMMA PutsKept ==
  ASSUME NEW m, NEW k, NEW v, \A x \in DOMAIN m : m[x] # "Remove", v # "Remove"
  PROVE  \A x \in DOMAIN Put(m, k, v) : Put(m, k, v)[x] # "Remove"
BY DEF Put

LEMMA MappedOpaque ==
  ASSUME IInv, OInv, policy = "OPAQUE_MISSING", NEW g, Running("map", g),
         NEW v \in {"Unchanged", "Opaque"}, Mapped(v)
  PROVE  /\ \A t \in DOMAIN cache' : cache'[t] # "Remove"
         /\ answer' \in {"Unchanged", "Opaque"} /\ Linked(stack')
<1>1. stack # <<>> /\ IsStack(stack) /\ Linked(stack)
  BY TopIs DEF OInv
<1>2. stack' = Tail(stack) /\ answer' = v /\ cache' = Put(cache, Top.type, v)
  BY DEF Mapped, Return
<1>3. Linked(Tail(stack))
  BY <1>1, LinkedPopped
<1>4. \A t \in DOMAIN Put(cache, Top.type, v) : Put(cache, Top.type, v)[t] # "Remove"
  BY PutsKept DEF OInv
<1> QED
  BY <1>2, <1>3, <1>4

LEMMA MapOpaque ==
  ASSUME IInv, OInv, policy = "OPAQUE_MISSING", NEW rest, IsStack(rest), Linked(rest),
         rest = <<>> \/ rest[1].kind = "class", NEW t, Map(rest, t)
  PROVE  answer' \in {"none", "Unchanged", "Opaque"} /\ Linked(stack')
<1>1. CASE t \in DOMAIN cache
  BY <1>1 DEF Map, Return, IInv, OInv, Mappings
<1>2. CASE t \notin DOMAIN cache
  <2>1. stack' = <<MapFrame(t)>> \o rest /\ answer' = "none"
    BY <1>2 DEF Map
  <2>2. IsFrame(MapFrame(t)) /\ MapFrame(t).kind = "map" /\ MapFrame(t).stage = "can"
    BY Frames DEF MapFrame
  <2>3. Linked(<<MapFrame(t)>> \o rest)
    BY <2>2, LinkedPushed
  <2> QED
    BY <2>1, <2>3
<1> QED
  BY <1>1, <1>2

LEMMA VisitOpaque ==
  ASSUME IInv, OInv, policy = "OPAQUE_MISSING", NEW c \in Names, Visit(c)
  PROVE  OInv'
<1>1. /\ stack = <<>> /\ IsStack(stack) /\ Linked(stack) /\ Map(stack, Plain(c))
      /\ UNCHANGED <<policy, content, cache, resolved, phase>> /\ phase # "parsing"
  BY DEF Visit, IInv, OInv
<1>2. answer' \in {"none", "Unchanged", "Opaque"} /\ Linked(stack')
  BY <1>1, MapOpaque
<1> QED
  BY <1>1, <1>2 DEF OInv, Whole

LEMMA CanResolveOpaque ==
  ASSUME IInv, OInv, policy = "OPAQUE_MISSING", CanResolve
  PROVE  OInv'
<1> DEFINE c == Top.type.name
<1>1. /\ Running("map", "can") /\ answer = "none"
      /\ UNCHANGED <<policy, content, resolved, phase>> /\ phase # "parsing"
  BY DEF CanResolve, Running
<1>2. CASE Knows(c) \in {"yes", "no"}
  <2>1. \E v \in {"Unchanged", "Opaque"} : Mapped(v)
    BY <1>2 DEF CanResolve, OnMissing
  <2>2. /\ \A t \in DOMAIN cache' : cache'[t] # "Remove"
        /\ answer' \in {"Unchanged", "Opaque"} /\ Linked(stack')
    BY <1>1, <2>1, MappedOpaque
  <2> QED
    BY <1>1, <2>2 DEF OInv, Whole
<1>3. CASE Knows(c) = "open"
  <2> DEFINE f == [Top EXCEPT !.mark = Plain(c)]
             s == <<f>> \o Tail(stack)
  <2>1. /\ stack' = <<ClassFrame(c), f>> \o Tail(stack)
        /\ UNCHANGED <<answer, cache>>
    BY <1>3 DEF CanResolve
  <2>2. /\ stack # <<>> /\ IsStack(stack) /\ Linked(stack) /\ IsFrame(Top)
        /\ Top.kind = "map" /\ Top.stage = "can"
    BY <1>1, TopIs DEF OInv, Running
  <2>3. /\ IsFrame(f) /\ f.kind = Head(stack).kind /\ f.kind = "map" /\ f.stage = "can"
        /\ f.type.name = c
    BY <2>2 DEF IsFrame, Top
  <2>4. /\ IsStack(Tail(stack)) /\ Linked(Tail(stack))
        /\ IF Tail(stack) = <<>> THEN f.kind = "map" ELSE f.kind # Tail(stack)[1].kind
    BY <2>2, <2>3, Popped, LinkedPopped
  <2>5. IsStack(s) /\ s # <<>> /\ s[1] = f /\ Linked(s)
    <3>1. ASSUME NEW g, IsFrame(g), g.kind = "map", g.stage = "can",
                 IF Tail(stack) = <<>> THEN g.kind = "map" ELSE g.kind # Tail(stack)[1].kind
          PROVE  /\ IsStack(<<g>> \o Tail(stack)) /\ Linked(<<g>> \o Tail(stack))
                 /\ <<g>> \o Tail(stack) # <<>> /\ (<<g>> \o Tail(stack))[1] = g
      <4>1. /\ IsStack(<<g>> \o Tail(stack))
            /\ <<g>> \o Tail(stack) # <<>> /\ (<<g>> \o Tail(stack))[1] = g
        BY <2>4, <3>1, Pushed
      <4>2. Linked(<<g>> \o Tail(stack))
        BY <2>4, <3>1, LinkedPushed
      <4> QED
        BY <4>1, <4>2
    <3> QED
      BY <2>3, <2>4, <3>1
  <2>6. Linked(<<ClassFrame(c)>> \o s)
    <3>1. /\ IsFrame(ClassFrame(c)) /\ ClassFrame(c).kind = "class"
          /\ ClassFrame(c).cls = c
      BY Frames DEF ClassFrame
    <3>2. /\ IF s = <<>> THEN ClassFrame(c).kind = "map" ELSE ClassFrame(c).kind # s[1].kind
          /\ s[1].type.name = ClassFrame(c).cls
      BY <2>3, <2>5, <3>1
    <3> HIDE DEF s
    <3> QED
      BY <2>5, <3>1, <3>2, LinkedPushed
  <2>7. <<ClassFrame(c)>> \o s = stack'
    BY <2>1, <2>2, Prepended
  <2> QED
    BY <1>1, <2>1, <2>6, <2>7 DEF OInv, Whole
<1> QED
  BY <1>2, <1>3 DEF Knows

LEMMA CanResolvedOpaque ==
  ASSUME IInv, OInv, policy = "OPAQUE_MISSING", CanResolved
  PROVE  OInv'
<1> DEFINE c == Top.type.name
<1>1. /\ Running("map", "can") /\ answer # "none"
      /\ UNCHANGED <<policy, content, phase>> /\ phase # "parsing"
  BY DEF CanResolved, Running
<1>2. answer = "class" /\ stack # <<>>
  <2>1. stack # <<>> /\ answer \in ClassAnswers
    BY <1>1, TopIs
  <2> QED
    BY <2>1 DEF ClassAnswers, OInv
<1>3. resolved' = Put(resolved, c, made) /\ Whole(made, c)
  BY <1>2 DEF CanResolved, OInv
<1>4. \A d \in DOMAIN Put(resolved, c, made) : Whole(Put(resolved, c, made)[d], d)
  BY <1>3 DEF OInv, Put
<1>5. \E v \in {"Unchanged", "Opaque"} : Mapped(v)
  BY <1>2 DEF CanResolved, OnMissing
<1>6. /\ \A t \in DOMAIN cache' : cache'[t] # "Remove"
      /\ answer' \in {"Unchanged", "Opaque"} /\ Linked(stack')
  BY <1>1, <1>5, MappedOpaque
<1> QED
  BY <1>1, <1>3, <1>4, <1>6 DEF OInv, Whole

\* The class is not looked for in all that was parsed.
LEMMA NeverIncludes ==
  ASSUME IInv, OInv, policy = "OPAQUE_MISSING"
  PROVE  ~Running("map", "include")
<1> SUFFICES ASSUME Running("map", "include") PROVE FALSE
  OBVIOUS
<1>1. stack # <<>> /\ IsStack(stack) /\ Top = stack[1] /\ Top.kind = "map" /\ Top.stage = "include"
  BY TopIs DEF Running
<1>2. 1 \in 1 .. Len(stack)
  BY <1>1 DEF IsStack
<1> QED
  BY <1>1, <1>2 DEF OInv, Linked

\* resolve on a class ends with what it was made of.
LEMMA FinishOpaque ==
  ASSUME IInv, OInv, policy = "OPAQUE_MISSING", Running("class", "resolve"),
         Finish(Top, content[Top.cls].refs # <<>>), UNCHANGED <<policy, content, cache, resolved, phase>>
  PROVE  OInv'
<1>1. stack # <<>> /\ IsStack(stack) /\ Linked(stack) /\ Head(stack).kind = "class"
  BY TopIs DEF OInv, Top
<1>2. stack' = Tail(stack) /\ answer' = "class" /\ Whole(made', Top.cls)
  BY DEF Finish, Return, Whole
<1>3. Linked(Tail(stack)) /\ Tail(stack) # <<>> /\ Head(Tail(stack)).type.name = Top.cls
  BY <1>1, LinkedPopped DEF Top
<1>4. phase # "parsing"
  BY DEF Running
<1>5. Top' = Head(Tail(stack))
  BY <1>2 DEF Top
<1> QED
  BY <1>2, <1>3, <1>4, <1>5 DEF OInv, Whole

LEMMA AskOpaque ==
  ASSUME IInv, OInv, policy = "OPAQUE_MISSING", Ask
  PROVE  OInv'
<1>1. /\ Running("class", "resolve") /\ phase # "parsing"
      /\ UNCHANGED <<policy, content, cache, resolved, phase>>
  BY DEF Ask, Running
<1>2. ASSUME NEW t, Map(stack, t)
      PROVE  OInv'
  <2>1. IsStack(stack) /\ Linked(stack) /\ stack[1].kind = "class"
    BY <1>1, TopIs DEF OInv
  <2>2. answer' \in {"none", "Unchanged", "Opaque"} /\ Linked(stack')
    BY <1>2, <2>1, MapOpaque
  <2> QED
    BY <1>1, <2>2 DEF OInv, Whole
<1>3. CASE Finish(Top, content[Top.cls].refs # <<>>)
  BY <1>1, <1>3, FinishOpaque
<1> QED
  BY <1>2, <1>3 DEF Ask

LEMMA AskedOpaque ==
  ASSUME IInv, OInv, policy = "OPAQUE_MISSING", Asked
  PROVE  OInv'
<1> DEFINE q == Asks(Top.cls)[Top.at]
           after == IF q.cls # Top.cls THEN Top
                    ELSE IF q.role = "base" THEN [Top EXCEPT !.over = {q.type.name}]
                    ELSE IF q.type.pointer THEN [Top EXCEPT !.refs = @ \cup {q.type.name}]
                    ELSE Top
<1>1. /\ Running("class", "resolve") /\ answer # "none" /\ phase # "parsing"
      /\ UNCHANGED <<policy, content, cache, resolved, phase>>
  BY DEF Asked, Running
<1>2. /\ stack # <<>> /\ IsStack(stack) /\ Linked(stack) /\ IsFrame(Top)
      /\ Top = Head(stack) /\ Top.kind = "class" /\ answer \in {"Unchanged", "Opaque"}
  BY <1>1, TopIs DEF OInv, MapAnswers, Mappings, Top
<1>3. \E f, n : /\ IsFrame(f) /\ f.kind = "class" /\ f.cls = Top.cls /\ GoOn(f, n)
  <2>1. CASE answer = "Opaque"
    <3>1. \E n : GoOn(Top, n)
      BY <2>1 DEF Asked
    <3> QED
      BY <1>2, <3>1
  <2>2. CASE answer = "Unchanged"
    <3>1. GoOn(after, Top.at + 1)
      BY <2>2 DEF Asked
    <3>2. /\ \A x : /\ IsFrame([Top EXCEPT !.over = x]) /\ [Top EXCEPT !.over = x].kind = "class"
                    /\ [Top EXCEPT !.over = x].cls = Top.cls
          /\ \A x : /\ IsFrame([Top EXCEPT !.refs = x]) /\ [Top EXCEPT !.refs = x].kind = "class"
                    /\ [Top EXCEPT !.refs = x].cls = Top.cls
      BY <1>2 DEF IsFrame
    <3>3. IsFrame(after) /\ after.kind = "class" /\ after.cls = Top.cls
      BY <1>2, <3>2
    <3> HIDE DEF after
    <3> QED
      BY <3>1, <3>3
  <2> QED
    BY <1>2, <2>1, <2>2
<1>4. PICK f : /\ IsFrame(f) /\ f.kind = "class" /\ f.cls = Top.cls
               /\ stack' = <<f>> \o Tail(stack) /\ answer' = "none"
  <2>1. PICK f, n : IsFrame(f) /\ f.kind = "class" /\ f.cls = Top.cls /\ GoOn(f, n)
    BY <1>3
  <2>2. /\ IsFrame([f EXCEPT !.at = n]) /\ [f EXCEPT !.at = n].kind = "class"
        /\ [f EXCEPT !.at = n].cls = Top.cls
    BY <2>1 DEF IsFrame
  <2>3. stack' = <<[f EXCEPT !.at = n]>> \o Tail(stack) /\ answer' = "none"
    BY <2>1 DEF GoOn
  <2> QED
    BY <2>2, <2>3
<1>5. Linked(<<f>> \o Tail(stack))
  <2>1. /\ IsStack(Tail(stack))
        /\ IF Tail(stack) = <<>> THEN Head(stack).kind = "map" ELSE Head(stack).kind # Tail(stack)[1].kind
    BY <1>2, Popped
  <2>2. /\ Linked(Tail(stack)) /\ Tail(stack) # <<>>
        /\ Head(Tail(stack)).type.name = Top.cls
    BY <1>2, LinkedPopped
  <2>3. Head(Tail(stack)) = Tail(stack)[1]
    BY <2>1, <2>2, Popped
  <2> QED
    BY <1>2, <1>4, <2>1, <2>2, <2>3, LinkedPushed
<1> QED
  BY <1>1, <1>4, <1>5 DEF OInv, Whole

LEMMA OpaqueInit == Init => OInv
<1> SUFFICES ASSUME Init PROVE OInv
  OBVIOUS
<1>1. Len(<<>>) = 0
  OBVIOUS
<1>2. Linked(<<>>)
  BY <1>1 DEF Linked
<1> QED
  BY <1>2 DEF Init, OInv

LEMMA OpaqueStep == IInv /\ OInv /\ [Next]_vars => OInv'
<1> SUFFICES ASSUME IInv, OInv, [Next]_vars, policy = "OPAQUE_MISSING" PROVE OInv'
  <2>1. ASSUME [Next]_vars PROVE policy' = policy
    BY <2>1 DEF Next, Step, Parse, ResolveAll, Visit, Visited, AllVisited, CanResolve, CanResolved,
                IncludeMissing, Included, Ask, Asked, Ended, vars
  <2> QED
    BY <2>1 DEF OInv
<1>1. CASE Parse
  BY <1>1 DEF Parse, OInv
<1>2. CASE ResolveAll
  BY <1>2 DEF ResolveAll, OInv, Whole
<1>3. CASE AllVisited
  BY <1>3 DEF AllVisited, OInv, Whole
<1>4. CASE Ended \/ UNCHANGED vars
  BY <1>4 DEF Ended, vars, OInv, Whole, Top
<1>5. CASE \E c \in Names : Visit(c)
  BY <1>5, VisitOpaque
<1>6. CASE Visited
  BY <1>6 DEF Visited, OInv, Whole
<1>7. CASE CanResolve
  BY <1>7, CanResolveOpaque
<1>8. CASE CanResolved
  BY <1>8, CanResolvedOpaque
<1>9. CASE IncludeMissing \/ Included
  BY <1>9, NeverIncludes DEF IncludeMissing, Included
<1>10. CASE Ask
  BY <1>10, AskOpaque
<1>11. CASE Asked
  BY <1>11, AskedOpaque
<1> QED
  BY <1>1, <1>2, <1>3, <1>4, <1>5, <1>6, <1>7, <1>8, <1>9, <1>10, <1>11 DEF Next, Step

LEMMA OInvOpaque == OInv => OpaqueKeepsMethods
BY DEF OInv, OpaqueKeepsMethods, Whole

\* Under OPAQUE_MISSING every class that is resolved has its method if the
\* parsed class has one, however much of what that refers to is missing.
THEOREM MethodsAreKept == Spec => []OpaqueKeepsMethods
<1>1. Spec => [](IInv /\ OInv)
  BY InitInv, StepInv, OpaqueInit, OpaqueStep, PTL DEF Spec
<1> QED
  BY <1>1, OInvOpaque, PTL

-----------------------------------------------------------------------------
(* What resolving a class asks for. *)

\* Opening and OfMethod, of the parsed class p.
OpeningOf(p, c) ==
  (IF p.base = NoName THEN <<>> ELSE <<[type |-> Plain(p.base), role |-> "base", cls |-> c]>>)
  \o <<[type |-> Plain(c), role |-> "self", cls |-> c]>>
MethodOf(p, c) ==
  LET arg[i \in 0 .. Len(p.refs)] ==
        IF i <= 1 THEN <<>>
        ELSE arg[i - 1] \o Forms(p.refs[i], IF i <= p.needed THEN "needed" ELSE "optional", c)
  IN  IF p.refs = <<>> THEN <<>>
      ELSE Forms(p.refs[1], "needed", c) \o <<[type |-> Pointer(c), role |-> "needed", cls |-> c]>>
           \o arg[Len(p.refs)]

\* OfNested, Asks, AfterNested and Prepares, of the parsed classes k.
NestedOf(k, c) ==
  LET d == k[c].nested
  IN  IF d = NoName THEN <<>> ELSE OpeningOf(k[d], d) \o MethodOf(k[d], d)
AsksOf(k, c) == OpeningOf(k[c], c) \o NestedOf(k, c) \o MethodOf(k[c], c)
AfterOf(k, c) == Len(OpeningOf(k[c], c)) + Len(NestedOf(k, c)) + 1
Opens(k, q) == q.role = IF k[q.cls].base = NoName THEN "self" ELSE "base"

\* They are about the classes as they were parsed.
LEMMA AsksAre ==
  /\ \A c : Asks(c) = AsksOf(content, c) /\ AfterNested(c) = AfterOf(content, c)
  /\ \A q : Prepares(q) = Opens(content, q)
<1>1. \A c : Opening(c) = OpeningOf(content[c], c)
  BY DEF Opening, OpeningOf
<1>2. \A c : OfMethod(c) = MethodOf(content[c], c)
  BY DEF OfMethod, MethodOf
<1>3. \A c : OfNested(c) = NestedOf(content, c)
  BY <1>1, <1>2 DEF OfNested, NestedOf
<1>4. \A c : Asks(c) = AsksOf(content, c)
  BY <1>1, <1>2, <1>3 DEF Asks, AsksOf
<1>5. \A c : AfterNested(c) = AfterOf(content, c)
  BY <1>1, <1>3 DEF AfterNested, AfterOf
<1>6. \A q : Prepares(q) = Opens(content, q)
  BY DEF Prepares, Opens
<1> QED
  BY <1>4, <1>5, <1>6

\* What an ask is for: the base class, the class itself, or what the method
\* needs or may do without.
Reason(p, c, q) ==
  /\ q.role = "base" => p.base # NoName /\ q.type = Plain(p.base)
  /\ q.role = "self" => q.type = Plain(c)
  /\ q.role = "needed" =>
       \/ q.type.name = c
       \/ \E j \in 1 .. p.needed : p.refs[j] # Native /\ q.type.name = p.refs[j].name

Roles == {"base", "self", "needed", "optional"}

\* What resolving a class asks on its own account.
OfClass(p, c) ==
  {q \in [type : Types \ {Native}, role : Roles, cls : {c}] : Reason(p, c, q)}

\* What resolving c asks: for itself, and for the class nested in it.
Questions(k, c) ==
  {q \in [type : Types \ {Native}, role : Roles, cls : Names] :
     q.cls \in {c, k[c].nested} /\ Reason(k[q.cls], q.cls, q)}

\* Those about the method.
Uses(p, c) == {q \in OfClass(p, c) : q.role \in {"needed", "optional"}}

\* The types of the headers: a class or a pointer to it has its name, and is
\* neither native nor unresolvable.
LEMMA TypeKinds ==
  /\ \A c \in Names : /\ Plain(c) \in Types \ {Native} /\ Pointer(c) \in Types \ {Native}
                      /\ Plain(c).name = c /\ Pointer(c).name = c
                      /\ ~ Plain(c).pointer /\ Pointer(c).pointer
  /\ Unresolvable \in Types \ {Native}
  /\ \A t \in Types : t = Native \/ t = Unresolvable \/ t.name \in Names
<1>1. \A c : Plain(c).name = c /\ Pointer(c).name = c /\ ~ Plain(c).pointer /\ Pointer(c).pointer
  BY DEF Plain, Pointer
<1>2. Unresolvable \in Types \ {Native}
  BY <1>1 DEF Types, Unresolvable, Native
<1>3. ASSUME NEW c \in Names PROVE Plain(c) \in Types \ {Native} /\ Pointer(c) \in Types \ {Native}
  <2>1. Plain(c) \in Types /\ Pointer(c) \in Types
    BY DEF Types, Plain, Pointer
  <2>2. Native.name = NoName /\ c # NoName
    BY <1>1, ResolverAssumption DEF Native
  <2> QED
    BY <1>1, <2>1, <2>2
<1>4. \A t \in Types : t = Native \/ t = Unresolvable \/ t.name \in Names
  BY DEF Types
<1> QED
  BY <1>1, <1>2, <1>3, <1>4

\* A parsed class, and the parts of its method.
LEMMA ContentIs ==
  ASSUME NEW p \in Contents
  PROVE  /\ p.base \in Names \cup {NoName} /\ p.nested \in Names \cup {NoName} /\ p.refs \in Seq(Types) /\ Len(p.refs) \in Nat
         /\ p.needed \in 0 .. MaxRefs /\ MaxRefs \in Nat /\ DOMAIN p.refs = 1 .. Len(p.refs)
         /\ p.refs # <<>> => p.needed \in 1 .. Len(p.refs)
         /\ p.refs = <<>> => p.needed = 0
<1>1. /\ p \in [base : Names \cup {NoName},
                nested : Names \cup {NoName},
                refs : UNION {[1 .. n -> Types] : n \in 0 .. MaxRefs},
                needed : 0 .. MaxRefs]
      /\ IF p.refs = <<>> THEN p.needed = 0 ELSE p.needed \in 1 .. Len(p.refs)
  BY DEF Contents
<1>2. PICK n \in 0 .. MaxRefs : p.refs \in [1 .. n -> Types]
  BY <1>1
<1>3. MaxRefs \in Nat /\ n \in Nat
  BY ResolverAssumption
<1>4. p.refs \in Seq(Types) /\ Len(p.refs) = n
  BY <1>2, <1>3
<1> QED
  BY <1>1, <1>2, <1>3, <1>4

\* Mapping a reference asks for that class first, and for nothing else.
LEMMA FormsAre ==
  ASSUME NEW p \in Contents, NEW c \in Names, NEW i \in 1 .. Len(p.refs),
         NEW role \in {"needed", "optional"}, role = "needed" => i <= p.needed
  PROVE  /\ Forms(p.refs[i], role, c) \in Seq(Uses(p, c))
         /\ p.refs[i] # Native =>
              /\ Len(Forms(p.refs[i], role, c)) >= 1
              /\ Forms(p.refs[i], role, c)[1].type.name = p.refs[i].name
<1> DEFINE t == p.refs[i]
           one == [type |-> t, role |-> role, cls |-> c]
           two == [type |-> Pointer(t.name), role |-> role, cls |-> c]
<1>1. t \in Types /\ p.needed \in Nat
  BY ContentIs
<1>2. CASE t = Native
  BY <1>2 DEF Forms
<1>3. CASE t # Native
  <2>1. one \in Uses(p, c)
    <3>1. one \in [type : Types \ {Native}, role : Roles, cls : {c}]
      BY <1>1, <1>3 DEF Roles
    <3>2. role = "needed" => i \in 1 .. p.needed
      BY <1>1
    <3>3. Reason(p, c, one)
      BY <1>3, <3>2 DEF Reason
    <3> QED
      BY <3>1, <3>3 DEF Uses, OfClass
  <2>2. CASE t.pointer \/ t = Unresolvable
    <3>1. Forms(t, role, c) = <<one>>
      BY <1>3, <2>2 DEF Forms
    <3> QED
      BY <2>1, <3>1
  <2>3. CASE ~(t.pointer \/ t = Unresolvable)
    <3>1. Forms(t, role, c) = <<one, two>>
      BY <1>3, <2>3 DEF Forms
    <3>2. t.name \in Names
      BY <1>1, <1>3, <2>3, TypeKinds
    <3>3. Pointer(t.name) \in Types \ {Native} /\ Pointer(t.name).name = t.name
      BY <3>2, TypeKinds
    <3>4. two \in [type : Types \ {Native}, role : Roles, cls : {c}]
      BY <3>3 DEF Roles
    <3>5. role = "needed" => i \in 1 .. p.needed
      BY <1>1
    <3>6. Reason(p, c, two)
      BY <1>3, <3>3, <3>5 DEF Reason
    <3>7. two \in Uses(p, c)
      BY <3>4, <3>6 DEF Uses, OfClass
    <3> HIDE DEF one, two
    <3>8. Forms(t, role, c) \in Seq(Uses(p, c)) /\ Len(Forms(t, role, c)) = 2
          /\ Forms(t, role, c)[1] = one
      BY <2>1, <3>1, <3>7
    <3> QED
      BY <3>8 DEF one
  <2> QED
    BY <2>2, <2>3
<1> QED
  BY <1>2, <1>3

\* The arguments' part.
ArgsOf(arg, p, c) ==
  /\ arg \in [0 .. Len(p.refs) -> Seq(Uses(p, c))]
  /\ \A i \in 0 .. Len(p.refs) : arg[i] = IF i <= 1 THEN <<>>
        ELSE arg[i - 1] \o Forms(p.refs[i], IF i <= p.needed THEN "needed" ELSE "optional", c)

\* What the method asks for, with the arguments' part.
MethodWith(last, p, c) ==
  IF p.refs = <<>> THEN <<>>
  ELSE Forms(p.refs[1], "needed", c) \o <<[type |-> Pointer(c), role |-> "needed", cls |-> c]>> \o last

\* What the arguments ask for, one argument after the other.
LEMMA MethodUnroll ==
  ASSUME NEW p \in Contents, NEW c \in Names
  PROVE  \E arg : ArgsOf(arg, p, c) /\ MethodOf(p, c) = MethodWith(arg[Len(p.refs)], p, c)
<1> DEFINE n == Len(p.refs)
           V == Seq(Uses(p, c))
           Of(i) == Forms(p.refs[i], IF i <= p.needed THEN "needed" ELSE "optional", c)
           Is(f) == f = [i \in 0 .. n |-> IF i <= 1 THEN <<>> ELSE f[i - 1] \o Of(i)]
           g == [x \in (0 + 1 .. n) \X V |-> IF x[1] <= 1 THEN <<>> ELSE x[2] \o Of(x[1])]
<1>1. n \in Nat /\ 0 <= n
  BY ContentIs
<1>2. \A i \in 1 .. n : Of(i) \in V
  BY FormsAre
<1> HIDE DEF n, Of
<1>3. <<>> \in V /\ \A s \in V, i \in 1 .. n : s \o Of(i) \in V
  <2>1. <<>> \in V
    OBVIOUS
  <2>2. ASSUME NEW s \in V, NEW i \in 1 .. n PROVE s \o Of(i) \in V
    BY <1>2
  <2> QED
    BY <2>1, <2>2
<1> HIDE DEF V
<1>4. StepsIn(g, 0, n, V)
  <2>1. \A x \in (0 + 1 .. n) \X V : (IF x[1] <= 1 THEN <<>> ELSE x[2] \o Of(x[1])) \in V
    BY <1>1, <1>3
  <2> QED
    BY <2>1 DEF StepsIn
<1>5. PICK f : Recursive(f, 0, n, V, <<>>, g)
  <2> HIDE DEF g
  <2> QED
    BY <1>1, <1>3, <1>4, Recursion
<1>6. /\ f \in [0 .. n -> V] /\ f[0] = <<>>
      /\ \A i \in 1 .. n : f[i] = IF i <= 1 THEN <<>> ELSE f[i - 1] \o Of(i)
  <2>1. f \in [0 .. n -> V] /\ f[0] = <<>>
    BY <1>5 DEF Recursive
  <2>2. ASSUME NEW i \in 1 .. n PROVE f[i] = IF i <= 1 THEN <<>> ELSE f[i - 1] \o Of(i)
    <3>1. i \in 0 + 1 .. n /\ f[i - 1] \in V
      BY <1>1, <2>1
    <3>2. g[<<i, f[i - 1]>>] = IF i <= 1 THEN <<>> ELSE f[i - 1] \o Of(i)
      BY <3>1
    <3> HIDE DEF g
    <3> QED
      BY <1>5, <3>1, <3>2 DEF Recursive
  <2> QED
    BY <2>1, <2>2
<1>7. Is(f)
  <2>1. \A i \in 0 .. n : f[i] = IF i <= 1 THEN <<>> ELSE f[i - 1] \o Of(i)
    <3> SUFFICES ASSUME NEW i \in 0 .. n PROVE f[i] = IF i <= 1 THEN <<>> ELSE f[i - 1] \o Of(i)
      OBVIOUS
    <3>1. CASE i = 0
      BY <1>6, <3>1
    <3>2. CASE i # 0
      <4>1. i \in 1 .. n
        BY <1>1, <3>2
      <4> QED
        BY <1>6, <4>1
    <3> QED
      BY <3>1, <3>2
  <2> QED
    BY <1>6, <2>1
<1>8. Is(CHOOSE h : Is(h))
  BY <1>7
<1>9. PICK arg : arg = (CHOOSE h : Is(h))
  OBVIOUS
<1>10. MethodOf(p, c) = MethodWith(arg[n], p, c)
  BY <1>9 DEF MethodOf, MethodWith, n, Of
<1>11. Is(arg)
  BY <1>8, <1>9
<1>12. \A i \in 0 .. n : arg[i] = IF i <= 1 THEN <<>> ELSE arg[i - 1] \o Of(i)
  BY <1>11
<1>13. \A i \in 0 .. n : arg[i] \in V
  <2> DEFINE S == {i \in Nat : i <= n => arg[i] \in V}
  <2>1. 0 \in S
    BY <1>1, <1>3, <1>12
  <2>2. ASSUME NEW i \in Nat, i \in S PROVE i + 1 \in S
    <3> SUFFICES ASSUME i + 1 <= n PROVE arg[i + 1] \in V
      OBVIOUS
    <3>1. i + 1 \in 1 .. n /\ i + 1 \in 0 .. n /\ arg[(i + 1) - 1] \in V
      BY <1>1, <2>2
    <3> QED
      BY <1>3, <1>12, <3>1
  <2>3. \A i \in Nat : i \in S
    <3> HIDE DEF S
    <3> QED
      BY <2>1, <2>2, Induction
  <2> QED
    BY <1>1, <2>3
<1>14. ArgsOf(arg, p, c)
  <2>1. arg \in [0 .. n -> V]
    BY <1>11, <1>13
  <2> QED
    BY <1>12, <2>1 DEF ArgsOf, n, V, Of
<1> QED
  BY <1>10, <1>14 DEF n

\* Every argument is asked for.
LEMMA ArgsCover ==
  ASSUME NEW p \in Contents, NEW c \in Names, NEW arg, ArgsOf(arg, p, c),
         NEW j \in 2 .. Len(p.refs), p.refs[j] # Native
  PROVE  \E i \in 1 .. Len(arg[Len(p.refs)]) : arg[Len(p.refs)][i].type.name = p.refs[j].name
<1> DEFINE n == Len(p.refs)
           x == p.refs[j].name
           V == Seq(Uses(p, c))
           Has(s) == \E i \in 1 .. Len(s) : s[i].type.name = x
           Of(i) == Forms(p.refs[i], IF i <= p.needed THEN "needed" ELSE "optional", c)
           S == {i \in Nat : i >= j /\ i <= n => Has(arg[i])}
<1>1. n \in Nat /\ \A i \in 1 .. n : Of(i) \in V
  BY ContentIs, FormsAre
<1>2. Has(Of(j))
  <2>1. j \in 1 .. Len(p.refs)
    BY ContentIs
  <2>2. Len(Of(j)) >= 1 /\ Of(j)[1].type.name = x /\ Of(j) \in V
    BY <2>1, FormsAre
  <2> HIDE DEF Of, x
  <2>3. 1 \in 1 .. Len(Of(j))
    BY <2>2
  <2> QED
    BY <2>2, <2>3
<1>3. \A i \in 0 .. n : arg[i] \in V /\ arg[i] = IF i <= 1 THEN <<>> ELSE arg[i - 1] \o Of(i)
  BY DEF ArgsOf
<1> HIDE DEF Of, n, x
<1>4. ASSUME NEW s \in V, NEW t \in V, Has(s) \/ Has(t) PROVE Has(s \o t)
  <2>1. /\ Len(s) \in Nat /\ Len(t) \in Nat /\ Len(s \o t) = Len(s) + Len(t)
        /\ \A i \in 1 .. Len(s) : (s \o t)[i] = s[i]
        /\ \A i \in 1 .. Len(t) : (s \o t)[Len(s) + i] = t[i]
    OBVIOUS
  <2>2. CASE Has(s)
    BY <2>1, <2>2
  <2>3. CASE Has(t)
    <3>1. PICK i \in 1 .. Len(t) : t[i].type.name = x
      BY <2>3
    <3>2. Len(s) + i \in 1 .. Len(s \o t) /\ (s \o t)[Len(s) + i] = t[i]
      BY <2>1
    <3> QED
      BY <3>1, <3>2
  <2> QED
    BY <1>4, <2>2, <2>3
<1> HIDE DEF V
<1>5. ASSUME NEW i \in 2 .. n, i = j \/ Has(arg[i - 1]) PROVE Has(arg[i])
  <2>1. arg[i - 1] \in V /\ Of(i) \in V /\ arg[i] = arg[i - 1] \o Of(i)
    <3>1. i \in 1 .. n /\ i \in 0 .. n /\ i - 1 \in 0 .. n /\ ~(i <= 1)
      BY <1>1
    <3> QED
      BY <1>1, <1>3, <3>1
  <2>2. Has(arg[i - 1]) \/ Has(Of(i))
    BY <1>2, <1>5
  <2> HIDE DEF Has
  <2> QED
    BY <1>4, <2>1, <2>2
<1> HIDE DEF Has
<1>6. 0 \in S
  OBVIOUS
<1>7. ASSUME NEW i \in Nat, i \in S PROVE i + 1 \in S
  <2> SUFFICES ASSUME i + 1 >= j, i + 1 <= n PROVE Has(arg[i + 1])
    OBVIOUS
  <2>1. i + 1 \in 2 .. n /\ (i + 1) - 1 = i
    OBVIOUS
  <2>2. i + 1 = j \/ Has(arg[i])
    <3>1. i + 1 = j \/ (i >= j /\ i <= n)
      BY <1>1
    <3> QED
      BY <1>7, <3>1
  <2> QED
    BY <1>5, <2>1, <2>2
<1>8. n \in S
  <2> HIDE DEF S
  <2> QED
    BY <1>1, <1>6, <1>7, Induction
<1>9. Has(arg[n])
  BY <1>1, <1>8 DEF n
<1> QED
  BY <1>9 DEF Has, n, x

\* What is asked before the children: about the base class, then the class.
LEMMA OpeningIs ==
  ASSUME NEW p \in Contents, NEW c \in Names, NEW s, s = OpeningOf(p, c)
  PROVE  /\ s \in Seq(OfClass(p, c)) /\ Len(s) \in {1, 2}
         /\ s[1].role = IF p.base = NoName THEN "self" ELSE "base"
         /\ Len(s) = 2 => p.base # NoName /\ s[2].role = "self"
<1> DEFINE Q == OfClass(p, c)
           base == [type |-> Plain(p.base), role |-> "base", cls |-> c]
           self == [type |-> Plain(c), role |-> "self", cls |-> c]
<1>1. p.base # NoName => base \in Q /\ base.role = "base"
  BY ContentIs, TypeKinds DEF OfClass, Roles, Reason
<1>2. self \in Q /\ self.role = "self"
  BY TypeKinds DEF OfClass, Roles, Reason
<1>3. s = (IF p.base = NoName THEN <<>> ELSE <<base>>) \o <<self>>
  BY DEF OpeningOf
<1> HIDE DEF base, self, Q
<1>4. CASE p.base = NoName
  <2>1. s = <<self>>
    BY <1>2, <1>3, <1>4
  <2> QED
    BY <1>2, <1>4, <2>1 DEF Q
<1>5. CASE p.base # NoName
  <2>1. s = <<base, self>>
    BY <1>3, <1>5, OneAndOne
  <2>2. s \in Seq(Q) /\ Len(s) = 2 /\ s[1] = base /\ s[2] = self
    BY <1>1, <1>2, <1>5, <2>1
  <2> QED
    BY <1>1, <1>2, <1>5, <2>2 DEF Q
<1> QED
  BY <1>4, <1>5

\* What is asked about the method, and that it covers all its references.
LEMMA MethodIs ==
  ASSUME NEW p \in Contents, NEW c \in Names, NEW s, s = MethodOf(p, c)
  PROVE  /\ s \in Seq(Uses(p, c))
         /\ \A j \in DOMAIN p.refs : p.refs[j] # Native =>
              \E i \in 1 .. Len(s) : s[i].type.name = p.refs[j].name
<1> DEFINE Q == Uses(p, c)
           this == [type |-> Pointer(c), role |-> "needed", cls |-> c]
           first == Forms(p.refs[1], "needed", c)
<1>1. PICK arg : ArgsOf(arg, p, c) /\ s = MethodWith(arg[Len(p.refs)], p, c)
  BY MethodUnroll
<1> DEFINE last == arg[Len(p.refs)]
<1>2. CASE p.refs = <<>>
  <2>1. s = <<>> /\ DOMAIN p.refs = {}
    BY <1>1, <1>2, ContentIs DEF MethodWith
  <2> QED
    BY <2>1
<1>3. CASE p.refs # <<>>
  <2>1. this \in Q
    BY TypeKinds DEF Uses, OfClass, Roles, Reason
  <2>2. first \in Seq(Q)
        /\ (p.refs[1] # Native => Len(first) >= 1 /\ first[1].type.name = p.refs[1].name)
    <3>1. 1 \in 1 .. Len(p.refs) /\ 1 <= p.needed
      BY <1>3, ContentIs
    <3> QED
      BY <3>1, FormsAre
  <2>3. last \in Seq(Q)
    <3>1. Len(p.refs) \in 0 .. Len(p.refs)
      BY ContentIs
    <3> QED
      BY <1>1, <3>1 DEF ArgsOf
  <2>4. \A j \in DOMAIN p.refs : p.refs[j] # Native =>
          \/ j = 1
          \/ \E i \in 1 .. Len(last) : last[i].type.name = p.refs[j].name
    <3> SUFFICES ASSUME NEW j \in DOMAIN p.refs, p.refs[j] # Native, j # 1
                 PROVE  \E i \in 1 .. Len(last) : last[i].type.name = p.refs[j].name
      OBVIOUS
    <3>1. j \in 2 .. Len(p.refs)
      BY ContentIs
    <3>2. ArgsOf(arg, p, c)
      BY <1>1
    <3> HIDE DEF last
    <3>3. \E i \in 1 .. Len(arg[Len(p.refs)]) : arg[Len(p.refs)][i].type.name = p.refs[j].name
      BY <3>1, <3>2, ArgsCover
    <3> QED
      BY <3>3 DEF last
  <2>5. s = first \o <<this>> \o last
    BY <1>1, <1>3 DEF MethodWith
  <2> HIDE DEF Q, this, first, last
  <2>6. /\ Len(first) \in Nat /\ Len(last) \in Nat /\ first \o <<this>> \in Seq(Q)
        /\ Len(first \o <<this>>) = Len(first) + 1
        /\ \A i \in 1 .. Len(first) : (first \o <<this>>)[i] = first[i]
    BY <2>1, <2>2, <2>3
  <2>7. s = (first \o <<this>>) \o last
    BY <2>5
  <2>8. /\ s \in Seq(Q) /\ Len(s) = Len(first \o <<this>>) + Len(last)
        /\ \A i \in 1 .. Len(first \o <<this>>) : s[i] = (first \o <<this>>)[i]
        /\ \A i \in 1 .. Len(last) : s[Len(first \o <<this>>) + i] = last[i]
    BY <2>3, <2>6, <2>7
  <2>9. ASSUME NEW j \in DOMAIN p.refs, p.refs[j] # Native
        PROVE  \E i \in 1 .. Len(s) : s[i].type.name = p.refs[j].name
    <3>1. CASE j = 1
      <4>1. Len(first) >= 1 /\ first[1].type.name = p.refs[j].name
        BY <2>2, <2>9, <3>1
      <4>2. 1 \in 1 .. Len(first) /\ 1 \in 1 .. Len(first \o <<this>>) /\ 1 \in 1 .. Len(s)
        BY <2>6, <2>8, <4>1
      <4>3. s[1] = first[1]
        BY <2>6, <2>8, <4>2
      <4> QED
        BY <4>1, <4>2, <4>3
    <3>2. ASSUME NEW i \in 1 .. Len(last), last[i].type.name = p.refs[j].name
          PROVE  \E m \in 1 .. Len(s) : s[m].type.name = p.refs[j].name
      <4>1. Len(first) + 1 + i \in 1 .. Len(s) /\ s[Len(first) + 1 + i] = last[i]
        BY <2>6, <2>8
      <4> QED
        BY <3>2, <4>1
    <3> QED
      BY <2>4, <2>9, <3>1, <3>2
  <2> QED
    BY <2>8, <2>9 DEF Q
<1> QED
  BY <1>2, <1>3

\* A class asks on its own account only, and prepares itself only first.
LEMMA OwnQuestions ==
  ASSUME NEW k, NEW c \in Names, \A d \in Names : k[d] \in Contents
  PROVE  /\ \A q \in OfClass(k[c], c) : q.cls = c
         /\ \A b : c \in {b, k[b].nested} => OfClass(k[c], c) \subseteq Questions(k, b)
         /\ \A q \in Uses(k[c], c) : q \in OfClass(k[c], c) /\ ~ Opens(k, q)
<1>1. \A q \in OfClass(k[c], c) : q.cls = c
  BY DEF OfClass
<1>2. ASSUME NEW b, c \in {b, k[b].nested}, NEW q \in OfClass(k[c], c)
      PROVE  q \in Questions(k, b)
  <2>1. q \in [type : Types \ {Native}, role : Roles, cls : Names] /\ q.cls = c /\ Reason(k[c], c, q)
    BY DEF OfClass
  <2> QED
    BY <1>2, <2>1 DEF Questions
<1>3. ASSUME NEW q \in Uses(k[c], c)
      PROVE  q \in OfClass(k[c], c) /\ ~ Opens(k, q)
  <2>1. q \in OfClass(k[c], c) /\ q.role \in {"needed", "optional"}
    BY DEF Uses
  <2> QED
    BY <2>1 DEF Opens
<1> QED
  BY <1>1, <1>2, <1>3

\* The questions about the class that is nested in c.
LEMMA NestedIs ==
  ASSUME NEW k, NEW c \in Names, \A d \in Names : k[d] \in Contents,
         NEW s, s = NestedOf(k, c)
  PROVE  /\ s \in Seq(Questions(k, c)) /\ Len(s) \in Nat
         /\ \A i \in 1 .. Len(s) : s[i].cls = k[c].nested
<1> DEFINE d == k[c].nested
<1>1. CASE d = NoName
  <2>1. s = <<>>
    BY <1>1 DEF NestedOf
  <2> QED
    BY <2>1
<1>2. CASE d # NoName
  <2>1. d \in Names
    BY <1>2, ContentIs
  <2> DEFINE o == OpeningOf(k[d], d)
             m == MethodOf(k[d], d)
             Q == OfClass(k[d], d)
  <2>2. o \in Seq(Q)
    BY <2>1, OpeningIs
  <2>3. m \in Seq(Q)
    <3>1. m \in Seq(Uses(k[d], d)) /\ Uses(k[d], d) \subseteq Q
      BY <2>1, MethodIs DEF Uses
    <3> QED
      BY <3>1
  <2>4. Q \subseteq Questions(k, c) /\ \A q \in Q : q.cls = d
    BY <2>1, OwnQuestions
  <2>5. s = o \o m
    BY <1>2 DEF NestedOf
  <2> HIDE DEF o, m, Q
  <2>6. s \in Seq(Q)
    BY <2>2, <2>3, <2>5
  <2>7. \A i \in 1 .. Len(s) : s[i] \in Q
    BY <2>6
  <2> QED
    BY <2>4, <2>6, <2>7
<1> QED
  BY <1>1, <1>2

\* The questions that resolving a class asks, in what order, and that it asks
\* for all that the class refers to.
LEMMA AskFacts ==
  ASSUME NEW k, NEW c \in Names, \A d \in Names : k[d] \in Contents,
         NEW a, a = AsksOf(k, c), NEW z, z = AfterOf(k, c)
  PROVE  /\ a \in Seq(Questions(k, c)) /\ Len(a) \in Nat /\ Len(a) >= 1
         /\ a[1].cls = c /\ Opens(k, a[1])
         /\ \A i \in 2 .. Len(a) : a[i].cls = c /\ k[c].nested # c => ~ Opens(k, a[i])
         /\ z \in Nat \ {0} /\ \A i \in 1 .. Len(a) : a[i].cls # c => i < z
         /\ \A j \in DOMAIN k[c].refs : k[c].refs[j] # Native =>
              \E i \in 1 .. Len(a) : a[i].type.name = k[c].refs[j].name
<1> DEFINE Q == Questions(k, c)
           o == OpeningOf(k[c], c)
           n == NestedOf(k, c)
           m == MethodOf(k[c], c)
           R == OfClass(k[c], c)
           U == Uses(k[c], c)
<1>1. /\ o \in Seq(R) /\ Len(o) \in {1, 2}
      /\ o[1].role = IF k[c].base = NoName THEN "self" ELSE "base"
      /\ Len(o) = 2 => k[c].base # NoName /\ o[2].role = "self"
  BY OpeningIs
<1>2. n \in Seq(Q) /\ Len(n) \in Nat /\ \A i \in 1 .. Len(n) : n[i].cls = k[c].nested
  BY NestedIs
<1>3. /\ m \in Seq(U)
      /\ \A j \in DOMAIN k[c].refs : k[c].refs[j] # Native =>
           \E i \in 1 .. Len(m) : m[i].type.name = k[c].refs[j].name
  BY MethodIs
<1>4. R \subseteq Q /\ U \subseteq R /\ \A q \in R : q.cls = c
  BY OwnQuestions DEF Uses
<1>5. \A q \in U : ~ Opens(k, q)
  BY OwnQuestions
<1>6. a = o \o n \o m /\ z = Len(o) + Len(n) + 1
  BY DEF AsksOf, AfterOf
<1>7. /\ o[1] \in R /\ o[1].cls = c /\ Opens(k, o[1])
      /\ Len(o) = 2 => o[2] \in R /\ o[2].cls = c /\ ~ Opens(k, o[2])
  <2>1. o[1] \in R /\ (Len(o) = 2 => o[2] \in R)
    <3> HIDE DEF o, R
    <3> QED
      BY <1>1
  <2>2. o[1].cls = c /\ (Len(o) = 2 => o[2].cls = c)
    BY <1>4, <2>1
  <2> QED
    BY <1>1, <2>1, <2>2 DEF Opens
<1> HIDE DEF o, n, m, R, U, Q
<1>8. /\ o \in Seq(Q) /\ m \in Seq(Q)
      /\ \A i \in 1 .. Len(m) : m[i] \in U /\ m[i].cls = c
  BY <1>1, <1>3, <1>4
<1>9. /\ o \o n \in Seq(Q) /\ Len(o \o n) = Len(o) + Len(n)
      /\ \A i \in 1 .. Len(o) : (o \o n)[i] = o[i]
      /\ \A i \in 1 .. Len(n) : (o \o n)[Len(o) + i] = n[i]
  BY <1>2, <1>8
<1>10. /\ a \in Seq(Q) /\ Len(a) = Len(o \o n) + Len(m) /\ Len(m) \in Nat
       /\ \A i \in 1 .. Len(o \o n) : a[i] = (o \o n)[i]
       /\ \A i \in 1 .. Len(m) : a[Len(o \o n) + i] = m[i]
  BY <1>6, <1>8, <1>9
<1>11. /\ Len(a) = Len(o) + Len(n) + Len(m)
       /\ \A i \in 1 .. Len(o) : a[i] = o[i]
       /\ \A i \in 1 .. Len(n) : a[Len(o) + i] = n[i]
       /\ \A i \in 1 .. Len(m) : a[Len(o) + Len(n) + i] = m[i]
  <2>1. \A i \in 1 .. Len(o) : i \in 1 .. Len(o \o n)
    BY <1>1, <1>2, <1>9
  <2>2. \A i \in 1 .. Len(n) : Len(o) + i \in 1 .. Len(o \o n)
    BY <1>1, <1>2, <1>9
  <2> QED
    BY <1>9, <1>10, <2>1, <2>2
<1>12. ASSUME NEW i \in 1 .. Len(a)
       PROVE  \/ i \in 1 .. Len(o) /\ a[i] = o[i]
              \/ /\ i > Len(o) /\ i <= Len(o) + Len(n) /\ a[i].cls = k[c].nested
              \/ /\ i > Len(o) + Len(n) /\ a[i] \in U /\ a[i].cls = c
  <2>1. CASE i <= Len(o)
    BY <1>11, <2>1
  <2>2. CASE i > Len(o) /\ i <= Len(o) + Len(n)
    <3>1. i - Len(o) \in 1 .. Len(n) /\ Len(o) + (i - Len(o)) = i
      BY <1>1, <1>2, <2>2
    <3>2. a[i] = n[i - Len(o)]
      BY <1>11, <3>1
    <3> QED
      BY <1>2, <2>2, <3>1, <3>2
  <2>3. CASE i > Len(o) + Len(n)
    <3>1. /\ i - (Len(o) + Len(n)) \in 1 .. Len(m)
          /\ Len(o) + Len(n) + (i - (Len(o) + Len(n))) = i
      BY <1>1, <1>2, <1>10, <1>11, <2>3
    <3>2. a[i] = m[i - (Len(o) + Len(n))]
      BY <1>11, <3>1
    <3> QED
      BY <1>8, <2>3, <3>1, <3>2
  <2> QED
    BY <1>1, <1>2, <2>1, <2>2, <2>3
<1>13. /\ Len(a) \in Nat /\ Len(a) >= 1 /\ z \in Nat \ {0} /\ a[1] = o[1]
  BY <1>1, <1>2, <1>6, <1>10, <1>11
<1>14. ASSUME NEW i \in 2 .. Len(a), a[i].cls = c, k[c].nested # c
       PROVE  ~ Opens(k, a[i])
  <2>1. i \in 1 .. Len(a) /\ i # 1
    BY <1>13
  <2>2. CASE i \in 1 .. Len(o) /\ a[i] = o[i]
    <3>1. i = 2 /\ Len(o) = 2
      BY <1>1, <2>1, <2>2
    <3> QED
      BY <1>7, <2>2, <3>1
  <2>3. CASE a[i] \in U
    BY <1>5, <2>3
  <2> QED
    BY <1>12, <1>14, <2>1, <2>2, <2>3
<1>15. ASSUME NEW i \in 1 .. Len(a), a[i].cls # c PROVE i < z
  <2>1. CASE i \in 1 .. Len(o) /\ a[i] = o[i]
    <3>1. i = 1 \/ (i = 2 /\ Len(o) = 2)
      BY <1>1, <2>1
    <3> QED
      BY <1>7, <1>15, <2>1, <3>1
  <2>2. CASE i <= Len(o) + Len(n)
    BY <1>1, <1>2, <1>6, <2>2
  <2> QED
    BY <1>12, <1>15, <2>1, <2>2
<1>16. ASSUME NEW j \in DOMAIN k[c].refs, k[c].refs[j] # Native
       PROVE  \E i \in 1 .. Len(a) : a[i].type.name = k[c].refs[j].name
  <2>1. PICK i \in 1 .. Len(m) : m[i].type.name = k[c].refs[j].name
    BY <1>3, <1>16
  <2>2. Len(o) + Len(n) + i \in 1 .. Len(a) /\ a[Len(o) + Len(n) + i] = m[i]
    BY <1>1, <1>2, <1>10, <1>11
  <2> QED
    BY <2>1, <2>2
<1> QED
  BY <1>7, <1>10, <1>13, <1>14, <1>15, <1>16 DEF Q

-----------------------------------------------------------------------------
(* The calls under way, by their types and by who called whom. *)

ClassesOrNone == Names \cup {NoName}

MapCalls ==
  [kind : {"map"}, stage : {"can", "include"}, type : Types \ {Native}, mark : Types,
   cls : {NoName}, at : {0}, over : {{}}, refs : {{}}, lost : {FALSE}]

ClassCalls ==
  [kind : {"class"}, stage : {"resolve"}, type : Types, mark : Types,
   cls : Names, at : Nat \ {0}, over : SUBSET ClassesOrNone, refs : SUBSET ClassesOrNone,
   lost : BOOLEAN]

\* A call marks nothing but the class it is about, in one of its forms.
Calls == {f \in MapCalls \cup ClassCalls : f.mark.name = f.type.name}

\* f was called by g: resolve on a class for the type that map was called for,
\* map for the type that resolve on a class asks for.
CalledBy(f, g, k) ==
  \/ f.kind = "class" /\ g.kind = "map" /\ g.type.name = f.cls
  \/ /\ f.kind = "map" /\ g.kind = "class"
     /\ g.at \in 1 .. Len(AsksOf(k, g.cls))
     /\ f.type = AsksOf(k, g.cls)[g.at].type

IsChain(s, k) ==
  /\ s \in Seq(Calls)
  /\ \A i \in 1 .. Len(s) - 1 : CalledBy(s[i], s[i + 1], k)
  /\ s # <<>> => s[Len(s)].kind = "map"

\* The calls in s.
Among(s) == {s[i] : i \in 1 .. Len(s)}

\* A call is of one kind.
LEMMA CallKinds ==
  /\ \A f \in Calls : f.kind = "map" => f \in MapCalls
  /\ \A f \in Calls : f.kind = "class" => f \in ClassCalls
  /\ \A f \in MapCalls : f.kind = "map"
  /\ \A f \in ClassCalls : f.kind = "class"
BY DEF Calls, MapCalls, ClassCalls

\* A call that the innermost one makes joins the chain.
LEMMA ChainPush ==
  ASSUME NEW k, NEW s, IsChain(s, k), NEW f \in Calls,
         IF s = <<>> THEN f.kind = "map" ELSE CalledBy(f, Head(s), k)
  PROVE  /\ IsChain(<<f>> \o s, k)
         /\ <<f>> \o s # <<>> /\ Head(<<f>> \o s) = f /\ Tail(<<f>> \o s) = s
         /\ Among(<<f>> \o s) = {f} \cup Among(s)
<1> DEFINE t == <<f>> \o s
<1>1. s \in Seq(Calls)
  BY DEF IsChain
<1>2. /\ t \in Seq(Calls) /\ Len(s) \in Nat /\ Len(t) = Len(s) + 1
      /\ t[1] = f /\ \A i \in 1 .. Len(s) : t[i + 1] = s[i]
  BY <1>1
<1>3. t # <<>> /\ Head(t) = f
  BY <1>2
<1>4. Tail(t) = s
  BY <1>1
<1>5. Among(t) = {f} \cup Among(s)
  <2>1. ASSUME NEW i \in 1 .. Len(t) PROVE t[i] \in {f} \cup Among(s)
    <3>1. CASE i = 1
      BY <1>2, <3>1
    <3>2. CASE i # 1
      <4>1. i - 1 \in 1 .. Len(s) /\ (i - 1) + 1 = i
        BY <1>2, <3>2
      <4>2. t[i] = s[i - 1]
        BY <1>2, <4>1
      <4> QED
        BY <4>1, <4>2 DEF Among
    <3> QED
      BY <3>1, <3>2
  <2>2. f \in Among(t)
    <3>1. 1 \in 1 .. Len(t)
      BY <1>2
    <3> QED
      BY <1>2, <3>1 DEF Among
  <2>3. ASSUME NEW i \in 1 .. Len(s) PROVE s[i] \in Among(t)
    <3>1. i + 1 \in 1 .. Len(t) /\ t[i + 1] = s[i]
      BY <1>2
    <3> QED
      BY <3>1 DEF Among
  <2> HIDE DEF t
  <2> QED
    BY <2>1, <2>2, <2>3 DEF Among
<1>6. ASSUME NEW i \in 1 .. Len(t) - 1 PROVE CalledBy(t[i], t[i + 1], k)
  <2>1. i \in 1 .. Len(s) /\ t[i + 1] = s[i]
    BY <1>2
  <2>2. CASE i = 1
    <3>1. s # <<>> /\ Head(s) = s[1]
      BY <1>1, <2>1
    <3> QED
      BY <1>2, <2>1, <2>2, <3>1
  <2>3. CASE i # 1
    <3>1. i - 1 \in 1 .. Len(s) - 1 /\ (i - 1) + 1 = i /\ i - 1 \in 1 .. Len(s)
      BY <1>2, <2>1, <2>3
    <3>2. t[i] = s[i - 1]
      BY <1>2, <3>1
    <3> QED
      BY <2>1, <3>1, <3>2 DEF IsChain
  <2> QED
    BY <2>2, <2>3
<1>7. t[Len(t)].kind = "map"
  <2>1. CASE s = <<>>
    <3>1. Len(t) = 1
      BY <1>2, <2>1
    <3> QED
      BY <1>2, <2>1, <3>1
  <2>2. CASE s # <<>>
    <3>1. Len(s) \in 1 .. Len(s)
      BY <1>1, <2>2
    <3>2. t[Len(t)] = s[Len(s)]
      BY <1>2, <3>1
    <3> QED
      BY <2>2, <3>2 DEF IsChain
  <2> QED
    BY <2>1, <2>2
<1> HIDE DEF t
<1>8. IsChain(t, k)
  BY <1>2, <1>6, <1>7 DEF IsChain
<1> QED
  BY <1>3, <1>4, <1>5, <1>8 DEF t

\* When the innermost call returns the others are a chain.
LEMMA ChainPop ==
  ASSUME NEW k, NEW s, IsChain(s, k), s # <<>>
  PROVE  /\ IsChain(Tail(s), k) /\ Head(s) \in Calls
         /\ IF Tail(s) = <<>> THEN Head(s).kind = "map"
            ELSE CalledBy(Head(s), Head(Tail(s)), k) /\ Head(Tail(s)) \in Calls
         /\ Among(s) = {Head(s)} \cup Among(Tail(s))
         /\ s = <<Head(s)>> \o Tail(s)
<1> DEFINE t == Tail(s)
<1>1. s \in Seq(Calls)
  BY DEF IsChain
<1>2. /\ t \in Seq(Calls) /\ Len(s) \in Nat /\ Len(s) >= 1 /\ Len(t) = Len(s) - 1
      /\ \A i \in 1 .. Len(t) : t[i] = s[i + 1]
      /\ Head(s) = s[1] /\ Head(s) \in Calls
  BY <1>1, HeadTailProperties
<1>3. s = <<Head(s)>> \o t
  BY <1>1
<1>4. Among(s) = {Head(s)} \cup Among(t)
  <2>1. ASSUME NEW i \in 1 .. Len(s) PROVE s[i] \in {Head(s)} \cup Among(t)
    <3>1. CASE i = 1
      BY <1>2, <3>1
    <3>2. CASE i # 1
      <4>1. i - 1 \in 1 .. Len(t) /\ (i - 1) + 1 = i
        BY <1>2, <3>2
      <4>2. t[i - 1] = s[i]
        BY <1>2, <4>1
      <4> HIDE DEF t
      <4> QED
        BY <4>1, <4>2 DEF Among
    <3> QED
      BY <3>1, <3>2
  <2>2. Head(s) \in Among(s)
    <3>1. 1 \in 1 .. Len(s)
      BY <1>2
    <3> QED
      BY <1>2, <3>1 DEF Among
  <2>3. ASSUME NEW i \in 1 .. Len(t) PROVE t[i] \in Among(s)
    <3>1. i + 1 \in 1 .. Len(s) /\ t[i] = s[i + 1]
      BY <1>2
    <3> QED
      BY <3>1 DEF Among
  <2> HIDE DEF t
  <2> QED
    BY <2>1, <2>2, <2>3 DEF Among
<1>5. ASSUME NEW i \in 1 .. Len(t) - 1 PROVE CalledBy(t[i], t[i + 1], k)
  <2>1. i + 1 \in 1 .. Len(s) - 1 /\ t[i] = s[i + 1] /\ t[i + 1] = s[(i + 1) + 1]
    BY <1>2
  <2> QED
    BY <2>1 DEF IsChain
<1>6. t # <<>> => t[Len(t)].kind = "map"
  <2> SUFFICES ASSUME t # <<>> PROVE t[Len(t)].kind = "map"
    OBVIOUS
  <2>1. Len(t) \in 1 .. Len(t) /\ Len(t) + 1 = Len(s)
    BY <1>2
  <2>2. t[Len(t)] = s[Len(s)]
    BY <1>2, <2>1
  <2> QED
    BY <2>2 DEF IsChain
<1>7. IsChain(t, k)
  <2> HIDE DEF t
  <2> QED
    BY <1>2, <1>5, <1>6 DEF IsChain
<1>8. IF t = <<>> THEN Head(s).kind = "map" ELSE CalledBy(Head(s), Head(t), k) /\ Head(t) \in Calls
  <2>1. CASE t = <<>>
    <3>1. Len(s) = 1
      BY <2>1, <1>2
    <3> QED
      BY <2>1, <3>1, <1>2 DEF IsChain
  <2>2. CASE t # <<>>
    <3>1. /\ 1 \in 1 .. Len(s) - 1 /\ 1 \in 1 .. Len(t) /\ Head(t) = t[1] /\ Head(t) \in Calls
      BY <2>2, <1>2
    <3>2. t[1] = s[1 + 1]
      BY <1>2, <3>1
    <3>3. CalledBy(s[1], s[1 + 1], k)
      BY <3>1 DEF IsChain
    <3> QED
      BY <2>2, <3>1, <3>2, <3>3, <1>2
  <2> QED
    BY <2>1, <2>2
<1> QED
  BY <1>2, <1>3, <1>4, <1>7, <1>8

\* No calls are a chain.
LEMMA ChainEmpty == \A k : IsChain(<<>>, k) /\ Among(<<>>) = {}
<1>1. <<>> \in Seq(Calls) /\ Len(<<>>) = 0
  OBVIOUS
<1> QED
  BY <1>1 DEF IsChain, Among

\* A call of map that has made a call waits for resolve on the class it is about.
LEMMA WaitsForClass ==
  ASSUME NEW k, NEW s, IsChain(s, k), s # <<>>, NEW g \in Among(Tail(s)), g.kind = "map"
  PROVE  \E f \in Among(s) : f.kind = "class" /\ f.cls = g.type.name
<1>1. s \in Seq(Calls)
  BY DEF IsChain
<1>2. /\ Tail(s) \in Seq(Calls) /\ Len(s) \in Nat /\ Len(Tail(s)) = Len(s) - 1
      /\ \A i \in 1 .. Len(Tail(s)) : Tail(s)[i] = s[i + 1]
  BY <1>1, HeadTailProperties
<1>3. PICK i \in 1 .. Len(Tail(s)) : g = Tail(s)[i]
  BY DEF Among
<1>4. i \in 1 .. Len(s) - 1 /\ i \in 1 .. Len(s) /\ s[i + 1] = g
  BY <1>2, <1>3
<1>5. CalledBy(s[i], g, k)
  BY <1>4 DEF IsChain
<1>6. s[i].kind = "class" /\ s[i].cls = g.type.name
  BY <1>5 DEF CalledBy
<1> QED
  BY <1>4, <1>6 DEF Among

\* Two calls in front of the rest are two calls one after the other.
LEMMA ChainOfTwo ==
  ASSUME NEW k, NEW s, IsChain(s, k), s # <<>>, NEW f, NEW g
  PROVE  <<f, g>> \o Tail(s) = <<f>> \o (<<g>> \o Tail(s))
<1> DEFINE G == Calls \cup {f, g}
<1>1. Tail(s) \in Seq(Calls)
  BY ChainPop DEF IsChain
<1>2. Tail(s) \in Seq(G) /\ <<f>> \in Seq(G) /\ <<g>> \in Seq(G)
  BY <1>1
<1>3. (<<f>> \o <<g>>) \o Tail(s) = <<f>> \o (<<g>> \o Tail(s))
  BY <1>2, ConcatAssociative
<1> QED
  BY <1>3, OneAndOne

\* A new call of map, and of resolve on a class.
LEMMA NewCalls ==
  /\ \A t \in Types \ {Native} : MapFrame(t) \in Calls /\ MapFrame(t).kind = "map" /\ MapFrame(t).type = t
                                 /\ MapFrame(t).stage = "can"
  /\ \A c \in Names : /\ ClassFrame(c) \in Calls /\ ClassFrame(c).kind = "class"
                      /\ ClassFrame(c).cls = c /\ ClassFrame(c).at = 1
                      /\ ClassFrame(c).over = {} /\ ClassFrame(c).refs = {} /\ ~ ClassFrame(c).lost
<1>1. ASSUME NEW t \in Types \ {Native}
      PROVE  MapFrame(t) \in Calls /\ MapFrame(t).kind = "map" /\ MapFrame(t).type = t
             /\ MapFrame(t).stage = "can"
  BY DEF MapFrame, Calls, MapCalls
<1>2. ASSUME NEW c \in Names
      PROVE  /\ ClassFrame(c) \in Calls /\ ClassFrame(c).kind = "class"
             /\ ClassFrame(c).cls = c /\ ClassFrame(c).at = 1
             /\ ClassFrame(c).over = {} /\ ClassFrame(c).refs = {} /\ ~ ClassFrame(c).lost
  BY TypeKinds DEF ClassFrame, Calls, ClassCalls
<1> QED
  BY <1>1, <1>2

\* What is on the stack: who called whom, and what the innermost call may get.
CallsOK ==
  /\ IsChain(stack, content)
  /\ stack = <<>> => answer \in {"none"} \cup MapAnswers
  /\ stack # <<>> /\ answer # "none" =>
       IF Top.kind = "map" THEN Top.type.name \in Names
       ELSE Top.at \in 1 .. Len(AsksOf(content, Top.cls))

\* Before resolving.
Fresh ==
  /\ todo = {} /\ classes = {} /\ DOMAIN resolved = {} /\ DOMAIN found = {}
  /\ inProgress = {} /\ DOMAIN cache = {} /\ stack = <<>> /\ answer = "none"
  /\ prepared = [c \in Names |-> 0]

SInv ==
  /\ phase \in {"parsing", "resolving", "done", "failed"}
  /\ DOMAIN content \subseteq Names /\ IsFiniteSet(DOMAIN content)
  /\ \A c \in DOMAIN content : content[c] \in Contents
  /\ IF phase = "parsing" THEN Fresh ELSE DOMAIN content = Names
  /\ phase = "done" => todo = {} /\ stack = <<>> /\ answer = "none"
  /\ todo \subseteq Names /\ classes \subseteq Names
  /\ DOMAIN resolved \subseteq Names /\ DOMAIN found \subseteq Names
  /\ inProgress \subseteq Types /\ DOMAIN cache \subseteq Types
  /\ prepared \in [Names -> Nat]
  /\ CallsOK

\* The innermost call is one of map.
LEMMA TopMap ==
  ASSUME SInv, NEW g, Running("map", g)
  PROVE  /\ stack # <<>> /\ Top = Head(stack) /\ Top \in MapCalls /\ Top \in Calls
         /\ Top.kind = "map" /\ Top.stage = g
         /\ Top.type \in Types \ {Native} /\ Top.mark \in Types /\ Top.mark.name = Top.type.name
         /\ IsChain(stack, content) /\ IsChain(Tail(stack), content)
         /\ Among(stack) = {Top} \cup Among(Tail(stack))
         /\ Tail(stack) # <<>> =>
              LET r == Head(Tail(stack))
              IN  /\ r \in ClassCalls /\ r.kind = "class" /\ r.cls \in Names
                  /\ r.at \in 1 .. Len(AsksOf(content, r.cls))
                  /\ Top.type = AsksOf(content, r.cls)[r.at].type
         /\ phase = "resolving" /\ DOMAIN content = Names
         /\ answer # "none" => Top.type.name \in Names
<1>1. /\ stack # <<>> /\ Top = Head(stack) /\ Top.kind = "map" /\ Top.stage = g
      /\ IsChain(stack, content) /\ phase = "resolving"
  BY DEF Running, Top, SInv, CallsOK
<1>2. /\ IsChain(Tail(stack), content) /\ Top \in Calls
      /\ Tail(stack) # <<>> => /\ CalledBy(Top, Head(Tail(stack)), content)
                               /\ Head(Tail(stack)) \in Calls
      /\ Among(stack) = {Top} \cup Among(Tail(stack))
  BY <1>1, ChainPop
<1>3. Top \in MapCalls
  BY <1>1, <1>2, CallKinds
<1>4. /\ Top.type \in Types \ {Native} /\ Top.mark \in Types /\ Top.mark.name = Top.type.name
  BY <1>2, <1>3 DEF Calls, MapCalls
<1>5. ASSUME Tail(stack) # <<>>
      PROVE  LET r == Head(Tail(stack))
              IN  /\ r \in ClassCalls /\ r.kind = "class" /\ r.cls \in Names
                  /\ r.at \in 1 .. Len(AsksOf(content, r.cls))
                  /\ Top.type = AsksOf(content, r.cls)[r.at].type
  <2> DEFINE r == Head(Tail(stack))
  <2>1. /\ r.kind = "class" /\ r \in Calls
        /\ r.at \in 1 .. Len(AsksOf(content, r.cls))
        /\ Top.type = AsksOf(content, r.cls)[r.at].type
    BY <1>1, <1>2, <1>5 DEF CalledBy
  <2>2. r \in ClassCalls
    BY <2>1, CallKinds
  <2>3. r.cls \in Names
    BY <2>2 DEF ClassCalls
  <2> QED
    BY <2>1, <2>2, <2>3
<1>6. DOMAIN content = Names /\ (answer # "none" => Top.type.name \in Names)
  BY <1>1 DEF SInv, CallsOK
<1> QED
  BY <1>1, <1>2, <1>3, <1>4, <1>5, <1>6

\* The innermost call is one of resolve on a class.
LEMMA TopClass ==
  ASSUME SInv, NEW g, Running("class", g)
  PROVE  /\ stack # <<>> /\ Top = Head(stack) /\ Top \in ClassCalls /\ Top \in Calls
         /\ Top.kind = "class" /\ Top.cls \in Names /\ Top.at \in Nat \ {0}
         /\ content[Top.cls] \in Contents /\ \A d \in Names : content[d] \in Contents
         /\ IsChain(stack, content) /\ IsChain(Tail(stack), content)
         /\ Among(stack) = {Top} \cup Among(Tail(stack))
         /\ Tail(stack) # <<>> /\ Head(Tail(stack)) \in MapCalls /\ Head(Tail(stack)).kind = "map"
         /\ Head(Tail(stack)).type.name = Top.cls
         /\ phase = "resolving" /\ DOMAIN content = Names
         /\ answer # "none" => Top.at \in 1 .. Len(AsksOf(content, Top.cls))
<1>1. /\ stack # <<>> /\ Top = Head(stack) /\ Top.kind = "class"
      /\ IsChain(stack, content) /\ phase = "resolving"
  BY DEF Running, Top, SInv, CallsOK
<1>2. /\ IsChain(Tail(stack), content) /\ Top \in Calls /\ Tail(stack) # <<>>
      /\ CalledBy(Top, Head(Tail(stack)), content) /\ Head(Tail(stack)) \in Calls
      /\ Among(stack) = {Top} \cup Among(Tail(stack))
  BY <1>1, ChainPop
<1>3. Top \in ClassCalls
  BY <1>1, <1>2, CallKinds
<1>4. Top.cls \in Names /\ Top.at \in Nat \ {0}
  BY <1>3 DEF ClassCalls
<1>5. Head(Tail(stack)).kind = "map" /\ Head(Tail(stack)).type.name = Top.cls
  BY <1>1, <1>2 DEF CalledBy
<1>6. Head(Tail(stack)) \in MapCalls
  BY <1>2, <1>5, CallKinds
<1>7. /\ DOMAIN content = Names /\ content[Top.cls] \in Contents
      /\ \A d \in Names : content[d] \in Contents
      /\ answer # "none" => Top.at \in 1 .. Len(AsksOf(content, Top.cls))
  BY <1>1, <1>4 DEF SInv, CallsOK
<1> QED
  BY <1>1, <1>2, <1>3, <1>4, <1>5, <1>6, <1>7

-----------------------------------------------------------------------------
(* What becomes of the calls. *)

\* map returns to the resolve on a class that asked, or to resolveAll.
LEMMA MapReturns ==
  ASSUME SInv, NEW g, Running("map", g), NEW v, v \in MapAnswers, Return(Tail(stack), v),
         content' = content
  PROVE  CallsOK'
<1>1. stack' = Tail(stack) /\ answer' = v
  BY DEF Return
<1>2. /\ IsChain(Tail(stack), content)
      /\ Tail(stack) # <<>> =>
           LET r == Head(Tail(stack))
           IN  r.kind = "class" /\ r.at \in 1 .. Len(AsksOf(content, r.cls))
  BY TopMap
<1>3. Top' = Head(Tail(stack))
  BY <1>1 DEF Top
<1> QED
  BY <1>1, <1>2, <1>3 DEF CallsOK

\* resolve on a class returns to the map that called it.
LEMMA ClassReturns ==
  ASSUME SInv, NEW g, Running("class", g), NEW v, Return(Tail(stack), v), content' = content
  PROVE  CallsOK' /\ Top' = Head(Tail(stack)) /\ Top'.kind = "map" /\ Top'.type.name = Top.cls
<1>1. stack' = Tail(stack) /\ answer' = v
  BY DEF Return
<1>2. /\ IsChain(Tail(stack), content) /\ Tail(stack) # <<>>
      /\ Head(Tail(stack)).kind = "map" /\ Head(Tail(stack)).type.name = Top.cls
      /\ Top.cls \in Names
  BY TopClass
<1>3. Top' = Head(Tail(stack))
  BY <1>1 DEF Top
<1> QED
  BY <1>1, <1>2, <1>3 DEF CallsOK

\* map is called by resolveAll.
LEMMA VisitCalls ==
  ASSUME SInv, stack = <<>>, NEW t \in Types \ {Native}, Map(<<>>, t), content' = content,
         \A x \in DOMAIN cache : cache[x] \in Mappings
  PROVE  /\ CallsOK'
         /\ \/ stack' = <<>> /\ t \in DOMAIN cache /\ answer' = cache[t]
            \/ /\ t \notin DOMAIN cache /\ stack' = <<MapFrame(t)>> \o <<>> /\ answer' = "none"
               /\ stack' # <<>> /\ Among(stack') = {MapFrame(t)} /\ Top' = MapFrame(t)
<1>1. IsChain(<<>>, content) /\ Among(<<>>) = {}
  BY ChainEmpty
<1>2. CASE t \in DOMAIN cache
  <2>1. stack' = <<>> /\ answer' = cache[t] /\ answer' \in MapAnswers
    BY <1>2 DEF Map, Return, MapAnswers
  <2> QED
    BY <1>1, <1>2, <2>1 DEF CallsOK
<1>3. CASE t \notin DOMAIN cache
  <2>1. stack' = <<MapFrame(t)>> \o <<>> /\ answer' = "none"
    BY <1>3 DEF Map
  <2>2. MapFrame(t) \in Calls /\ MapFrame(t).kind = "map"
    BY NewCalls
  <2>3. /\ IsChain(<<MapFrame(t)>> \o <<>>, content) /\ <<MapFrame(t)>> \o <<>> # <<>>
        /\ Head(<<MapFrame(t)>> \o <<>>) = MapFrame(t)
        /\ Among(<<MapFrame(t)>> \o <<>>) = {MapFrame(t)} \cup Among(<<>>)
    BY <1>1, <2>2, ChainPush
  <2>4. Top' = MapFrame(t)
    BY <2>1, <2>3 DEF Top
  <2> QED
    BY <1>1, <1>3, <2>1, <2>3, <2>4 DEF CallsOK
<1> QED
  BY <1>2, <1>3

\* map is called by resolve on a class for the type it asks for.
LEMMA AskCalls ==
  ASSUME SInv, NEW g, Running("class", g), content' = content,
         Top.at \in 1 .. Len(AsksOf(content, Top.cls)),
         NEW t, t = AsksOf(content, Top.cls)[Top.at].type, Map(stack, t)
  PROVE  /\ CallsOK' /\ t \in Types \ {Native}
         /\ \/ stack' = stack /\ t \in DOMAIN cache /\ answer' = cache[t] /\ Top' = Top
            \/ /\ t \notin DOMAIN cache /\ stack' = <<MapFrame(t)>> \o stack /\ answer' = "none"
               /\ stack' # <<>> /\ Among(stack') = {MapFrame(t)} \cup Among(stack)
               /\ Top' = MapFrame(t)
<1>1. /\ stack # <<>> /\ Top = Head(stack) /\ Top.kind = "class" /\ Top.cls \in Names
      /\ content[Top.cls] \in Contents /\ IsChain(stack, content)
      /\ \A d \in Names : content[d] \in Contents
  BY TopClass
<1>2. t \in Types \ {Native}
  <2>1. AsksOf(content, Top.cls) \in Seq(Questions(content, Top.cls))
    BY <1>1, AskFacts
  <2>2. AsksOf(content, Top.cls)[Top.at] \in Questions(content, Top.cls)
    BY <2>1
  <2> QED
    BY <2>2 DEF Questions
<1>3. CASE t \in DOMAIN cache
  <2>1. stack' = stack /\ answer' = cache[t]
    BY <1>3 DEF Map, Return
  <2>2. Top' = Top
    BY <2>1 DEF Top
  <2> QED
    BY <1>1, <1>2, <1>3, <2>1, <2>2 DEF CallsOK
<1>4. CASE t \notin DOMAIN cache
  <2>1. stack' = <<MapFrame(t)>> \o stack /\ answer' = "none"
    BY <1>4 DEF Map
  <2>2. MapFrame(t) \in Calls /\ MapFrame(t).kind = "map" /\ MapFrame(t).type = t
    BY <1>2, NewCalls
  <2>3. CalledBy(MapFrame(t), Head(stack), content)
    BY <1>1, <2>2 DEF CalledBy
  <2>4. /\ IsChain(<<MapFrame(t)>> \o stack, content) /\ <<MapFrame(t)>> \o stack # <<>>
        /\ Head(<<MapFrame(t)>> \o stack) = MapFrame(t)
        /\ Among(<<MapFrame(t)>> \o stack) = {MapFrame(t)} \cup Among(stack)
    <3> DEFINE f == MapFrame(t)
    <3>1. f \in Calls /\ IF stack = <<>> THEN f.kind = "map" ELSE CalledBy(f, Head(stack), content)
      BY <1>1, <2>2, <2>3
    <3> HIDE DEF f
    <3>2. /\ IsChain(<<f>> \o stack, content) /\ <<f>> \o stack # <<>>
          /\ Head(<<f>> \o stack) = f
          /\ Among(<<f>> \o stack) = {f} \cup Among(stack)
      BY <1>1, <3>1, ChainPush
    <3> QED
      BY <3>2 DEF f
  <2>5. Top' = MapFrame(t)
    BY <2>1, <2>4 DEF Top
  <2> QED
    BY <1>2, <1>4, <2>1, <2>4, <2>5 DEF CallsOK
<1> QED
  BY <1>3, <1>4

\* The innermost call goes on as f.
LEMMA CallGoesOn ==
  ASSUME SInv, stack # <<>>, NEW f \in Calls, f.kind = Top.kind,
         f.kind = "map" => f.type = Top.type, f.kind = "class" => f.cls = Top.cls,
         content' = content
  PROVE  LET s == <<f>> \o Tail(stack)
         IN  /\ IsChain(s, content) /\ s # <<>> /\ Head(s) = f /\ Tail(s) = Tail(stack)
             /\ Among(s) = {f} \cup Among(Tail(stack))
<1>1. IsChain(stack, content) /\ Top = Head(stack)
  BY DEF SInv, CallsOK, Top
<1>2. /\ IsChain(Tail(stack), content)
      /\ IF Tail(stack) = <<>> THEN Top.kind = "map"
         ELSE CalledBy(Top, Head(Tail(stack)), content)
  BY <1>1, ChainPop
<1>3. IF Tail(stack) = <<>> THEN f.kind = "map" ELSE CalledBy(f, Head(Tail(stack)), content)
  BY <1>2 DEF CalledBy
<1> QED
  BY <1>2, <1>3, ChainPush

\* It goes on and waits for nothing.
LEMMA GoesOn ==
  ASSUME SInv, stack # <<>>, NEW f \in Calls, f.kind = Top.kind,
         f.kind = "map" => f.type = Top.type, f.kind = "class" => f.cls = Top.cls,
         content' = content, stack' = <<f>> \o Tail(stack), answer' = "none"
  PROVE  /\ CallsOK' /\ stack' # <<>> /\ Top' = f /\ Tail(stack') = Tail(stack)
         /\ Among(stack') = {f} \cup Among(Tail(stack))
<1>1. LET s == <<f>> \o Tail(stack)
      IN  /\ IsChain(s, content) /\ s # <<>> /\ Head(s) = f /\ Tail(s) = Tail(stack)
          /\ Among(s) = {f} \cup Among(Tail(stack))
  BY CallGoesOn
<1>2. Top' = f
  BY <1>1 DEF Top
<1> QED
  BY <1>1, <1>2 DEF CallsOK

\* map marks m and calls resolve on the class of its type.
LEMMA ClassIsCalled ==
  ASSUME SInv, NEW g, Running("map", g), answer = "none", content' = content, answer' = answer,
         NEW c \in Names, c = Top.type.name, NEW m \in Types, m.name = c,
         stack' = <<ClassFrame(c), [Top EXCEPT !.mark = m]>> \o Tail(stack)
  PROVE  /\ CallsOK' /\ stack' # <<>> /\ Top' = ClassFrame(c)
         /\ [Top EXCEPT !.mark = m] \in MapCalls
         /\ Among(stack') = {ClassFrame(c), [Top EXCEPT !.mark = m]} \cup Among(Tail(stack))
         /\ Tail(stack') = <<[Top EXCEPT !.mark = m]>> \o Tail(stack)
<1> DEFINE f == [Top EXCEPT !.mark = m]
           s == <<f>> \o Tail(stack)
<1>1. /\ stack # <<>> /\ Top \in MapCalls /\ IsChain(stack, content) /\ Top.kind = "map"
  BY TopMap
<1>2. f \in MapCalls /\ f.mark = m /\ f.type = Top.type /\ f.kind = "map"
  BY <1>1 DEF MapCalls
<1>3. f \in Calls
  BY <1>2 DEF Calls
<1>4. /\ IsChain(s, content) /\ s # <<>> /\ Head(s) = f
      /\ Among(s) = {f} \cup Among(Tail(stack))
  <2> HIDE DEF f
  <2> QED
    BY <1>1, <1>2, <1>3, CallGoesOn
<1>5. /\ ClassFrame(c) \in Calls /\ ClassFrame(c).kind = "class" /\ ClassFrame(c).cls = c
  BY NewCalls
<1>6. stack' = <<ClassFrame(c)>> \o s
  BY <1>1, ChainOfTwo
<1> HIDE DEF s
<1>7. CalledBy(ClassFrame(c), Head(s), content)
  BY <1>2, <1>4, <1>5 DEF CalledBy
<1>8. /\ IsChain(<<ClassFrame(c)>> \o s, content) /\ <<ClassFrame(c)>> \o s # <<>>
      /\ Head(<<ClassFrame(c)>> \o s) = ClassFrame(c) /\ Tail(<<ClassFrame(c)>> \o s) = s
      /\ Among(<<ClassFrame(c)>> \o s) = {ClassFrame(c)} \cup Among(s)
  BY <1>4, <1>5, <1>7, ChainPush
<1>9. Top' = ClassFrame(c)
  BY <1>6, <1>8 DEF Top
<1>10. CallsOK'
  BY <1>6, <1>8 DEF CallsOK
<1>11. Among(stack') = {ClassFrame(c), f} \cup Among(Tail(stack))
  BY <1>4, <1>6, <1>8
<1> QED
  BY <1>2, <1>6, <1>8, <1>9, <1>10, <1>11 DEF s

-----------------------------------------------------------------------------
(* Every step keeps the types and the chain of calls. *)

\* What Put adds.
LEMMA PutDomain == \A m, x, v : DOMAIN Put(m, x, v) = DOMAIN m \cup {x}
BY DEF Put

\* map returns, and caches it if it is a mapping.
LEMMA MappedOK ==
  ASSUME SInv, NEW g, Running("map", g), NEW v, v \in Mappings, Mapped(v), content' = content
  PROVE  CallsOK' /\ DOMAIN cache' \subseteq Types
<1>1. Return(Tail(stack), v) /\ cache' = Put(cache, Top.type, v)
  BY DEF Mapped
<1>2. CallsOK'
  BY <1>1, MapReturns DEF MapAnswers
<1>3. Top.type \in Types
  BY TopMap
<1>4. DOMAIN cache \subseteq Types
  BY DEF SInv
<1>5. DOMAIN cache' = DOMAIN cache \cup {Top.type}
  BY <1>1 DEF Put
<1> QED
  BY <1>2, <1>3, <1>4, <1>5

\* The type is looked for in everything that was parsed.
LEMMA StageIsInclude ==
  ASSUME SInv, NEW g, Running("map", g), content' = content,
         stack' = <<[Top EXCEPT !.stage = "include"]>> \o Tail(stack), answer' = "none"
  PROVE  /\ CallsOK' /\ stack' # <<>> /\ Tail(stack') = Tail(stack)
         /\ Top' = [Top EXCEPT !.stage = "include"] /\ Top' \in MapCalls
         /\ Top'.type = Top.type /\ Top'.kind = "map" /\ Top'.stage = "include"
         /\ Among(stack') = {Top'} \cup Among(Tail(stack))
<1> DEFINE f == [Top EXCEPT !.stage = "include"]
<1>1. stack # <<>> /\ Top \in MapCalls /\ Top \in Calls /\ Top.kind = "map"
  BY TopMap
<1>2. f \in MapCalls /\ f.type = Top.type /\ f.kind = "map" /\ f.stage = "include"
      /\ f.mark = Top.mark
  BY <1>1 DEF MapCalls
<1>3. f \in Calls
  BY <1>1, <1>2 DEF Calls
<1> HIDE DEF f
<1>4. stack' = <<f>> \o Tail(stack)
  BY DEF f
<1>5. /\ CallsOK' /\ stack' # <<>> /\ Top' = f /\ Tail(stack') = Tail(stack)
      /\ Among(stack') = {f} \cup Among(Tail(stack))
  BY <1>1, <1>2, <1>3, <1>4, GoesOn
<1> QED
  BY <1>2, <1>5 DEF f

\* typeMapper for what is missing returns, or goes on to look for it.
LEMMA OnMissingOK ==
  ASSUME IInv, SInv, NEW g, Running("map", g), OnMissing, content' = content
  PROVE  CallsOK' /\ DOMAIN cache' \subseteq Types
<1>1. DOMAIN cache \subseteq Types
  BY DEF SInv
<1>2. CASE \E v \in Mappings : Mapped(v)
  BY <1>2, MappedOK
<1>3. CASE policy = "THROW_MISSING"
  <2>1. Return(Tail(stack), "Throw") /\ cache' = cache
    BY <1>3 DEF OnMissing
  <2> QED
    BY <1>1, <2>1, MapReturns DEF MapAnswers
<1>4. CASE policy = "INCLUDE_MISSING"
  <2>1. /\ stack' = <<[Top EXCEPT !.stage = "include"]>> \o Tail(stack)
        /\ answer' = "none" /\ cache' = cache
    BY <1>4 DEF OnMissing
  <2> QED
    BY <1>1, <2>1, StageIsInclude
<1> QED
  BY <1>2, <1>3, <1>4 DEF OnMissing, IInv, AllPolicies, Mappings

LEMMA ParseOK ==
  ASSUME SInv, Parse
  PROVE  SInv'
<1>1. PICK c \in Names \ DOMAIN content : \E k \in Contents : content' = Put(content, c, k)
  <2>1. \A n \in 0 .. MaxEdges : ContentsOf[n] \subseteq Contents
    BY DEF ContentsOf
  <2>2. PICK n \in 0 .. MaxEdges :
          \E c \in Names \ DOMAIN content : \E k \in ContentsOf[n] : content' = Put(content, c, k)
    BY DEF Parse
  <2> QED
    BY <2>1, <2>2
<1>2. PICK k \in Contents : content' = Put(content, c, k)
  BY <1>1
<1>3. /\ phase = "parsing" /\ stack = <<>> /\ answer = "none"
      /\ UNCHANGED <<phase, todo, classes, resolved, inProgress, cache, found, stack, answer, prepared>>
  BY DEF Parse, SInv, Fresh
<1>4. DOMAIN content' = DOMAIN content \cup {c}
  BY <1>2, PutDomain
<1>5. IsFiniteSet(DOMAIN content') /\ DOMAIN content' \subseteq Names
  BY <1>4, FS_AddElement DEF SInv
<1>6. \A d \in DOMAIN content' : content'[d] \in Contents
  BY <1>2, <1>4 DEF SInv, Put
<1>7. Fresh'
  BY <1>3 DEF SInv, Fresh
<1>8. CallsOK'
  <2>1. IsChain(<<>>, content')
    BY ChainEmpty
  <2> QED
    BY <1>3, <2>1 DEF CallsOK
<1> QED
  BY <1>3, <1>5, <1>6, <1>7, <1>8 DEF SInv

LEMMA ResolveAllOK ==
  ASSUME SInv, ResolveAll
  PROVE  SInv'
<1>1. /\ phase = "parsing" /\ stack = <<>> /\ answer = "none" /\ phase' = "resolving"
      /\ DOMAIN content = Names
      /\ UNCHANGED <<content, resolved, inProgress, cache, found, stack, answer, prepared>>
  BY DEF ResolveAll, SInv, Fresh
<1>2. todo' \subseteq Names /\ classes' \subseteq Names
  BY DEF ResolveAll
<1>3. CallsOK'
  <2>1. IsChain(<<>>, content')
    BY ChainEmpty
  <2> QED
    BY <1>1, <2>1 DEF CallsOK
<1> QED
  BY <1>1, <1>2, <1>3 DEF SInv

LEMMA VisitOK ==
  ASSUME IInv, SInv, NEW c \in Names, Visit(c)
  PROVE  SInv'
<1>1. /\ phase = "resolving" /\ stack = <<>> /\ Map(<<>>, Plain(c)) /\ todo' = todo \ {c}
      /\ UNCHANGED <<phase, content, classes, resolved, inProgress, cache, found, prepared>>
  BY DEF Visit
<1>2. Plain(c) \in Types \ {Native}
  BY TypeKinds
<1>3. \A x \in DOMAIN cache : cache[x] \in Mappings
  BY DEF IInv
<1>4. CallsOK'
  BY <1>1, <1>2, <1>3, VisitCalls
<1> QED
  BY <1>1, <1>4 DEF SInv

LEMMA VisitedOK ==
  ASSUME SInv, Visited
  PROVE  SInv'
<1>1. /\ phase = "resolving" /\ stack = <<>> /\ answer' = "none" /\ phase' \in {"resolving", "failed"}
      /\ UNCHANGED <<content, todo, classes, resolved, inProgress, cache, found, stack, prepared>>
  BY DEF Visited
<1>2. CallsOK'
  BY <1>1 DEF CallsOK, SInv
<1> QED
  BY <1>1, <1>2 DEF SInv

LEMMA AllVisitedOK ==
  ASSUME SInv, AllVisited
  PROVE  SInv'
<1>1. /\ phase = "resolving" /\ phase' = "done" /\ todo = {} /\ stack = <<>> /\ answer = "none"
      /\ UNCHANGED <<content, todo, classes, resolved, inProgress, cache, found, stack, answer, prepared>>
  BY DEF AllVisited
<1>2. CallsOK'
  BY <1>1 DEF CallsOK, SInv
<1> QED
  BY <1>1, <1>2 DEF SInv

\* A class that canResolve goes to resolve was selected, or included.
LEMMA OpenIsClass ==
  ASSUME NEW c, Knows(c) = "open"
  PROVE  c \in classes /\ HasContent(content[c]) /\ c \notin DOMAIN resolved /\ Plain(c) \notin inProgress
BY DEF Knows

LEMMA CanResolveOK ==
  ASSUME IInv, SInv, CanResolve
  PROVE  SInv'
<1> DEFINE c == Top.type.name
<1>1. /\ Running("map", "can") /\ answer = "none"
      /\ UNCHANGED <<phase, content, todo, classes, resolved, found, prepared>>
  BY DEF CanResolve
<1>2. phase = "resolving" /\ DOMAIN content = Names
  BY <1>1, TopMap
<1>3. CASE Knows(c) = "yes"
  <2>1. Mapped("Unchanged") /\ "Unchanged" \in Mappings /\ inProgress' = inProgress
    BY <1>3 DEF CanResolve, Mappings
  <2>2. CallsOK' /\ DOMAIN cache' \subseteq Types
    BY <1>1, <2>1, MappedOK
  <2> QED
    BY <1>1, <1>2, <2>1, <2>2 DEF SInv
<1>4. CASE Knows(c) = "no"
  <2>1. OnMissing /\ inProgress' = inProgress
    BY <1>4 DEF CanResolve
  <2>2. CallsOK' /\ DOMAIN cache' \subseteq Types
    BY <1>1, <2>1, OnMissingOK
  <2> QED
    BY <1>1, <1>2, <2>1, <2>2 DEF SInv
<1>5. CASE Knows(c) = "open"
  <2>1. /\ inProgress' = inProgress \cup {Plain(c)}
        /\ stack' = <<ClassFrame(c), [Top EXCEPT !.mark = Plain(c)]>> \o Tail(stack)
        /\ UNCHANGED <<answer, cache>>
    BY <1>1, <1>5 DEF CanResolve
  <2>2. c \in Names
    BY <1>5, OpenIsClass DEF SInv
  <2>3. Plain(c) \in Types /\ Plain(c).name = c
    BY <2>2, TypeKinds
  <2>4. CallsOK'
    BY <1>1, <2>1, <2>2, <2>3, ClassIsCalled
  <2> QED
    BY <1>1, <1>2, <2>1, <2>3, <2>4 DEF SInv
<1>6. Knows(c) \in {"yes", "no", "open"}
  BY DEF Knows
<1> QED
  BY <1>3, <1>4, <1>5, <1>6

LEMMA CanResolvedOK ==
  ASSUME IInv, SInv, CanResolved
  PROVE  SInv'
<1>1. /\ Running("map", "can") /\ answer # "none" /\ inProgress' \subseteq inProgress
      /\ resolved' = IF answer = "class" THEN Put(resolved, Top.type.name, made) ELSE resolved
      /\ UNCHANGED <<phase, content, todo, classes, found, prepared>>
  BY DEF CanResolved, Unmarked
<1>2. /\ phase = "resolving" /\ DOMAIN content = Names /\ Top.type.name \in Names
      /\ answer \in ClassAnswers
  BY <1>1, TopMap, TopIs
<1>3. DOMAIN resolved' \subseteq Names
  <2>1. DOMAIN resolved' \subseteq DOMAIN resolved \cup {Top.type.name}
    BY <1>1 DEF Put
  <2> QED
    BY <1>2, <2>1 DEF SInv
<1>4. CallsOK' /\ DOMAIN cache' \subseteq Types
  <2>1. CASE answer = "Throw"
    <3>1. Return(Tail(stack), "Throw") /\ cache' = cache
      BY <2>1 DEF CanResolved
    <3> QED
      BY <1>1, <3>1, MapReturns DEF MapAnswers, SInv
  <2>2. CASE answer = "class" /\ NotEmpty(made)
    <3>1. Mapped("Unchanged") /\ "Unchanged" \in Mappings
      BY <2>2 DEF CanResolved, Mappings
    <3> QED
      BY <1>1, <3>1, MappedOK
  <2>3. CASE answer = "null" \/ (answer = "class" /\ ~NotEmpty(made))
    <3>1. OnMissing
      BY <2>3 DEF CanResolved
    <3> QED
      BY <1>1, <3>1, OnMissingOK
  <2> QED
    BY <1>2, <2>1, <2>2, <2>3 DEF ClassAnswers
<1> QED
  BY <1>1, <1>2, <1>3, <1>4 DEF SInv

LEMMA IncludeOK ==
  ASSUME NEW c \in Names, NEW r, Include(c, r), SInv
  PROVE  /\ DOMAIN resolved' \subseteq Names /\ classes' \subseteq Names
         /\ \E v \in Mappings : Mapped(v)
<1>1. CASE NotEmpty(r)
  <2>1. resolved' = Put(resolved, c, r) /\ classes' = classes \cup {c} /\ Mapped("Unchanged")
    BY <1>1 DEF Include
  <2>2. DOMAIN resolved' = DOMAIN resolved \cup {c}
    BY <2>1 DEF Put
  <2> QED
    BY <2>1, <2>2 DEF SInv, Mappings
<1>2. CASE ~NotEmpty(r)
  BY <1>2 DEF Include, SInv, Mappings
<1> QED
  BY <1>1, <1>2

LEMMA IncludeMissingOK ==
  ASSUME IInv, SInv, IncludeMissing
  PROVE  SInv'
<1> DEFINE c == Top.type.name
<1>1. /\ Running("map", "include") /\ answer = "none"
      /\ UNCHANGED <<phase, content, todo, found, prepared>>
  BY DEF IncludeMissing
<1>2. phase = "resolving" /\ DOMAIN content = Names /\ Top.type \in Types
  BY <1>1, TopMap
<1>3. CASE c \in DOMAIN resolved \/ (c \notin DOMAIN found /\ ~Declared(c))
  <2>1. Mapped("Remove") /\ "Remove" \in Mappings /\ UNCHANGED <<resolved, classes, inProgress>>
    BY <1>3 DEF IncludeMissing, Mappings
  <2>2. CallsOK' /\ DOMAIN cache' \subseteq Types
    BY <1>1, <2>1, MappedOK
  <2> QED
    BY <1>1, <1>2, <2>1, <2>2 DEF SInv
<1>4. CASE c \notin DOMAIN resolved /\ c \in DOMAIN found
  <2>1. Include(c, found[c]) /\ inProgress' \subseteq inProgress /\ c \in Names
    BY <1>4 DEF IncludeMissing, SInv
  <2>2. /\ DOMAIN resolved' \subseteq Names /\ classes' \subseteq Names
        /\ \E v \in Mappings : Mapped(v)
    BY <2>1, IncludeOK
  <2>3. CallsOK' /\ DOMAIN cache' \subseteq Types
    BY <1>1, <2>2, MappedOK
  <2> QED
    BY <1>1, <1>2, <2>1, <2>2, <2>3 DEF SInv
<1>5. CASE c \notin DOMAIN resolved /\ c \notin DOMAIN found /\ Declared(c)
  <2>1. /\ inProgress' = inProgress \cup {Top.type}
        /\ stack' = <<ClassFrame(c), [Top EXCEPT !.mark = Top.type]>> \o Tail(stack)
        /\ UNCHANGED <<answer, cache, resolved, classes>>
    BY <1>5 DEF IncludeMissing
  <2>2. c \in Names
    BY <1>5 DEF Declared
  <2>3. CallsOK'
    BY <1>1, <1>2, <2>1, <2>2, ClassIsCalled
  <2> QED
    BY <1>1, <1>2, <2>1, <2>3 DEF SInv
<1> QED
  BY <1>3, <1>4, <1>5

LEMMA IncludedOK ==
  ASSUME IInv, SInv, Included
  PROVE  SInv'
<1> DEFINE c == Top.type.name
<1>1. /\ Running("map", "include") /\ answer # "none" /\ inProgress' \subseteq inProgress
      /\ UNCHANGED <<phase, content, todo, prepared>>
  BY DEF Included, Unmarked
<1>2. phase = "resolving" /\ DOMAIN content = Names /\ c \in Names
  BY <1>1, TopMap
<1>3. /\ DOMAIN resolved' \subseteq Names /\ classes' \subseteq Names /\ DOMAIN found' \subseteq Names
      /\ \E v \in Mappings : Mapped(v)
  <2>1. CASE answer = "class"
    <3>1. found' = Put(found, c, made) /\ Include(c, made)
      BY <2>1 DEF Included
    <3>2. DOMAIN found' = DOMAIN found \cup {c}
      BY <3>1 DEF Put
    <3> QED
      BY <1>2, <3>1, <3>2, IncludeOK DEF SInv
  <2>2. CASE answer # "class"
    BY <2>2 DEF Included, SInv, Mappings
  <2> QED
    BY <2>1, <2>2
<1>4. CallsOK' /\ DOMAIN cache' \subseteq Types
  BY <1>1, <1>3, MappedOK
<1> QED
  BY <1>1, <1>2, <1>3, <1>4 DEF SInv

LEMMA AskOK ==
  ASSUME IInv, SInv, Ask
  PROVE  SInv'
<1> DEFINE a == AsksOf(content, Top.cls)
<1>1. /\ Running("class", "resolve") /\ answer = "none"
      /\ UNCHANGED <<phase, policy, content, todo, classes, resolved, inProgress, cache, found, prepared>>
  BY DEF Ask
<1>2. /\ phase = "resolving" /\ DOMAIN content = Names /\ Top.at \in Nat \ {0} /\ Top.cls \in Names
      /\ \A d \in Names : content[d] \in Contents
  BY <1>1, TopClass
<1>3. CASE Top.at <= Len(a)
  <2>1. Map(stack, a[Top.at].type)
    BY <1>3, AsksAre DEF Ask
  <2>2. Top.at \in 1 .. Len(a)
    BY <1>2, <1>3, AskFacts
  <2>3. CallsOK'
    BY <1>1, <2>1, <2>2, AskCalls
  <2> QED
    BY <1>1, <1>2, <2>3 DEF SInv
<1>4. CASE ~(Top.at <= Len(a))
  <2>1. Return(Tail(stack), "class")
    BY <1>4, AsksAre DEF Ask, Finish
  <2>2. CallsOK'
    BY <1>1, <2>1, ClassReturns
  <2> QED
    BY <1>1, <1>2, <2>2 DEF SInv
<1> QED
  BY <1>3, <1>4

\* What resolve on a class does with an answer: it returns, or goes on as f.
GoesOnAs(f) ==
  /\ f \in ClassCalls /\ f \in Calls /\ f.kind = "class" /\ f.cls = Top.cls /\ f.at > Top.at
  /\ stack' = <<f>> \o Tail(stack) /\ answer' = "none"

\* What is asked for is a type of the headers, for a reason that the class gives.
LEMMA AskedIs ==
  ASSUME IInv, SInv, Asked, NEW q, q = AsksOf(content, Top.cls)[Top.at]
  PROVE  /\ q \in Questions(content, Top.cls)
         /\ answer \in MapAnswers
         /\ answer = "Throw" => Return(Tail(stack), "Throw")
         /\ answer = "Remove" /\ q.cls = Top.cls =>
              IF q.role \in {"base", "self"} THEN Return(Tail(stack), "null")
              ELSE Finish(Top, q.role = "optional")
         /\ answer = "Remove" /\ q.cls # Top.cls =>
              \E f : /\ GoesOnAs(f) /\ f.over = Top.over /\ f.refs = Top.refs
                     /\ f.lost => q.role \in {"base", "self"}
         /\ answer = "Opaque" =>
              \E f : GoesOnAs(f) /\ f.over = Top.over /\ f.refs = Top.refs /\ f.lost = Top.lost
         /\ answer = "Unchanged" =>
              \E f : /\ GoesOnAs(f) /\ f.at = Top.at + 1 /\ f.lost = Top.lost
                     /\ f.over \subseteq Top.over \cup {q.type.name}
                     /\ f.refs \subseteq Top.refs \cup {q.type.name}
<1>1. Running("class", "resolve") /\ answer # "none"
  BY DEF Asked
<1>2. /\ Top \in ClassCalls /\ Top \in Calls /\ Top.kind = "class" /\ Top.cls \in Names
      /\ Top.at \in Nat \ {0} /\ \A d \in Names : content[d] \in Contents
      /\ Top.at \in 1 .. Len(AsksOf(content, Top.cls))
  BY <1>1, TopClass
<1>3. q \in Questions(content, Top.cls)
  <2>1. AsksOf(content, Top.cls) \in Seq(Questions(content, Top.cls))
    BY <1>2, AskFacts
  <2> QED
    BY <1>2, <2>1
<1>4. answer \in MapAnswers
  BY <1>1, TopIs
<1>5. q = Asks(Top.cls)[Top.at]
  BY AsksAre
<1>6. ASSUME answer = "Throw" PROVE Return(Tail(stack), "Throw")
  BY <1>6 DEF Asked
<1>7. ASSUME answer = "Remove", q.cls = Top.cls
      PROVE  IF q.role \in {"base", "self"} THEN Return(Tail(stack), "null")
             ELSE Finish(Top, q.role = "optional")
  BY <1>5, <1>7 DEF Asked
<1>12. ASSUME answer = "Remove", q.cls # Top.cls
       PROVE  \E f : /\ GoesOnAs(f) /\ f.over = Top.over /\ f.refs = Top.refs
                     /\ f.lost => q.role \in {"base", "self"}
  <2>1. PICK whole : whole \in BOOLEAN /\ whole = (q.role \in {"base", "self"})
    <3>1. CASE q.role \in {"base", "self"}
      <4>1. TRUE \in BOOLEAN /\ TRUE = (q.role \in {"base", "self"})
        BY <3>1
      <4> QED
        BY <4>1
    <3>2. CASE q.role \notin {"base", "self"}
      <4>1. FALSE \in BOOLEAN /\ FALSE = (q.role \in {"base", "self"})
        BY <3>2
      <4> QED
        BY <4>1
    <3> QED
      BY <3>1, <3>2
  <2>2. PICK n : n = AfterOf(content, Top.cls)
    OBVIOUS
  <2>3. GoOn([Top EXCEPT !.lost = whole], n)
    BY <1>5, <1>12, <2>1, <2>2, AsksAre DEF Asked
  <2> DEFINE f == [Top EXCEPT !.lost = whole, !.at = n]
  <2>4. n \in Nat \ {0} /\ n > Top.at
    <3>1. AsksOf(content, Top.cls)[Top.at].cls # Top.cls
      BY <1>12
    <3> QED
      BY <1>2, <2>2, <3>1, AskFacts
  <2>5. /\ f \in ClassCalls /\ f.kind = "class" /\ f.cls = Top.cls /\ f.at = n /\ f.lost = whole
        /\ f.over = Top.over /\ f.refs = Top.refs /\ f.type = Top.type /\ f.mark = Top.mark
    BY <1>2, <2>1, <2>4 DEF ClassCalls
  <2>6. f \in Calls
    BY <1>2, <2>5 DEF Calls
  <2>7. f = [[Top EXCEPT !.lost = whole] EXCEPT !.at = n]
    BY <1>2 DEF ClassCalls
  <2>8. stack' = <<f>> \o Tail(stack) /\ answer' = "none"
    BY <2>3, <2>7 DEF GoOn
  <2> HIDE DEF f
  <2> QED
    BY <2>1, <2>4, <2>5, <2>6, <2>8 DEF GoesOnAs
<1>8. Top.over \in SUBSET ClassesOrNone /\ Top.refs \in SUBSET ClassesOrNone
  BY <1>2 DEF ClassCalls
<1>9. Top = [[Top EXCEPT !.over = Top.over, !.refs = Top.refs] EXCEPT !.at = Top.at]
  BY <1>2 DEF ClassCalls
<1>10. ASSUME answer = "Opaque"
       PROVE  \E f : GoesOnAs(f) /\ f.over = Top.over /\ f.refs = Top.refs /\ f.lost = Top.lost
  <2>1. PICK n : GoOn(Top, n) /\ n \in {Top.at + 1, Top.at + 1 + 1}
    BY <1>10 DEF Asked
  <2> DEFINE f == [Top EXCEPT !.at = n]
  <2>2. n \in Nat \ {0} /\ n > Top.at
    BY <1>2, <2>1
  <2>3. /\ f \in ClassCalls /\ f.kind = "class" /\ f.cls = Top.cls /\ f.at = n
        /\ f.over = Top.over /\ f.refs = Top.refs /\ f.type = Top.type /\ f.mark = Top.mark
        /\ f.lost = Top.lost
    BY <1>2, <2>2 DEF ClassCalls
  <2>4. f \in Calls
    BY <1>2, <2>3 DEF Calls
  <2>5. stack' = <<f>> \o Tail(stack) /\ answer' = "none"
    BY <2>1 DEF GoOn
  <2> HIDE DEF f
  <2> QED
    BY <2>2, <2>3, <2>4, <2>5 DEF GoesOnAs
<1>11. ASSUME answer = "Unchanged"
       PROVE  \E f : /\ GoesOnAs(f) /\ f.at = Top.at + 1 /\ f.lost = Top.lost
                     /\ f.over \subseteq Top.over \cup {q.type.name}
                     /\ f.refs \subseteq Top.refs \cup {q.type.name}
  <2> DEFINE x == q.type.name
             n == Top.at + 1
             after == IF q.cls # Top.cls THEN Top
                      ELSE IF q.role = "base" THEN [Top EXCEPT !.over = {x}]
                      ELSE IF q.type.pointer THEN [Top EXCEPT !.refs = @ \cup {x}]
                      ELSE Top
             f == [after EXCEPT !.at = n]
  <2>1. GoOn(after, n)
    BY <1>5, <1>11 DEF Asked
  <2>2. x \in ClassesOrNone
    <3>1. q.type \in Types
      BY <1>3 DEF Questions
    <3> QED
      BY <3>1, TypeKinds DEF ClassesOrNone, Unresolvable, Native, Plain, Pointer
  <2>3. n \in Nat \ {0} /\ n > Top.at
    BY <1>2
  <2>4. /\ after \in ClassCalls /\ after.kind = "class" /\ after.cls = Top.cls
        /\ after.type = Top.type /\ after.mark = Top.mark /\ after.lost = Top.lost
        /\ after.over \subseteq Top.over \cup {x} /\ after.refs \subseteq Top.refs \cup {x}
    <3> HIDE DEF x
    <3>1. CASE q.cls = Top.cls /\ q.role = "base"
      BY <1>2, <2>2, <3>1 DEF ClassCalls
    <3>2. CASE q.cls = Top.cls /\ q.role # "base" /\ q.type.pointer
      BY <1>2, <2>2, <3>2 DEF ClassCalls
    <3>3. CASE q.cls # Top.cls \/ (q.role # "base" /\ ~q.type.pointer)
      BY <1>2, <2>2, <3>3
    <3> QED
      BY <3>1, <3>2, <3>3
  <2> HIDE DEF after, x, n
  <2>5. /\ f \in ClassCalls /\ f.kind = "class" /\ f.cls = Top.cls /\ f.at = n
        /\ f.type = Top.type /\ f.mark = Top.mark /\ f.lost = Top.lost
        /\ f.over \subseteq Top.over \cup {x} /\ f.refs \subseteq Top.refs \cup {x}
    BY <2>3, <2>4 DEF ClassCalls
  <2>6. f \in Calls
    BY <1>2, <2>5 DEF Calls
  <2>7. stack' = <<f>> \o Tail(stack) /\ answer' = "none"
    BY <2>1 DEF GoOn
  <2> HIDE DEF f
  <2> QED
    BY <2>3, <2>5, <2>6, <2>7 DEF GoesOnAs, x, n
<1> QED
  BY <1>3, <1>4, <1>6, <1>7, <1>10, <1>11, <1>12

LEMMA AskedOK ==
  ASSUME IInv, SInv, Asked
  PROVE  SInv'
<1>1. /\ Running("class", "resolve") /\ answer # "none"
      /\ UNCHANGED <<phase, policy, content, todo, classes, resolved, inProgress, cache, found>>
  BY DEF Asked
<1>2. /\ phase = "resolving" /\ DOMAIN content = Names /\ stack # <<>> /\ Top.kind = "class"
      /\ Top.cls \in Names
  BY <1>1, TopClass
<1>3. prepared' \in [Names -> Nat]
  <2>1. prepared \in [Names -> Nat]
    BY DEF SInv
  <2>2. PICK q : q = AsksOf(content, Top.cls)[Top.at]
    OBVIOUS
  <2>3. prepared' = prepared \/ prepared' = [prepared EXCEPT ![q.cls] = @ + 1]
    BY <2>2, AsksAre DEF Asked
  <2>4. q.cls \in Names
    BY <2>2, AskedIs DEF Questions
  <2> QED
    BY <2>1, <2>3, <2>4
<1>4. ASSUME NEW v, Return(Tail(stack), v) PROVE CallsOK'
  BY <1>1, <1>4, ClassReturns
<1>5. ASSUME NEW f, GoesOnAs(f) PROVE CallsOK'
  BY <1>1, <1>2, <1>5, GoesOn DEF GoesOnAs
<1>6. CallsOK'
  <2>1. PICK q : q = AsksOf(content, Top.cls)[Top.at]
    OBVIOUS
  <2>2. /\ answer \in MapAnswers
        /\ answer = "Throw" \/ (answer = "Remove" /\ q.cls = Top.cls) => \E v : Return(Tail(stack), v)
        /\ answer \in {"Opaque", "Unchanged"} \/ (answer = "Remove" /\ q.cls # Top.cls) =>
             \E f : GoesOnAs(f)
    BY <2>1, AskedIs DEF Finish
  <2> QED
    BY <1>4, <1>5, <2>2 DEF MapAnswers, Mappings
<1> QED
  BY <1>1, <1>2, <1>3, <1>6 DEF SInv

\* At first all is empty.
LEMMA InitOK == Init => SInv
<1> SUFFICES ASSUME Init PROVE SInv
  OBVIOUS
<1>1. DOMAIN content = {} /\ DOMAIN resolved = {} /\ DOMAIN cache = {} /\ DOMAIN found = {}
  BY DEF Init
<1>2. IsChain(<<>>, content)
  BY ChainEmpty
<1>3. IsFiniteSet({})
  BY FS_EmptySet
<1>4. Fresh
  BY <1>1 DEF Init, Fresh
<1>5. CallsOK
  BY <1>2 DEF Init, CallsOK
<1> QED
  BY <1>1, <1>3, <1>4, <1>5 DEF Init, SInv

\* The types and the chain of calls are inductive.
LEMMA StepOK == IInv /\ SInv /\ [Next]_vars => SInv'
<1> SUFFICES ASSUME IInv, SInv, [Next]_vars PROVE SInv'
  OBVIOUS
<1>1. CASE Ended \/ UNCHANGED vars
  BY <1>1 DEF Ended, vars, SInv, CallsOK, Fresh, Top
<1> QED
  BY <1>1, ParseOK, ResolveAllOK, VisitOK, VisitedOK, AllVisitedOK, CanResolveOK, CanResolvedOK,
     IncludeMissingOK, IncludedOK, AskOK, AskedOK DEF Next, Step

\* Types and calls are always as IInv and SInv say.
LEMMA AlwaysOK == Spec => [](IInv /\ SInv)
BY InitInv, StepInv, InitOK, StepOK, PTL DEF Spec

\* The state is made of classes, types, mappings and calls, for any classes and
\* references: what resolve on a class asks for is always a type of the headers.
THEOREM ResolverTypeCorrect == Spec => []TypeOK
<1>1. IInv /\ SInv => TypeOK
  <2> SUFFICES ASSUME IInv, SInv PROVE TypeOK
    OBVIOUS
  <2>1. \A i \in DOMAIN stack : stack[i].kind \in {"map", "class"}
    <3>1. DOMAIN stack = 1 .. Len(stack)
      BY DEF IInv, IsStack
    <3> QED
      BY <3>1 DEF IInv, IsStack, IsFrame
  <2>2. answer \in {"none", "Unchanged", "Remove", "Opaque", "Throw", "class", "null"}
    BY DEF IInv, Fits, SInv, CallsOK, MapAnswers, ClassAnswers, Mappings
  <2> QED
    BY <2>1, <2>2 DEF TypeOK, SInv, IInv, Mappings
<1> QED
  BY <1>1, AlwaysOK, PTL

-----------------------------------------------------------------------------
(* What a step does to the calls. *)

\* The type that resolve on a class, called as f, asks for.
Asking(f) == AsksOf(content, f.cls)[f.at].type

\* The innermost call, of map, returns v to who asked for its type.
Ends(v) ==
  /\ Top.kind = "map" /\ Among(stack) = {Top} \cup Among(stack')
  /\ stack' = Tail(stack) /\ answer' = v
  /\ stack' # <<>> => Top'.kind = "class" /\ Asking(Top)' = Top.type

\* It does, and caches v.
Caches(v) ==
  /\ Ends(v)
  /\ DOMAIN cache' = DOMAIN cache \cup {Top.type} /\ cache'[Top.type] = v
  /\ \A t \in DOMAIN cache : t # Top.type => cache'[t] = cache[t]

\* The innermost call, of resolve on a class, returns v to map.
ClassEnds(v) ==
  /\ Top.kind = "class" /\ Among(stack) = {Top} \cup Among(stack')
  /\ stack' = Tail(stack) /\ answer' = v
  /\ stack' # <<>> /\ Top'.kind = "map" /\ Top'.type.name = Top.cls

\* The innermost call is f, where it was Top, and f waits for nothing.
Becomes(f) ==
  /\ Among(stack) = {Top} \cup Among(Tail(stack)) /\ Among(stack') = {f} \cup Among(Tail(stack))
  /\ stack' # <<>> /\ Tail(stack') = Tail(stack) /\ Top' = f /\ answer' = "none"

\* map is called for t, in front of the calls under way.
Begins(t) ==
  /\ t \notin DOMAIN cache /\ stack' = <<MapFrame(t)>> \o stack /\ stack' # <<>>
  /\ Among(stack') = {MapFrame(t)} \cup Among(stack) /\ Top' = MapFrame(t) /\ answer' = "none"

\* map marks m and calls resolve on the class c.
Calling(c, m) ==
  LET f == [Top EXCEPT !.mark = m]
  IN  /\ stack' = <<ClassFrame(c)>> \o (<<f>> \o Tail(stack)) /\ stack' # <<>>
      /\ f \in Calls /\ f.type = Top.type /\ f.stage = Top.stage /\ f.kind = "map"
      /\ Among(stack) = {Top} \cup Among(Tail(stack))
      /\ Among(stack') = {ClassFrame(c), f} \cup Among(Tail(stack))
      /\ Top' = ClassFrame(c) /\ answer' = "none"

\* map returns.
LEMMA Ending ==
  ASSUME SInv, NEW g, Running("map", g), NEW v, Return(Tail(stack), v), content' = content
  PROVE  Ends(v)
<1>1. /\ stack # <<>> /\ Top.kind = "map" /\ Among(stack) = {Top} \cup Among(Tail(stack))
      /\ Tail(stack) # <<>> =>
           LET r == Head(Tail(stack))
           IN  r.kind = "class" /\ Top.type = AsksOf(content, r.cls)[r.at].type
  BY TopMap
<1>2. stack' = Tail(stack) /\ answer' = v
  BY DEF Return
<1>3. Top' = Head(Tail(stack))
  BY <1>2 DEF Top
<1> QED
  BY <1>1, <1>2, <1>3 DEF Ends, Asking

\* map returns what it caches.
LEMMA Caching ==
  ASSUME SInv, NEW g, Running("map", g), NEW v, Mapped(v), content' = content
  PROVE  Caches(v)
<1>1. Return(Tail(stack), v) /\ cache' = Put(cache, Top.type, v)
  BY DEF Mapped
<1>2. Ends(v)
  BY <1>1, Ending
<1>3. /\ DOMAIN cache' = DOMAIN cache \cup {Top.type} /\ cache'[Top.type] = v
      /\ \A t \in DOMAIN cache : t # Top.type => cache'[t] = cache[t]
  BY <1>1 DEF Put
<1> QED
  BY <1>2, <1>3 DEF Caches

\* resolve on a class returns.
LEMMA EndingClass ==
  ASSUME SInv, NEW g, Running("class", g), NEW v, Return(Tail(stack), v), content' = content
  PROVE  ClassEnds(v)
<1>1. /\ Top.kind = "class" /\ Tail(stack) # <<>> /\ Among(stack) = {Top} \cup Among(Tail(stack))
  BY TopClass
<1>2. Top'.kind = "map" /\ Top'.type.name = Top.cls
  BY ClassReturns
<1> QED
  BY <1>1, <1>2 DEF ClassEnds, Return

\* resolve on a class goes on.
LEMMA Going ==
  ASSUME SInv, NEW g, Running("class", g), content' = content, NEW f, GoesOnAs(f)
  PROVE  Becomes(f)
<1>1. stack # <<>> /\ Top.kind = "class" /\ Among(stack) = {Top} \cup Among(Tail(stack))
  BY TopClass
<1>2. /\ f \in Calls /\ f.kind = "class" /\ f.cls = Top.cls
      /\ stack' = <<f>> \o Tail(stack) /\ answer' = "none"
  BY DEF GoesOnAs
<1>3. /\ stack' # <<>> /\ Top' = f /\ Tail(stack') = Tail(stack)
      /\ Among(stack') = {f} \cup Among(Tail(stack))
  BY <1>1, <1>2, GoesOn
<1> QED
  BY <1>1, <1>2, <1>3 DEF Becomes

\* map calls resolve on a class.
LEMMA CallingClass ==
  ASSUME SInv, NEW g, Running("map", g), answer = "none", content' = content, answer' = answer,
         NEW c \in Names, c = Top.type.name, NEW m \in Types, m.name = c,
         stack' = <<ClassFrame(c), [Top EXCEPT !.mark = m]>> \o Tail(stack)
  PROVE  Calling(c, m)
<1> DEFINE f == [Top EXCEPT !.mark = m]
<1>1. /\ Top \in MapCalls /\ stack # <<>> /\ IsChain(stack, content)
      /\ Among(stack) = {Top} \cup Among(Tail(stack))
  BY TopMap
<1>2. f \in MapCalls /\ f.type = Top.type /\ f.stage = Top.stage /\ f.kind = "map" /\ f.mark = m
  BY <1>1 DEF MapCalls
<1>3. /\ stack' # <<>> /\ Top' = ClassFrame(c)
      /\ Among(stack') = {ClassFrame(c), f} \cup Among(Tail(stack))
  BY ClassIsCalled
<1>4. stack' = <<ClassFrame(c)>> \o (<<f>> \o Tail(stack))
  BY <1>1, ChainOfTwo
<1>5. f \in Calls
  BY <1>2 DEF Calls
<1> QED
  BY <1>1, <1>2, <1>3, <1>4, <1>5 DEF Calling

\* Visit and Ask call map for a type that is not cached, and else get what is.
LEMMA Visiting ==
  ASSUME IInv, SInv, stack = <<>>, NEW c \in Names, Map(<<>>, Plain(c)), content' = content
  PROVE  \/ stack' = <<>> /\ Plain(c) \in DOMAIN cache /\ answer' = cache[Plain(c)]
         \/ Begins(Plain(c))
<1>1. Plain(c) \in Types \ {Native} /\ \A x \in DOMAIN cache : cache[x] \in Mappings
  BY TypeKinds DEF IInv
<1>2. Among(<<>>) = {}
  BY ChainEmpty
<1>3. \/ stack' = <<>> /\ Plain(c) \in DOMAIN cache /\ answer' = cache[Plain(c)]
      \/ /\ Plain(c) \notin DOMAIN cache /\ stack' = <<MapFrame(Plain(c))>> \o <<>> /\ answer' = "none"
         /\ stack' # <<>> /\ Among(stack') = {MapFrame(Plain(c))} /\ Top' = MapFrame(Plain(c))
  BY <1>1, VisitCalls
<1> QED
  BY <1>2, <1>3 DEF Begins

\* Ask returns to map when nothing is left to ask for; or it asks, and gets the
\* answer from the cache or, for a type that is not in it, calls map.
LEMMA AskingOn ==
  ASSUME SInv, Ask
  PROVE  \/ /\ Top.at \in 1 .. Len(AsksOf(content, Top.cls))
            /\ Asking(Top) \in Types \ {Native}
            /\ made' = made
            /\ \/ /\ stack' = stack /\ Asking(Top) \in DOMAIN cache
                  /\ answer' = cache[Asking(Top)] /\ Top' = Top
               \/ Begins(Asking(Top))
         \/ /\ Top.at > Len(AsksOf(content, Top.cls)) /\ Top.at > 1
            /\ Finish(Top, content[Top.cls].refs # <<>>) /\ ClassEnds("class")
<1> DEFINE a == AsksOf(content, Top.cls)
<1>1. Running("class", "resolve") /\ content' = content
  BY DEF Ask
<1>2. Top.at \in Nat \ {0} /\ Top.cls \in Names /\ \A d \in Names : content[d] \in Contents
  BY <1>1, TopClass
<1>3. Len(a) \in Nat /\ Len(a) >= 1
  BY <1>2, AskFacts
<1>4. CASE Top.at <= Len(a)
  <2>1. Map(stack, Asking(Top)) /\ made' = made
    BY <1>4, AsksAre DEF Ask, Asking
  <2>2. Top.at \in 1 .. Len(a)
    BY <1>2, <1>3, <1>4
  <2>3. /\ Asking(Top) \in Types \ {Native}
        /\ \/ stack' = stack /\ Asking(Top) \in DOMAIN cache /\ answer' = cache[Asking(Top)] /\ Top' = Top
           \/ /\ Asking(Top) \notin DOMAIN cache /\ stack' = <<MapFrame(Asking(Top))>> \o stack
              /\ answer' = "none" /\ stack' # <<>>
              /\ Among(stack') = {MapFrame(Asking(Top))} \cup Among(stack)
              /\ Top' = MapFrame(Asking(Top))
    BY <1>1, <2>1, <2>2, AskCalls DEF Asking
  <2> QED
    BY <2>1, <2>2, <2>3 DEF Begins
<1>5. CASE ~(Top.at <= Len(a))
  <2>1. Finish(Top, content[Top.cls].refs # <<>>)
    BY <1>5, AsksAre DEF Ask
  <2>2. ClassEnds("class")
    BY <1>1, <2>1, EndingClass DEF Finish
  <2>3. Top.at > Len(a) /\ Top.at > 1
    BY <1>2, <1>3, <1>5
  <2> QED
    BY <2>1, <2>2, <2>3
<1> QED
  BY <1>4, <1>5

\* What typeMapper makes of a missing type.
LEMMA Missing ==
  ASSUME IInv, SInv, NEW g, Running("map", g), OnMissing, content' = content
  PROVE  \/ policy = "IGNORE_MISSING" /\ Caches("Remove")
         \/ policy = "OPAQUE_MISSING" /\ Caches("Opaque")
         \/ policy = "THROW_MISSING" /\ Ends("Throw") /\ cache' = cache
         \/ /\ policy = "INCLUDE_MISSING" /\ Becomes([Top EXCEPT !.stage = "include"]) /\ cache' = cache
            /\ Top'.kind = "map" /\ Top'.stage = "include" /\ Top'.type = Top.type
<1>1. CASE policy = "IGNORE_MISSING"
  BY <1>1, Caching DEF OnMissing
<1>2. CASE policy = "OPAQUE_MISSING"
  BY <1>2, Caching DEF OnMissing
<1>3. CASE policy = "THROW_MISSING"
  BY <1>3, Ending DEF OnMissing
<1>4. CASE policy = "INCLUDE_MISSING"
  <2>1. /\ stack' = <<[Top EXCEPT !.stage = "include"]>> \o Tail(stack)
        /\ answer' = "none" /\ cache' = cache
    BY <1>4 DEF OnMissing
  <2>2. /\ stack' # <<>> /\ Tail(stack') = Tail(stack)
        /\ Top' = [Top EXCEPT !.stage = "include"]
        /\ Top'.type = Top.type /\ Top'.kind = "map" /\ Top'.stage = "include"
        /\ Among(stack') = {Top'} \cup Among(Tail(stack))
    BY <2>1, StageIsInclude
  <2>3. Among(stack) = {Top} \cup Among(Tail(stack))
    BY TopMap
  <2> QED
    BY <1>4, <2>1, <2>2, <2>3 DEF Becomes
<1> QED
  BY <1>1, <1>2, <1>3, <1>4 DEF IInv, AllPolicies

\* What canResolve decides.
LEMMA Deciding ==
  ASSUME IInv, SInv, CanResolve, NEW c, c = Top.type.name
  PROVE  \/ Knows(c) = "yes" /\ Caches("Unchanged") /\ inProgress' = inProgress
         \/ Knows(c) = "no" /\ OnMissing /\ inProgress' = inProgress
         \/ /\ Knows(c) = "open" /\ c \in Names /\ Calling(c, Plain(c))
            /\ inProgress' = inProgress \cup {Plain(c)} /\ cache' = cache
<1>1. Running("map", "can") /\ answer = "none" /\ content' = content
  BY DEF CanResolve
<1>2. CASE Knows(c) = "yes"
  <2>1. Mapped("Unchanged") /\ inProgress' = inProgress
    BY <1>2 DEF CanResolve
  <2> QED
    BY <1>1, <1>2, <2>1, Caching
<1>3. CASE Knows(c) = "no"
  BY <1>3 DEF CanResolve
<1>4. CASE Knows(c) = "open"
  <2>1. /\ inProgress' = inProgress \cup {Plain(c)}
        /\ stack' = <<ClassFrame(c), [Top EXCEPT !.mark = Plain(c)]>> \o Tail(stack)
        /\ UNCHANGED <<answer, cache>>
    BY <1>4 DEF CanResolve
  <2>2. c \in Names
    BY <1>4, OpenIsClass DEF SInv
  <2>3. Plain(c) \in Types /\ Plain(c).name = c
    BY <2>2, TypeKinds
  <2>4. Calling(c, Plain(c))
    BY <1>1, <2>1, <2>2, <2>3, CallingClass
  <2> QED
    BY <1>4, <2>1, <2>2, <2>4
<1> QED
  BY <1>2, <1>3, <1>4 DEF Knows

\* What it makes of the class that was resolved, or failed to.
LEMMA Decided ==
  ASSUME IInv, SInv, CanResolved
  PROVE  /\ Running("map", "can") /\ Top.type.name \in Names /\ Top.mark.name = Top.type.name
         /\ inProgress' = inProgress \ {Top.mark}
         /\ resolved' = IF answer = "class" THEN Put(resolved, Top.type.name, made) ELSE resolved
         /\ \/ answer = "Throw" /\ Ends("Throw") /\ cache' = cache
            \/ answer = "class" /\ NotEmpty(made) /\ Caches("Unchanged")
            \/ answer = "null" /\ OnMissing
            \/ answer = "class" /\ ~NotEmpty(made) /\ OnMissing
<1>1. /\ Running("map", "can") /\ answer # "none" /\ inProgress' = inProgress \ {Top.mark}
      /\ resolved' = IF answer = "class" THEN Put(resolved, Top.type.name, made) ELSE resolved
      /\ content' = content
  BY DEF CanResolved, Unmarked
<1>2. Top.type.name \in Names /\ Top.mark.name = Top.type.name /\ answer \in ClassAnswers
  BY <1>1, TopMap, TopIs
<1>3. CASE answer = "Throw"
  <2>1. Return(Tail(stack), "Throw") /\ cache' = cache
    BY <1>3 DEF CanResolved
  <2> QED
    BY <1>1, <1>2, <1>3, <2>1, Ending
<1>4. CASE answer = "class" /\ NotEmpty(made)
  <2>1. Mapped("Unchanged")
    BY <1>4 DEF CanResolved
  <2> QED
    BY <1>1, <1>2, <1>4, <2>1, Caching
<1>5. CASE answer = "null" \/ (answer = "class" /\ ~NotEmpty(made))
  <2>1. OnMissing
    BY <1>5 DEF CanResolved
  <2> QED
    BY <1>1, <1>2, <1>5, <2>1
<1> QED
  BY <1>2, <1>3, <1>4, <1>5 DEF ClassAnswers

\* What including a class, found as r, does.
LEMMA Including ==
  ASSUME SInv, NEW g, Running("map", g), NEW c, NEW r, Include(c, r), content' = content
  PROVE  \/ NotEmpty(r) /\ resolved' = Put(resolved, c, r) /\ classes' = classes \cup {c}
            /\ Caches("Unchanged")
         \/ ~NotEmpty(r) /\ resolved' = resolved /\ classes' = classes /\ Caches("Remove")
<1>1. CASE NotEmpty(r)
  BY <1>1, Caching DEF Include
<1>2. CASE ~NotEmpty(r)
  BY <1>2, Caching DEF Include
<1> QED
  BY <1>1, <1>2

\* includeMissing finds nothing, finds a class made before, or has one made.
LEMMA Searching ==
  ASSUME IInv, SInv, IncludeMissing, NEW c, c = Top.type.name
  PROVE  /\ Running("map", "include")
         /\ \/ /\ c \in DOMAIN resolved \/ (c \notin DOMAIN found /\ ~Declared(c))
               /\ Caches("Remove") /\ UNCHANGED <<resolved, classes, inProgress>>
            \/ /\ c \notin DOMAIN resolved /\ c \in DOMAIN found /\ Include(c, found[c])
               /\ inProgress' = inProgress \ {Top.type}
            \/ /\ c \notin DOMAIN resolved /\ c \notin DOMAIN found /\ Declared(c) /\ c \in Names
               /\ Calling(c, Top.type) /\ inProgress' = inProgress \cup {Top.type}
               /\ UNCHANGED <<cache, resolved, classes>>
<1>1. Running("map", "include") /\ answer = "none" /\ content' = content
  BY DEF IncludeMissing
<1>2. CASE c \in DOMAIN resolved \/ (c \notin DOMAIN found /\ ~Declared(c))
  <2>1. Mapped("Remove") /\ UNCHANGED <<resolved, classes, inProgress>>
    BY <1>2 DEF IncludeMissing
  <2> QED
    BY <1>1, <1>2, <2>1, Caching
<1>3. CASE c \notin DOMAIN resolved /\ c \in DOMAIN found
  BY <1>1, <1>3 DEF IncludeMissing
<1>4. CASE c \notin DOMAIN resolved /\ c \notin DOMAIN found /\ Declared(c)
  <2>1. /\ inProgress' = inProgress \cup {Top.type}
        /\ stack' = <<ClassFrame(c), [Top EXCEPT !.mark = Top.type]>> \o Tail(stack)
        /\ UNCHANGED <<answer, cache, resolved, classes>>
    BY <1>4 DEF IncludeMissing
  <2>2. c \in Names /\ Top.type \in Types
    BY <1>1, <1>4, TopMap DEF Declared
  <2>3. Calling(c, Top.type)
    BY <1>1, <2>1, <2>2, CallingClass
  <2> QED
    BY <1>1, <1>4, <2>1, <2>2, <2>3
<1> QED
  BY <1>2, <1>3, <1>4

\* After that the class found is included, if it can be.
LEMMA Searched ==
  ASSUME IInv, SInv, Included, NEW c, c = Top.type.name
  PROVE  /\ Running("map", "include") /\ c \in Names /\ Top.mark.name = c
         /\ inProgress' = inProgress \ {Top.mark}
         /\ \/ answer = "class" /\ found' = Put(found, c, made) /\ Include(c, made)
            \/ answer # "class" /\ Caches("Remove") /\ UNCHANGED <<found, resolved, classes>>
<1>1. /\ Running("map", "include") /\ answer # "none" /\ content' = content
      /\ inProgress' = inProgress \ {Top.mark}
  BY DEF Included, Unmarked
<1>2. c \in Names /\ Top.mark.name = c
  BY <1>1, TopMap
<1>3. CASE answer = "class"
  BY <1>1, <1>2, <1>3 DEF Included
<1>4. CASE answer # "class"
  <2>1. Mapped("Remove") /\ UNCHANGED <<found, resolved, classes>>
    BY <1>4 DEF Included
  <2> QED
    BY <1>1, <1>2, <1>4, <2>1, Caching
<1> QED
  BY <1>3, <1>4

\* What resolve on a class makes of an answer.
LEMMA Answering ==
  ASSUME IInv, SInv, Asked
  PROVE  /\ Running("class", "resolve") /\ answer \in MapAnswers
         /\ \/ answer = "Throw" /\ ClassEnds("Throw")
            \/ answer = "Remove" /\ ClassEnds("null")
            \/ answer = "Remove" /\ ClassEnds("class")
            \/ \E f : answer # "Throw" /\ GoesOnAs(f) /\ Becomes(f)
<1>1. Running("class", "resolve") /\ content' = content
  BY DEF Asked
<1>2. PICK q : q = AsksOf(content, Top.cls)[Top.at]
  OBVIOUS
<1>3. /\ answer \in MapAnswers
      /\ answer = "Throw" => Return(Tail(stack), "Throw")
      /\ answer = "Remove" => \/ Return(Tail(stack), "null") \/ Return(Tail(stack), "class")
                             \/ \E f : GoesOnAs(f)
      /\ answer \in {"Opaque", "Unchanged"} => \E f : GoesOnAs(f)
  BY <1>2, AskedIs DEF Finish
<1>4. \A v : Return(Tail(stack), v) => ClassEnds(v)
  BY <1>1, EndingClass
<1>5. \A f : GoesOnAs(f) => Becomes(f)
  BY <1>1, Going
<1> QED
  BY <1>1, <1>3, <1>4, <1>5 DEF MapAnswers, Mappings

-----------------------------------------------------------------------------
(* Which policies throw, and which look elsewhere. *)

\* An exception is on its way, or has ended resolveAll.
Thrown == answer = "Throw" \/ phase = "failed"

Staged(S) == \A f \in S : f.kind = "map" => f.stage = "can"

BInv ==
  /\ Thrown => policy = "THROW_MISSING"
  /\ policy # "INCLUDE_MISSING" => Staged(Among(stack))

LEMMA MissingB ==
  ASSUME IInv, SInv, BInv, NEW g, Running("map", g), OnMissing, UNCHANGED <<phase, policy, content>>
  PROVE  BInv'
<1>1. /\ phase = "resolving"
  BY TopMap
<1>2. CASE Ends(answer') /\ (answer' = "Throw" => policy = "THROW_MISSING")
  <2>1. Among(stack') \subseteq Among(stack)
    BY <1>2 DEF Ends
  <2> QED
    BY <1>1, <1>2, <2>1 DEF BInv, Thrown, Staged
<1>3. CASE policy = "INCLUDE_MISSING" /\ answer' = "none"
  BY <1>1, <1>3 DEF BInv, Thrown
<1> QED
  BY <1>2, <1>3, Missing DEF Caches, Ends, Becomes

LEMMA EndsB ==
  ASSUME SInv, BInv, phase = "resolving", UNCHANGED <<phase, policy>>,
         Among(stack') \subseteq Among(stack), answer' = "Throw" => Thrown
  PROVE  BInv'
BY DEF BInv, Thrown, Staged

LEMMA VisitB ==
  ASSUME IInv, SInv, BInv, NEW c \in Names, Visit(c)
  PROVE  BInv'
<1>1. /\ stack = <<>> /\ Map(<<>>, Plain(c)) /\ UNCHANGED <<phase, policy, content>>
      /\ phase = "resolving"
  BY DEF Visit
<1>2. CASE stack' = <<>> /\ Plain(c) \in DOMAIN cache /\ answer' = cache[Plain(c)]
  <2>1. answer' \in Mappings /\ Among(stack') = {}
    BY <1>2, ChainEmpty DEF IInv
  <2> QED
    BY <1>1, <2>1 DEF BInv, Thrown, Staged, Mappings
<1>3. CASE Begins(Plain(c))
  <2>1. MapFrame(Plain(c)).stage = "can"
    BY DEF MapFrame
  <2> QED
    BY <1>1, <1>3, <2>1 DEF BInv, Thrown, Staged, Begins
<1> QED
  BY <1>1, <1>2, <1>3, Visiting

LEMMA CanResolveB ==
  ASSUME IInv, SInv, BInv, CanResolve
  PROVE  BInv'
<1>1. Running("map", "can") /\ UNCHANGED <<phase, policy, content>>
  BY DEF CanResolve
<1>2. phase = "resolving" /\ Top.stage = "can"
  BY <1>1, TopMap
<1>3. CASE Caches("Unchanged")
  <2>1. Among(stack') \subseteq Among(stack) /\ answer' = "Unchanged"
    BY <1>3 DEF Caches, Ends
  <2> QED
    BY <1>1, <1>2, <2>1, EndsB
<1>4. CASE OnMissing
  BY <1>1, <1>4, MissingB
<1>5. CASE \E c \in Names : Calling(c, Plain(c))
  <2>1. PICK c \in Names : Calling(c, Plain(c))
    BY <1>5
  <2>2. ClassFrame(c).kind = "class"
    BY NewCalls
  <2>3. PICK f : /\ f.stage = "can" /\ Among(stack') = {ClassFrame(c), f} \cup Among(Tail(stack))
                 /\ Among(stack) = {Top} \cup Among(Tail(stack)) /\ answer' = "none"
    BY <1>2, <2>1 DEF Calling
  <2> QED
    BY <1>1, <1>2, <2>2, <2>3 DEF BInv, Thrown, Staged
<1> QED
  BY <1>3, <1>4, <1>5, Deciding

LEMMA CanResolvedB ==
  ASSUME IInv, SInv, BInv, CanResolved
  PROVE  BInv'
<1>1. Running("map", "can") /\ UNCHANGED <<phase, policy, content>>
  BY DEF CanResolved
<1>2. phase = "resolving"
  BY <1>1, TopMap
<1>3. CASE Ends(answer') /\ (answer' = "Throw" => answer = "Throw")
  <2>1. Among(stack') \subseteq Among(stack)
    BY <1>3 DEF Ends
  <2> QED
    BY <1>1, <1>2, <1>3, <2>1, EndsB DEF Thrown
<1>4. CASE OnMissing
  BY <1>1, <1>4, MissingB
<1> QED
  BY <1>3, <1>4, Decided DEF Caches, Ends

\* The class is looked for elsewhere under INCLUDE_MISSING only.
LEMMA SearchesOnlyToInclude ==
  ASSUME IInv, SInv, BInv, Running("map", "include")
  PROVE  policy = "INCLUDE_MISSING"
<1>1. Top \in Among(stack) /\ Top.kind = "map" /\ Top.stage = "include"
  BY TopMap
<1> QED
  BY <1>1 DEF BInv, Staged

LEMMA IncludesB ==
  ASSUME IInv, SInv, BInv, IncludeMissing \/ Included
  PROVE  BInv'
<1>1. Running("map", "include") /\ UNCHANGED <<phase, policy, content>>
  BY DEF IncludeMissing, Included
<1>2. policy = "INCLUDE_MISSING" /\ phase = "resolving"
  BY <1>1, SearchesOnlyToInclude, TopMap
<1>3. answer' # "Throw"
  <2>1. \A c, r : Include(c, r) => answer' # "Throw"
    BY <1>1, Including DEF Caches, Ends
  <2>2. CASE IncludeMissing
    <3>1. Caches("Remove") \/ (\E c, r : Include(c, r)) \/ (\E c, m : Calling(c, m))
      BY <2>2, Searching
    <3> QED
      BY <2>1, <3>1 DEF Caches, Ends, Calling
  <2>3. CASE Included
    <3>1. Caches("Remove") \/ \E c, r : Include(c, r)
      BY <2>3, Searched
    <3> QED
      BY <2>1, <3>1 DEF Caches, Ends
  <2> QED
    BY <2>2, <2>3
<1> QED
  BY <1>1, <1>2, <1>3 DEF BInv, Thrown

LEMMA AskB ==
  ASSUME IInv, SInv, BInv, Ask
  PROVE  BInv'
<1>1. Running("class", "resolve") /\ UNCHANGED <<phase, policy, content>>
  BY DEF Ask
<1>2. phase = "resolving"
  BY <1>1, TopClass
<1>3. CASE stack' = stack /\ \E t \in DOMAIN cache : answer' = cache[t]
  <2>1. answer' # "Throw"
    BY <1>3 DEF IInv, Mappings
  <2> QED
    BY <1>1, <1>2, <1>3, <2>1 DEF BInv, Thrown
<1>4. CASE Begins(Asking(Top))
  <2>1. MapFrame(Asking(Top)).stage = "can"
    BY DEF MapFrame
  <2> QED
    BY <1>1, <1>2, <1>4, <2>1 DEF BInv, Thrown, Staged, Begins
<1>5. CASE ClassEnds("class")
  <2>1. Among(stack') \subseteq Among(stack) /\ answer' = "class"
    BY <1>5 DEF ClassEnds
  <2> QED
    BY <1>1, <1>2, <2>1, EndsB
<1> QED
  BY <1>3, <1>4, <1>5, AskingOn

LEMMA AskedB ==
  ASSUME IInv, SInv, BInv, Asked
  PROVE  BInv'
<1>1. Running("class", "resolve") /\ UNCHANGED <<phase, policy, content>>
  BY DEF Asked
<1>2. phase = "resolving"
  BY <1>1, TopClass
<1>3. CASE ClassEnds(answer') /\ (answer' = "Throw" => answer = "Throw")
  <2>1. Among(stack') \subseteq Among(stack)
    BY <1>3 DEF ClassEnds
  <2> QED
    BY <1>1, <1>2, <1>3, <2>1, EndsB DEF Thrown
<1>4. CASE \E f : GoesOnAs(f) /\ Becomes(f)
  <2>1. PICK f : GoesOnAs(f) /\ Becomes(f)
    BY <1>4
  <2>2. /\ f.kind = "class" /\ Among(stack') = {f} \cup Among(Tail(stack))
        /\ Among(Tail(stack)) \subseteq Among(stack) /\ answer' = "none"
    BY <2>1 DEF GoesOnAs, Becomes
  <2> QED
    BY <1>1, <1>2, <2>2 DEF BInv, Thrown, Staged
<1> QED
  BY <1>3, <1>4, Answering DEF ClassEnds

\* The policies keep to what they may do.
LEMMA BStep == IInv /\ SInv /\ BInv /\ [Next]_vars => BInv'
<1> SUFFICES ASSUME IInv, SInv, BInv, [Next]_vars PROVE BInv'
  OBVIOUS
<1>1. CASE Parse \/ ResolveAll
  <2>1. stack' = <<>> /\ answer' = "none" /\ phase' \in {"parsing", "resolving"} /\ policy' = policy
    BY <1>1 DEF Parse, ResolveAll, SInv, Fresh
  <2>2. Among(stack') = {}
    BY <2>1, ChainEmpty
  <2> QED
    BY <2>1, <2>2 DEF BInv, Thrown, Staged
<1>2. CASE Visited \/ AllVisited
  BY <1>2 DEF Visited, AllVisited, BInv, Thrown
<1>3. CASE Ended \/ UNCHANGED vars
  BY <1>3 DEF Ended, vars, BInv, Thrown
<1> QED
  BY <1>1, <1>2, <1>3, VisitB, CanResolveB, CanResolvedB, IncludesB, AskB, AskedB DEF Next, Step

LEMMA BInit == Init => BInv
<1> SUFFICES ASSUME Init PROVE BInv
  OBVIOUS
<1>1. Among(<<>>) = {}
  BY ChainEmpty
<1> QED
  BY <1>1 DEF Init, BInv, Thrown, Staged

\* What was thrown is not caught.
LEMMA ThrownStays ==
  ASSUME IInv, SInv, BInv, Step, Thrown
  PROVE  Thrown'
<1>1. phase = "resolving"
  BY DEF Step, Visit, Visited, AllVisited, CanResolve, CanResolved, IncludeMissing, Included, Ask, Asked,
         Running
<1>2. answer = "Throw" /\ policy = "THROW_MISSING"
  BY <1>1 DEF Thrown, BInv
<1>3. CASE Visited
  BY <1>2, <1>3 DEF Visited, Thrown
<1>4. CASE CanResolved
  <2>1. Ends("Throw")
    BY <1>2, <1>4, Decided
  <2> QED
    BY <2>1 DEF Ends, Thrown
<1>5. CASE IncludeMissing \/ Included
  BY <1>2, <1>5, SearchesOnlyToInclude DEF IncludeMissing, Included
<1>6. CASE Asked
  <2>1. ClassEnds("Throw")
    BY <1>2, <1>6, Answering
  <2> QED
    BY <2>1 DEF ClassEnds, Thrown
<1> QED
  BY <1>2, <1>3, <1>4, <1>5, <1>6 DEF Step, Visit, AllVisited, CanResolve, Ask

-----------------------------------------------------------------------------
(* THROW_MISSING: as long as nothing is thrown, nothing is missing. *)

\* What resolves as far as is known: what was resolved to something, and what
\* is being resolved.
Known == Usable \cup {c \in ClassesOrNone : Plain(c) \in inProgress}

\* What resolve on a class, called as f, has asked for so far and refers to is in S.
Answered(f, S) ==
  /\ \A i \in 1 .. Len(AsksOf(content, f.cls)) :
       i < f.at => AsksOf(content, f.cls)[i].type.name \in S
  /\ f.over \subseteq S /\ f.refs \subseteq S

\* All that the class c refers to is in S, and so is what r, made of it, does.
Complete(r, c, S) ==
  /\ r.refs \subseteq S
  /\ \A i \in DOMAIN content[c].refs : Holds(content[c].refs[i], S)

CachedIn(S) == \A t \in DOMAIN cache : cache[t] = "Unchanged" /\ t.name \in S
CalledIn(S) == \A f \in Among(stack) : f.kind = "class" => Answered(f, S)
MadeIn(S) == \A c \in DOMAIN resolved : NotEmpty(resolved[c]) /\ Complete(resolved[c], c, S)

\* What the innermost call has got.
ToldIn(S) ==
  answer # "none" =>
    IF stack = <<>> THEN answer = "Unchanged"
    ELSE IF Top.kind = "map" THEN answer = "class" /\ Complete(made, Top.type.name, S)
    ELSE answer = "Unchanged" /\ Asking(Top).name \in S

\* A visited class is in S, or being mapped.
Attended(S) ==
  \A c \in classes : c \in todo \cup S \/ \E f \in Among(stack) : f.kind = "map" /\ f.type.name = c

FoundIn(S) == CachedIn(S) /\ CalledIn(S) /\ MadeIn(S) /\ ToldIn(S) /\ Attended(S)

TInv == policy = "THROW_MISSING" /\ ~Thrown /\ phase # "parsing" => FoundIn(Known)

\* What holds of what was found holds when more is known.
LEMMA FoundInMore ==
  ASSUME NEW K, NEW L, K \subseteq L, FoundIn(K)
  PROVE  FoundIn(L)
<1>1. \A f : Answered(f, K) => Answered(f, L)
  BY DEF Answered
<1>2. \A r, c : Complete(r, c, K) => Complete(r, c, L)
  BY DEF Complete, Holds
<1> QED
  BY <1>1, <1>2 DEF FoundIn, CachedIn, CalledIn, MadeIn, ToldIn, Attended

\* A type is of a class, or of none.
LEMMA TypeNames == \A t \in Types : t.name \in ClassesOrNone
BY TypeKinds DEF ClassesOrNone, Unresolvable, Native, Plain, Pointer

\* What canResolve says yes to is known.
LEMMA KnownIfYes ==
  ASSUME NEW c \in ClassesOrNone, Knows(c) = "yes"
  PROVE  c \in Known
BY DEF Knows, Known, Usable

\* What is known stays known: a class whose mark is taken back is resolved.
LEMMA KnownGrows ==
  ASSUME IInv, SInv, BInv, FoundIn(Known), policy = "THROW_MISSING", ~Thrown', Step
  PROVE  Known \subseteq Known'
<1>1. CASE UNCHANGED resolved /\ inProgress \subseteq inProgress'
  BY <1>1 DEF Known, Usable
<1>2. CASE CanResolve
  <2>1. resolved' = resolved
    BY <1>2 DEF CanResolve
  <2> QED
    BY <1>1, <1>2, <2>1, Deciding
<1>3. CASE CanResolved
  <2>1. answer = "class" /\ NotEmpty(made)
    <3>1. ASSUME OnMissing PROVE Thrown'
      <4>1. Running("map", "can") /\ content' = content
        BY <1>3 DEF CanResolved
      <4> QED
        BY <3>1, <4>1, Missing DEF Ends, Thrown
    <3>2. answer # "Throw"
      BY <1>3, Decided DEF Ends, Thrown
    <3> QED
      BY <1>3, <3>1, <3>2, Decided
  <2>2. /\ resolved' = Put(resolved, Top.type.name, made)
        /\ inProgress' = inProgress \ {Top.mark} /\ Top.mark.name = Top.type.name
    BY <1>3, <2>1, Decided
  <2>3. Usable \cup {Top.type.name} \subseteq Usable'
    BY <2>1, <2>2 DEF Usable, Put
  <2>4. \A c \in ClassesOrNone : Plain(c) \in inProgress => Plain(c) \in inProgress' \/ c = Top.type.name
    BY <2>2 DEF Plain
  <2> QED
    BY <2>3, <2>4 DEF Known
<1>4. CASE IncludeMissing \/ Included
  BY <1>4, SearchesOnlyToInclude DEF IncludeMissing, Included
<1> QED
  BY <1>1, <1>2, <1>3, <1>4 DEF Step, Visit, Visited, AllVisited, Ask, Asked

LEMMA VisitT ==
  ASSUME IInv, SInv, NEW K, FoundIn(K), NEW c \in Names, Visit(c)
  PROVE  FoundIn(K)'
<1>1. /\ stack = <<>> /\ Map(<<>>, Plain(c)) /\ todo' = todo \ {c}
      /\ UNCHANGED <<content, classes, resolved, cache, made>>
  BY DEF Visit
<1>2. Among(<<>>) = {} /\ Plain(c).name = c
  BY ChainEmpty, TypeKinds
<1>3. CASE stack' = <<>> /\ Plain(c) \in DOMAIN cache /\ answer' = cache[Plain(c)]
  <2>1. answer' = "Unchanged" /\ c \in K
    BY <1>2, <1>3 DEF FoundIn, CachedIn
  <2> QED
    BY <1>1, <1>2, <1>3, <2>1
    DEF FoundIn, CachedIn, CalledIn, MadeIn, ToldIn, Attended, Complete
<1>4. CASE Begins(Plain(c))
  <2>1. MapFrame(Plain(c)).kind = "map" /\ MapFrame(Plain(c)).type = Plain(c)
    BY DEF MapFrame
  <2> QED
    BY <1>1, <1>2, <1>4, <2>1
    DEF FoundIn, CachedIn, CalledIn, MadeIn, ToldIn, Attended, Begins, Complete
<1> QED
  BY <1>1, <1>3, <1>4, Visiting

\* map returns that its type resolves, and caches it.
LEMMA CachesT ==
  ASSUME SInv, NEW K, FoundIn(K), NEW g, Running("map", g), Caches("Unchanged"), Top.type.name \in K,
         UNCHANGED <<content, classes, todo>>, MadeIn(K)'
  PROVE  FoundIn(K)'
<1>1. /\ Top.kind = "map" /\ Among(stack) = {Top} \cup Among(stack') /\ answer' = "Unchanged"
      /\ stack' # <<>> => Top'.kind = "class" /\ Asking(Top)' = Top.type
      /\ DOMAIN cache' = DOMAIN cache \cup {Top.type} /\ cache'[Top.type] = "Unchanged"
      /\ \A t \in DOMAIN cache : t # Top.type => cache'[t] = cache[t]
  BY DEF Caches, Ends
<1>2. CachedIn(K)'
  BY <1>1 DEF FoundIn, CachedIn
<1>3. CalledIn(K)'
  BY <1>1 DEF FoundIn, CalledIn, Answered
<1>4. ToldIn(K)'
  <2>1. stack' # <<>> => Top'.kind # "map" /\ Asking(Top)'.name \in K
    BY <1>1
  <2> QED
    BY <1>1, <2>1 DEF ToldIn
<1>5. Attended(K)'
  BY <1>1 DEF FoundIn, Attended
<1> QED
  BY <1>2, <1>3, <1>4, <1>5 DEF FoundIn

LEMMA CanResolveT ==
  ASSUME IInv, SInv, policy = "THROW_MISSING", ~Thrown', FoundIn(Known), NEW K, Known \subseteq K,
         CanResolve, NEW c, c = Top.type.name
  PROVE  FoundIn(K)'
<1>1. /\ Running("map", "can")
      /\ UNCHANGED <<phase, policy, content, todo, classes, resolved, found, made, prepared>>
  BY DEF CanResolve
<1>2. FoundIn(K)
  BY FoundInMore
<1>3. CASE Knows(c) = "yes" /\ Caches("Unchanged")
  <2>1. Top.type \in Types
    BY <1>1, TopMap
  <2>2. c \in K
    BY <1>3, <2>1, TypeNames, KnownIfYes
  <2>3. MadeIn(K)'
    BY <1>1, <1>2 DEF FoundIn, MadeIn, Complete
  <2> QED
    BY <1>1, <1>2, <1>3, <2>2, <2>3, CachesT
<1>4. CASE OnMissing
  BY <1>1, <1>4, Missing DEF Ends, Thrown
<1>5. CASE c \in Names /\ Calling(c, Plain(c)) /\ cache' = cache
  <2>1. /\ ClassFrame(c).kind = "class" /\ ClassFrame(c).at = 1
        /\ ClassFrame(c).over = {} /\ ClassFrame(c).refs = {} /\ ~ ClassFrame(c).lost
    BY <1>5, NewCalls
  <2>2. Answered(ClassFrame(c), K)'
    <3>1. \A n : \A i \in 1 .. n : ~(i < 1)
      OBVIOUS
    <3>2. PICK f : f = ClassFrame(c)
      OBVIOUS
    <3> QED
      BY <2>1, <3>1, <3>2 DEF Answered
  <2>3. PICK f : /\ f.kind = "map" /\ f.type = Top.type /\ answer' = "none"
                 /\ Among(stack) = {Top} \cup Among(Tail(stack))
                 /\ Among(stack') = {ClassFrame(c), f} \cup Among(Tail(stack))
    BY <1>5 DEF Calling
  <2>4. CalledIn(K)'
    BY <1>1, <1>2, <2>2, <2>3 DEF FoundIn, CalledIn, Answered
  <2>5. Attended(K)'
    BY <1>1, <1>2, <2>3 DEF FoundIn, Attended
  <2>6. CachedIn(K)' /\ MadeIn(K)' /\ ToldIn(K)'
    BY <1>1, <1>2, <1>5, <2>3 DEF FoundIn, CachedIn, MadeIn, ToldIn, Complete
  <2> QED
    BY <2>4, <2>5, <2>6 DEF FoundIn
<1> QED
  BY <1>3, <1>4, <1>5, Deciding

LEMMA CanResolvedT ==
  ASSUME IInv, SInv, policy = "THROW_MISSING", ~Thrown', FoundIn(Known), NEW K, Known \subseteq K,
         K = Known', CanResolved
  PROVE  FoundIn(K)'
<1> DEFINE c == Top.type.name
<1>1. /\ Running("map", "can") /\ answer # "none"
      /\ UNCHANGED <<phase, policy, content, todo, classes, found, made, prepared>>
  BY DEF CanResolved
<1>2. FoundIn(K)
  BY FoundInMore
<1>3. answer = "class" /\ NotEmpty(made) /\ Caches("Unchanged") /\ resolved' = Put(resolved, c, made)
  <2>1. ASSUME OnMissing PROVE Thrown'
    BY <1>1, <2>1, Missing DEF Ends, Thrown
  <2>2. answer # "Throw"
    BY Decided DEF Ends, Thrown
  <2> QED
    BY <2>1, <2>2, Decided
<1>4. c \in K
  BY <1>3 DEF Known, Usable, Put
<1>5. Complete(made, c, K)
  <2>1. stack # <<>> /\ Top.kind = "map"
    BY <1>1, TopMap
  <2> QED
    BY <1>1, <1>2, <2>1 DEF FoundIn, ToldIn
<1>6. MadeIn(K)'
  <2>1. DOMAIN resolved' = DOMAIN resolved \cup {c} /\ resolved'[c] = made
        /\ \A d \in DOMAIN resolved : d # c => resolved'[d] = resolved[d]
    BY <1>3 DEF Put
  <2>2. \A r, d : Complete(r, d, K) => Complete(r, d, K)'
    BY <1>1 DEF Complete
  <2> QED
    BY <1>2, <1>3, <1>5, <2>1, <2>2 DEF FoundIn, MadeIn
<1> QED
  BY <1>1, <1>2, <1>3, <1>4, <1>6, CachesT

LEMMA AskT ==
  ASSUME IInv, SInv, NEW K, FoundIn(K), Ask
  PROVE  FoundIn(K)'
<1> DEFINE k == content[Top.cls]
           a == AsksOf(content, Top.cls)
<1>1. /\ Running("class", "resolve") /\ answer = "none"
      /\ UNCHANGED <<phase, policy, content, todo, classes, resolved, inProgress, cache, found, prepared>>
  BY DEF Ask
<1>2. stack # <<>> /\ Top.kind = "class" /\ Top \in Among(stack) /\ Top.cls \in Names
      /\ \A d \in Names : content[d] \in Contents
  BY <1>1, TopClass
<1>3. CASE stack' = stack /\ Asking(Top) \in DOMAIN cache /\ answer' = cache[Asking(Top)] /\ Top' = Top
           /\ made' = made
  <2>1. answer' = "Unchanged" /\ Asking(Top).name \in K
    BY <1>3 DEF FoundIn, CachedIn
  <2>2. Asking(Top)' = Asking(Top)
    BY <1>1, <1>3 DEF Asking
  <2>3. ToldIn(K)'
    BY <1>2, <1>3, <2>1, <2>2 DEF ToldIn
  <2> QED
    BY <1>1, <1>3, <2>3 DEF FoundIn, CachedIn, CalledIn, MadeIn, Attended, Complete, Answered
<1>4. CASE Begins(Asking(Top)) /\ made' = made
  <2>1. MapFrame(Asking(Top)).kind = "map"
    BY DEF MapFrame
  <2>2. Among(stack') = {MapFrame(Asking(Top))} \cup Among(stack) /\ answer' = "none"
    BY <1>4 DEF Begins
  <2> HIDE DEF k, a
  <2> QED
    BY <1>1, <2>1, <2>2
    DEF FoundIn, CachedIn, CalledIn, MadeIn, Attended, Complete, Answered, ToldIn
<1>5. CASE Top.at > Len(a) /\ Finish(Top, k.refs # <<>>) /\ ClassEnds("class")
  <2>1. /\ Among(stack) = {Top} \cup Among(stack') /\ answer' = "class" /\ stack' # <<>>
        /\ Top'.kind = "map" /\ Top'.type.name = Top.cls
    BY <1>5 DEF ClassEnds
  <2>2. Answered(Top, K)
    BY <1>2 DEF FoundIn, CalledIn
  <2>3. Len(a) \in Nat /\ \A j \in DOMAIN k.refs : k.refs[j] # Native =>
          \E i \in 1 .. Len(a) : a[i].type.name = k.refs[j].name
    BY <1>2, AskFacts
  <2>4. \A i \in 1 .. Len(a) : a[i].type.name \in K
    <3>1. Top.at \in Nat
      BY <1>1, TopClass
    <3>2. \A i \in 1 .. Len(a) : i < Top.at
      BY <1>5, <2>3, <3>1
    <3> QED
      BY <2>2, <3>2 DEF Answered
  <2>5. \A j \in DOMAIN k.refs : Holds(k.refs[j], K)
    BY <2>3, <2>4 DEF Holds
  <2>6. made'.refs \subseteq K
    <3>1. made'.refs \subseteq Top.over \cup Top.refs
      BY <1>5 DEF Finish
    <3> QED
      BY <2>2, <3>1 DEF Answered
  <2>7. Complete(made, Top.type.name, K)'
    BY <1>1, <2>1, <2>5, <2>6 DEF Complete
  <2>8. ToldIn(K)'
    BY <2>1, <2>7 DEF ToldIn
  <2>9. CalledIn(K)' /\ Attended(K)'
    BY <1>1, <1>2, <2>1 DEF FoundIn, CalledIn, Attended, Answered
  <2>10. CachedIn(K)' /\ MadeIn(K)'
    BY <1>1 DEF FoundIn, CachedIn, MadeIn, Complete
  <2> QED
    BY <2>8, <2>9, <2>10 DEF FoundIn
<1> QED
  BY <1>3, <1>4, <1>5, AskingOn

LEMMA AskedT ==
  ASSUME IInv, SInv, NEW K, FoundIn(K), Asked
  PROVE  FoundIn(K)'
<1> DEFINE q == AsksOf(content, Top.cls)[Top.at]
<1>1. /\ Running("class", "resolve") /\ answer # "none"
      /\ UNCHANGED <<phase, policy, content, todo, classes, resolved, inProgress, cache, found>>
  BY DEF Asked
<1>2. stack # <<>> /\ Top.kind = "class" /\ Top \in Among(stack) /\ Top.at \in Nat
  BY <1>1, TopClass
<1>3. answer = "Unchanged" /\ q.type.name \in K
  BY <1>1, <1>2 DEF FoundIn, ToldIn, Asking
<1>4. PICK f : /\ GoesOnAs(f) /\ f.at = Top.at + 1
               /\ f.over \subseteq Top.over \cup {q.type.name}
               /\ f.refs \subseteq Top.refs \cup {q.type.name}
  BY <1>3, AskedIs
<1>5. Becomes(f) /\ f.kind = "class" /\ f.cls = Top.cls
  BY <1>1, <1>4, Going DEF GoesOnAs
<1>6. Answered(f, K)
  <2>1. Answered(Top, K)
    BY <1>2 DEF FoundIn, CalledIn
  <2>2. f.over \subseteq K /\ f.refs \subseteq K
    BY <1>3, <1>4, <2>1 DEF Answered
  <2>3. \A i \in 1 .. Len(AsksOf(content, Top.cls)) : i < f.at => i < Top.at \/ i = Top.at
    BY <1>2, <1>4
  <2> QED
    BY <1>3, <1>5, <2>1, <2>2, <2>3 DEF Answered
<1>7. /\ Among(stack) = {Top} \cup Among(Tail(stack)) /\ Among(stack') = {f} \cup Among(Tail(stack))
      /\ answer' = "none"
  BY <1>5 DEF Becomes
<1>8. CalledIn(K)'
  <2>1. \A h : Answered(h, K) => Answered(h, K)'
    BY <1>1 DEF Answered
  <2> QED
    BY <1>6, <1>7, <2>1 DEF FoundIn, CalledIn
<1>9. Attended(K)'
  BY <1>1, <1>2, <1>7 DEF FoundIn, Attended
<1> QED
  BY <1>1, <1>7, <1>8, <1>9 DEF FoundIn, CachedIn, MadeIn, Complete, ToldIn

\* Under THROW_MISSING what was found stays found, until something is thrown.
LEMMA TStep == IInv /\ SInv /\ BInv /\ TInv /\ [Next]_vars => TInv'
<1> SUFFICES ASSUME IInv, SInv, BInv, TInv, [Next]_vars,
                    policy' = "THROW_MISSING", ~Thrown', phase' # "parsing"
             PROVE  FoundIn(Known)'
  BY DEF TInv
<1>1. policy = "THROW_MISSING"
  BY DEF Next, Step, Parse, ResolveAll, Visit, Visited, AllVisited, CanResolve, CanResolved,
         IncludeMissing, Included, Ask, Asked, Ended, vars
<1>2. CASE Parse
  BY <1>2 DEF Parse
<1>3. CASE ResolveAll
  <2>1. /\ stack' = <<>> /\ answer' = "none" /\ DOMAIN cache' = {} /\ DOMAIN resolved' = {}
        /\ todo' = classes'
    BY <1>3 DEF ResolveAll, SInv, Fresh
  <2>2. Among(stack') = {}
    BY <2>1, ChainEmpty
  <2> QED
    BY <2>1, <2>2 DEF FoundIn, CachedIn, CalledIn, MadeIn, ToldIn, Attended
<1>4. CASE Ended \/ UNCHANGED vars
  <2>1. UNCHANGED vars
    BY <1>4 DEF Ended
  <2>2. FoundIn(Known)
    BY <1>1, <2>1 DEF TInv, Thrown, vars
  <2>3. PICK K : K = Known
    OBVIOUS
  <2>4. K = Known'
    BY <2>1, <2>3 DEF Known, Usable, vars
  <2>5. Top' = Top /\ Asking(Top)' = Asking(Top)
    BY <2>1 DEF Asking, Top, vars
  <2>6. CachedIn(K)' /\ CalledIn(K)' /\ MadeIn(K)'
    BY <2>1, <2>2, <2>3 DEF FoundIn, CachedIn, CalledIn, MadeIn, Answered, Complete, vars
  <2>7. ToldIn(K)' /\ Attended(K)'
    BY <2>1, <2>2, <2>3, <2>5 DEF FoundIn, ToldIn, Attended, Complete, vars
  <2> QED
    BY <2>4, <2>6, <2>7 DEF FoundIn
<1>5. CASE Step
  <2>1. ~Thrown
    BY <1>5, ThrownStays
  <2>2. phase # "parsing"
    BY <1>5 DEF Step, Visit, Visited, AllVisited, CanResolve, CanResolved, IncludeMissing, Included,
                Ask, Asked, Running
  <2>3. FoundIn(Known)
    BY <1>1, <2>1, <2>2 DEF TInv
  <2>4. PICK K : K = Known'
    OBVIOUS
  <2>5. Known \subseteq K
    BY <1>1, <1>5, <2>3, <2>4, KnownGrows
  <2>6. FoundIn(K)
    BY <2>3, <2>5, FoundInMore
  <2>7. FoundIn(K)'
    <3>1. CASE Visited
      <4>1. /\ stack = <<>> /\ answer' = "none"
            /\ UNCHANGED <<policy, content, todo, classes, resolved, inProgress, cache, found, stack, made, prepared>>
        BY <3>1 DEF Visited
      <4> QED
        BY <2>6, <4>1 DEF FoundIn, CachedIn, CalledIn, MadeIn, ToldIn, Attended, Answered, Complete
    <3>2. CASE AllVisited
      BY <2>6, <3>2 DEF AllVisited, FoundIn, CachedIn, CalledIn, MadeIn, ToldIn, Attended, Answered, Complete,
                        Asking, Top
    <3>3. CASE IncludeMissing \/ Included
      BY <1>1, <3>3, SearchesOnlyToInclude DEF IncludeMissing, Included
    <3>4. CASE \E c \in Names : Visit(c)
      BY <2>6, <3>4, VisitT
    <3>5. CASE CanResolve
      BY <1>1, <2>3, <2>5, <3>5, CanResolveT
    <3>6. CASE CanResolved
      BY <1>1, <2>3, <2>4, <2>5, <3>6, CanResolvedT
    <3>7. CASE Ask
      BY <2>6, <3>7, AskT
    <3>8. CASE Asked
      BY <2>6, <3>8, AskedT
    <3> QED
      BY <1>5, <3>1, <3>2, <3>3, <3>4, <3>5, <3>6, <3>7, <3>8 DEF Step
  <2> QED
    BY <2>4, <2>7
<1> QED
  BY <1>2, <1>3, <1>4, <1>5 DEF Next

LEMMA TInit == Init => TInv
BY DEF Init, TInv

\* Under THROW_MISSING resolveAll ends without an exception only if all that
\* the filtered classes refer to was found: every one of them is there, with
\* its method whole, whatever cycles the references make.
THEOREM WhatIsMissingThrows == Spec => []ThrowLeavesNothingOut
<1>1. IInv /\ SInv /\ TInv => ThrowLeavesNothingOut
  <2> SUFFICES ASSUME IInv, SInv, TInv, phase = "done", policy = "THROW_MISSING", NEW c \in classes
               PROVE  /\ c \in Usable
                      /\ resolved[c].refs \subseteq Usable
                      /\ \A i \in DOMAIN content[c].refs : Holds(content[c].refs[i], Usable)
    BY DEF ThrowLeavesNothingOut
  <2>1. todo = {} /\ stack = <<>> /\ answer = "none"
    BY DEF SInv
  <2>2. inProgress = {} /\ Among(stack) = {}
    BY <2>1, IInvMarks, ChainEmpty DEF MarksAreTakenBack
  <2>3. Known = Usable
    BY <2>2 DEF Known
  <2>4. FoundIn(Usable)
    BY <2>1, <2>3 DEF TInv, Thrown
  <2>5. c \in Usable
    BY <2>1, <2>2, <2>4 DEF FoundIn, Attended
  <2> QED
    BY <2>4, <2>5 DEF FoundIn, MadeIn, Complete, Usable
<1> QED
  BY <1>1, InitInv, StepInv, InitOK, StepOK, BInit, BStep, TInit, TStep, PTL DEF Spec

-----------------------------------------------------------------------------
(* The reference definition: Resolvable is a set of which each is supported *)
(* by the others.                                                           *)

\* Supported and Resolvable, of the parsed classes k.
SupportedBy(k, S) ==
  {c \in S : /\ k[c].base # NoName => k[c].base \in S
             /\ \/ k[c].base # NoName \/ k[c].nested \in S
                \/ /\ k[c].refs # <<>>
                   /\ \A i \in 1 .. k[c].needed : Holds(k[c].refs[i], S)}

ResolvableBy(k, S) ==
  LET after[n \in 0 .. Cardinality(Names)] ==
        IF n = 0 THEN S ELSE LET before == after[n - 1] IN SupportedBy(k, before)
  IN  after[Cardinality(Names)]

\* Resolvable is ResolvableBy for the classes as they were parsed.
LEMMA ResolvableIs == \A S : Resolvable(S) = ResolvableBy(content, S)
BY DEF Resolvable, ResolvableBy, Supported, SupportedBy, MethodHolds

\* The rounds that leave what the last one supports.
Rounds(after, k, S) ==
  /\ after \in [0 .. Cardinality(Names) -> SUBSET Names] /\ after[0] = S
  /\ \A n \in 1 .. Cardinality(Names) : after[n] = SupportedBy(k, after[n - 1])

\* Each round either leaves the set as it is, or makes it smaller.
LEMMA RoundsEnd ==
  ASSUME NEW k, NEW S \in SUBSET Names, IsFiniteSet(Names),
         NEW after, Rounds(after, k, S), NEW N, N = Cardinality(Names)
  PROVE  after[N] \subseteq S /\ SupportedBy(k, after[N]) = after[N]
<1>0. /\ after \in [0 .. N -> SUBSET Names] /\ after[0] = S
      /\ \A n \in 1 .. N : after[n] = SupportedBy(k, after[n - 1])
  BY DEF Rounds
<1> DEFINE Still(T) == SupportedBy(k, T) = T
           U == {n \in Nat : n <= N =>
                   after[n] \subseteq S /\ (Still(after[n]) \/ Cardinality(after[n]) <= N - n)}
<1>1. N \in Nat
  BY FS_CardinalityType
<1>2. \A T \in SUBSET Names : /\ IsFiniteSet(T) /\ Cardinality(T) \in Nat /\ Cardinality(T) <= N
                              /\ SupportedBy(k, T) \subseteq T
  <2>1. \A T \in SUBSET Names : IsFiniteSet(T) /\ Cardinality(T) <= N
    BY FS_Subset
  <2>2. \A T \in SUBSET Names : Cardinality(T) \in Nat
    BY <2>1, FS_CardinalityType
  <2> QED
    BY <2>1, <2>2 DEF SupportedBy
<1>3. 0 \in U
  <2>1. after[0] = S /\ Cardinality(after[0]) <= N - 0
    BY <1>0, <1>1, <1>2
  <2> QED
    BY <2>1
<1>4. ASSUME NEW n \in Nat, n \in U PROVE n + 1 \in U
  <2> SUFFICES ASSUME n + 1 <= N
               PROVE  /\ after[n + 1] \subseteq S
                      /\ Still(after[n + 1]) \/ Cardinality(after[n + 1]) <= N - (n + 1)
    OBVIOUS
  <2> DEFINE T == after[n]
  <2>1. n \in 0 .. N /\ n + 1 \in 1 .. N /\ n <= N
    BY <1>1
  <2>2. T \in SUBSET Names /\ T \subseteq S /\ (Still(T) \/ Cardinality(T) <= N - n)
    BY <1>0, <1>4, <2>1
  <2>3. after[n + 1] = SupportedBy(k, T)
    <3>1. (n + 1) - 1 = n
      OBVIOUS
    <3> QED
      BY <1>0, <2>1, <3>1
  <2> HIDE DEF T
  <2>4. after[n + 1] \subseteq T
    BY <1>2, <2>2, <2>3
  <2>5. CASE Still(T)
    BY <2>2, <2>3, <2>5
  <2>6. CASE ~Still(T)
    <3>1. after[n + 1] # T
      BY <2>3, <2>6
    <3>2. Cardinality(after[n + 1]) < Cardinality(T)
      <4>1. IsFiniteSet(T) /\ after[n + 1] \in SUBSET T
        BY <1>2, <2>2, <2>4
      <4>2. Cardinality(after[n + 1]) <= Cardinality(T) /\ Cardinality(after[n + 1]) # Cardinality(T)
        BY <3>1, <4>1, FS_Subset
      <4>3. Cardinality(after[n + 1]) \in Nat /\ Cardinality(T) \in Nat
        BY <1>2, <2>2, <2>4
      <4> HIDE DEF U, Still
      <4> QED
        BY <4>2, <4>3
    <3>3. Cardinality(after[n + 1]) \in Nat /\ Cardinality(T) \in Nat
      BY <1>2, <2>2, <2>4
    <3> QED
      BY <1>1, <2>2, <2>4, <2>6, <3>2, <3>3
  <2> QED
    BY <2>5, <2>6
<1>5. N \in U
  <2> HIDE DEF U
  <2> QED
    BY <1>1, <1>3, <1>4, Induction
<1>6. after[N] \in SUBSET Names
  BY <1>0, <1>1
<1>7. CASE Still(after[N])
  BY <1>1, <1>5, <1>7
<1>8. CASE Cardinality(after[N]) <= N - N
  <2>1. Cardinality(after[N]) = 0
    BY <1>1, <1>2, <1>6, <1>8
  <2>2. after[N] = {}
    BY <1>2, <1>6, <2>1, FS_EmptySet
  <2>3. SupportedBy(k, {}) = {}
    BY DEF SupportedBy
  <2> QED
    BY <2>2, <2>3
<1> QED
  BY <1>1, <1>5, <1>7, <1>8

\* Resolvable keeps to the set it starts from, and each class that it leaves is
\* supported by the others.
LEMMA ResolvableUnroll ==
  ASSUME NEW k, NEW S \in SUBSET Names, IsFiniteSet(Names)
  PROVE  ResolvableBy(k, S) \subseteq S /\ SupportedBy(k, ResolvableBy(k, S)) = ResolvableBy(k, S)
<1> DEFINE N == Cardinality(Names)
           V == SUBSET Names
           Is(f) == f = [n \in 0 .. N |-> IF n = 0 THEN S ELSE SupportedBy(k, f[n - 1])]
           g == [x \in (0 + 1 .. N) \X V |-> SupportedBy(k, x[2])]
<1>1. N \in Nat /\ 0 <= N
  BY FS_CardinalityType
<1>2. \A T \in V : SupportedBy(k, T) \in V
  BY DEF SupportedBy
<1> HIDE DEF N
<1>3. StepsIn(g, 0, N, V)
  <2>1. \A x \in (0 + 1 .. N) \X V : SupportedBy(k, x[2]) \in V
    BY <1>2
  <2> QED
    BY <2>1 DEF StepsIn
<1>4. PICK f : Recursive(f, 0, N, V, S, g)
  <2> HIDE DEF g
  <2> QED
    BY <1>1, <1>3, Recursion
<1>5. f \in [0 .. N -> V] /\ f[0] = S /\ \A n \in 1 .. N : f[n] = SupportedBy(k, f[n - 1])
  <2>1. f \in [0 .. N -> V] /\ f[0] = S
    BY <1>4 DEF Recursive
  <2>2. ASSUME NEW n \in 1 .. N PROVE f[n] = SupportedBy(k, f[n - 1])
    <3>1. n \in 0 + 1 .. N /\ f[n - 1] \in V
      BY <1>1, <2>1
    <3>2. g[<<n, f[n - 1]>>] = SupportedBy(k, f[n - 1])
      BY <3>1
    <3> HIDE DEF g
    <3> QED
      BY <1>4, <3>1, <3>2 DEF Recursive
  <2> QED
    BY <2>1, <2>2
<1>6. Is(f)
  <2>1. \A n \in 0 .. N : f[n] = IF n = 0 THEN S ELSE SupportedBy(k, f[n - 1])
    <3> SUFFICES ASSUME NEW n \in 0 .. N PROVE f[n] = IF n = 0 THEN S ELSE SupportedBy(k, f[n - 1])
      OBVIOUS
    <3>1. CASE n = 0
      BY <1>5, <3>1
    <3>2. CASE n # 0
      <4>1. n \in 1 .. N
        BY <1>1, <3>2
      <4> QED
        BY <1>5, <3>2, <4>1
    <3> QED
      BY <3>1, <3>2
  <2> QED
    BY <1>5, <2>1
<1>7. Is(CHOOSE h : Is(h))
  BY <1>6
<1>8. PICK after : after = (CHOOSE h : Is(h))
  OBVIOUS
<1>9. ResolvableBy(k, S) = after[N]
  BY <1>8 DEF ResolvableBy, N
<1>10. Is(after)
  BY <1>7, <1>8
<1>11. after[0] = S /\ \A n \in 1 .. N : after[n] = SupportedBy(k, after[n - 1])
  BY <1>1, <1>10
<1>12. after \in [0 .. N -> V]
  <2> DEFINE U == {n \in Nat : n <= N => after[n] \in V}
  <2>1. 0 \in U
    BY <1>11
  <2>2. ASSUME NEW n \in Nat, n \in U PROVE n + 1 \in U
    <3> SUFFICES ASSUME n + 1 <= N PROVE after[n + 1] \in V
      OBVIOUS
    <3>1. n + 1 \in 1 .. N /\ (n + 1) - 1 = n /\ after[n] \in V
      BY <1>1, <2>2
    <3> QED
      BY <1>2, <1>11, <3>1
  <2>3. \A n \in Nat : n \in U
    <3> HIDE DEF U
    <3> QED
      BY <2>1, <2>2, Induction
  <2>4. \A n \in 0 .. N : after[n] \in V
    BY <1>1, <2>3
  <2> QED
    BY <1>10, <2>4
<1>13. Rounds(after, k, S)
  BY <1>11, <1>12 DEF Rounds, N
<1>14. after[N] \subseteq S /\ SupportedBy(k, after[N]) = after[N]
  BY <1>13, RoundsEnd DEF N
<1> QED
  BY <1>9, <1>14

-----------------------------------------------------------------------------
(* IGNORE_MISSING and INCLUDE_MISSING: nothing that could be resolved is lost. *)

\* What could be resolved.
Spared == ResolvableBy(content, Available)

\* What could be resolved has what it needs among what could be resolved.
LEMMA SparedIs ==
  ASSUME SInv, phase # "parsing"
  PROVE  \A c \in Spared :
           /\ c \in Available /\ c \in Names /\ HasContent(content[c])
           /\ content[c].base # NoName => content[c].base \in Spared
           /\ \/ content[c].base # NoName \/ content[c].nested \in Spared
              \/ /\ content[c].refs # <<>>
                 /\ \A i \in 1 .. content[c].needed : Holds(content[c].refs[i], Spared)
<1>1. IsFiniteSet(Names) /\ Available \in SUBSET Names
  BY DEF SInv, Available
<1>2. Spared \subseteq Available /\ SupportedBy(content, Spared) = Spared
  BY <1>1, ResolvableUnroll DEF Spared
<1>3. \A c \in Spared :
        /\ content[c].base # NoName => content[c].base \in Spared
        /\ \/ content[c].base # NoName \/ content[c].nested \in Spared
           \/ /\ content[c].refs # <<>>
              /\ \A i \in 1 .. content[c].needed : Holds(content[c].refs[i], Spared)
  BY <1>2 DEF SupportedBy
<1>4. NoName \notin Spared
  BY <1>1, <1>2, ResolverAssumption
<1> QED
  BY <1>1, <1>2, <1>3, <1>4 DEF HasContent

\* Of the classes in R, what was resolved, and found, is not empty; what is
\* cached resolves and is in K; map and resolve return that they resolve; and
\* no outer class goes on without one of them.
CachedFor(R, K) == \A t \in DOMAIN cache : t.name \in R => cache[t] = "Unchanged" /\ t.name \in K
MadeFor(R) ==
  \A c \in R : /\ c \in DOMAIN resolved => NotEmpty(resolved[c])
               /\ c \in DOMAIN found => NotEmpty(found[c])
SearchedFor(R) ==
  stack # <<>> /\ answer = "none" /\ Top.kind = "map" /\ Top.stage = "include" /\ Top.type.name \in R
    => Top.type.name \notin DOMAIN resolved
ToldFor(R) ==
  stack # <<>> /\ answer # "none" =>
    IF Top.kind = "map" THEN Top.type.name \in R => answer = "class" /\ NotEmpty(made)
    ELSE Asking(Top).name \in R => answer = "Unchanged"
AttendedFor(R, K) ==
  \A c \in classes \cap R :
    c \in todo \cup K \/ \E f \in Among(stack) : f.kind = "map" /\ f.type.name = c
NestedFor(R) ==
  \A f \in Among(stack) : f.kind = "class" /\ content[f.cls].nested \in R => ~f.lost

KeptFor(R, K) ==
  /\ CachedFor(R, K) /\ MadeFor(R) /\ SearchedFor(R) /\ ToldFor(R)
  /\ AttendedFor(R, K) /\ NestedFor(R)

Sparing == {"IGNORE_MISSING", "INCLUDE_MISSING"}

LInv == policy \in Sparing /\ phase # "parsing" => KeptFor(Spared, Known)

\* What is kept as long as K is known is kept as long as more is.
LEMMA KeptForMore ==
  ASSUME NEW R, NEW K, NEW L, R \cap K \subseteq L, KeptFor(R, K)
  PROVE  KeptFor(R, L)
BY DEF KeptFor, CachedFor, AttendedFor

\* What is known but for c stays known when nothing else changes.
LEMMA KnownBut ==
  ASSUME NEW c, \A d \in DOMAIN resolved : d # c => d \in DOMAIN resolved' /\ resolved'[d] = resolved[d],
         \A m \in inProgress : m.name # c => m \in inProgress'
  PROVE  Known \ {c} \subseteq Known'
<1>1. \A d \in Usable : d # c => d \in Usable'
  BY DEF Usable
<1>2. \A d \in ClassesOrNone : d # c /\ Plain(d) \in inProgress => Plain(d) \in inProgress'
  BY DEF Plain
<1> QED
  BY <1>1, <1>2 DEF Known

\* No step takes what could be resolved out of what is known.
LEMMA KnownKept ==
  ASSUME IInv, SInv, BInv, policy \in Sparing, NEW R, KeptFor(R, Known), Step
  PROVE  R \cap Known \subseteq Known'
<1> DEFINE c == Top.type.name
<1>1. CASE UNCHANGED resolved /\ inProgress \subseteq inProgress'
  BY <1>1 DEF Known, Usable
<1>2. CASE CanResolve
  <2>1. resolved' = resolved
    BY <1>2 DEF CanResolve
  <2> QED
    BY <1>1, <1>2, <2>1, Deciding
<1>3. ASSUME NEW g, Running("map", g), inProgress' = inProgress \ {Top.mark} \/ inProgress' = inProgress \ {Top.type},
             resolved' = resolved \/ \E r : resolved' = Put(resolved, c, r),
             c \in R => \E r : NotEmpty(r) /\ resolved' = Put(resolved, c, r)
      PROVE  R \cap Known \subseteq Known'
  <2>1. Top.mark.name = c
    BY <1>3, TopMap
  <2>2. Known \ {c} \subseteq Known'
    <3>1. \A d \in DOMAIN resolved : d # c => d \in DOMAIN resolved' /\ resolved'[d] = resolved[d]
      BY <1>3 DEF Put
    <3>2. \A m \in inProgress : m.name # c => m \in inProgress'
      BY <1>3, <2>1
    <3> QED
      BY <3>1, <3>2, KnownBut
  <2>3. c \in R => c \in Known'
    BY <1>3 DEF Put, Known, Usable
  <2> QED
    BY <2>2, <2>3
<1>4. CASE CanResolved
  <2>1. /\ Running("map", "can") /\ inProgress' = inProgress \ {Top.mark} /\ answer # "none"
        /\ resolved' = IF answer = "class" THEN Put(resolved, c, made) ELSE resolved
    BY <1>4, Decided DEF CanResolved
  <2>2. stack # <<>> /\ Top.kind = "map"
    BY <2>1, TopMap
  <2>3. c \in R => answer = "class" /\ NotEmpty(made)
    BY <2>1, <2>2 DEF KeptFor, ToldFor
  <2> QED
    BY <1>3, <2>1, <2>3
<1>5. CASE IncludeMissing
  <2>1. Running("map", "include") /\ content' = content
    BY <1>5 DEF IncludeMissing
  <2>2. CASE c \in DOMAIN found /\ Include(c, found[c]) /\ inProgress' = inProgress \ {Top.type}
    <3>1. \/ NotEmpty(found[c]) /\ resolved' = Put(resolved, c, found[c])
          \/ ~NotEmpty(found[c]) /\ resolved' = resolved
      BY <2>1, <2>2, Including
    <3>2. c \in R => NotEmpty(found[c])
      BY <2>2 DEF KeptFor, MadeFor
    <3> QED
      BY <1>3, <2>1, <2>2, <3>1, <3>2
  <2> QED
    BY <1>1, <1>5, <2>2, Searching
<1>6. CASE Included
  <2>1. Running("map", "include") /\ inProgress' = inProgress \ {Top.mark} /\ answer # "none" /\ content' = content
    BY <1>6, Searched DEF Included
  <2>2. stack # <<>> /\ Top.kind = "map"
    BY <2>1, TopMap
  <2>3. c \in R => answer = "class" /\ NotEmpty(made)
    BY <2>1, <2>2 DEF KeptFor, ToldFor
  <2>4. \/ NotEmpty(made) /\ resolved' = Put(resolved, c, made)
        \/ (answer # "class" \/ ~NotEmpty(made)) /\ resolved' = resolved
    BY <1>6, <2>1, Searched, Including
  <2> QED
    BY <1>3, <2>1, <2>3, <2>4
<1> QED
  BY <1>1, <1>2, <1>4, <1>5, <1>6 DEF Step, Visit, Visited, AllVisited, Ask, Asked

\* map returns, and caches what it does.
LEMMA CachesL ==
  ASSUME SInv, NEW R, NEW K, KeptFor(R, K), NEW v, Caches(v),
         Top.type.name \in R => v = "Unchanged" /\ Top.type.name \in K,
         UNCHANGED <<content, todo>>, MadeFor(R)', \A c \in classes' \cap R : c \in classes \cup K
  PROVE  KeptFor(R, K)'
<1>1. /\ Top.kind = "map" /\ Among(stack) = {Top} \cup Among(stack') /\ answer' = v
      /\ stack' # <<>> => Top'.kind = "class" /\ Asking(Top)' = Top.type
      /\ DOMAIN cache' = DOMAIN cache \cup {Top.type} /\ cache'[Top.type] = v
      /\ \A t \in DOMAIN cache : t # Top.type => cache'[t] = cache[t]
  BY DEF Caches, Ends
<1>2. CachedFor(R, K)'
  BY <1>1 DEF KeptFor, CachedFor
<1>3. SearchedFor(R)'
  BY <1>1 DEF SearchedFor
<1>4. ToldFor(R)'
  <2>1. stack' # <<>> => Top'.kind # "map" /\ (Asking(Top)'.name \in R => answer' = "Unchanged")
    BY <1>1
  <2> QED
    BY <2>1 DEF ToldFor
<1>5. AttendedFor(R, K)' /\ NestedFor(R)'
  BY <1>1 DEF KeptFor, AttendedFor, NestedFor
<1> QED
  BY <1>2, <1>3, <1>4, <1>5 DEF KeptFor

\* map goes on to look for its type elsewhere, or gives up.
LEMMA MissingL ==
  ASSUME IInv, SInv, policy \in Sparing, NEW R, NEW K, KeptFor(R, K), NEW g, Running("map", g), OnMissing,
         UNCHANGED <<content, todo, classes>>, MadeFor(R)',
         Top.type.name \in R => policy = "INCLUDE_MISSING" /\ Top.type.name \notin DOMAIN resolved'
  PROVE  KeptFor(R, K)'
<1>1. CASE policy = "IGNORE_MISSING"
  <2>1. Caches("Remove")
    BY <1>1, Missing
  <2> QED
    BY <1>1, <2>1, CachesL
<1>2. CASE policy = "INCLUDE_MISSING"
  <2>1. /\ Becomes(Top') /\ cache' = cache /\ Top'.kind = "map" /\ Top'.type = Top.type
    BY <1>2, Missing DEF Becomes
  <2>2. /\ Among(stack) = {Top} \cup Among(Tail(stack)) /\ Among(stack') = {Top'} \cup Among(Tail(stack))
        /\ answer' = "none"
    BY <2>1 DEF Becomes
  <2>3. CachedFor(R, K)' /\ ToldFor(R)' /\ SearchedFor(R)'
    BY <2>1, <2>2 DEF KeptFor, CachedFor, ToldFor, SearchedFor
  <2>4. AttendedFor(R, K)' /\ NestedFor(R)'
    BY <2>1, <2>2 DEF KeptFor, AttendedFor, NestedFor
  <2> QED
    BY <2>3, <2>4 DEF KeptFor
<1> QED
  BY <1>1, <1>2 DEF Sparing

\* A call of resolve loses nothing.
LEMMA CallingL ==
  ASSUME NEW R, NEW K, KeptFor(R, K), NEW c \in Names, NEW m, Calling(c, m),
         UNCHANGED <<content, todo, classes, resolved, found, cache>>
  PROVE  KeptFor(R, K)'
<1>1. ClassFrame(c).kind = "class" /\ ~ClassFrame(c).lost
  BY NewCalls
<1>2. PICK f : /\ f.kind = "map" /\ f.type = Top.type /\ answer' = "none" /\ Top' = ClassFrame(c)
               /\ Among(stack) = {Top} \cup Among(Tail(stack))
               /\ Among(stack') = {ClassFrame(c), f} \cup Among(Tail(stack))
  BY DEF Calling
<1>3. CachedFor(R, K)' /\ MadeFor(R)' /\ ToldFor(R)'
  BY <1>2 DEF KeptFor, CachedFor, MadeFor, ToldFor
<1>4. SearchedFor(R)'
  BY <1>1, <1>2 DEF SearchedFor
<1>5. AttendedFor(R, K)' /\ NestedFor(R)'
  BY <1>1, <1>2 DEF KeptFor, AttendedFor, NestedFor
<1> QED
  BY <1>3, <1>4, <1>5 DEF KeptFor

\* A call of map loses nothing, nor does the visit of a filtered class.
LEMMA BeginsL ==
  ASSUME NEW R, NEW K, KeptFor(R, K), NEW t, Begins(t),
         UNCHANGED <<content, classes, resolved, found, cache>>,
         todo' = todo \/ todo' = todo \ {t.name}
  PROVE  KeptFor(R, K)'
<1>1. /\ MapFrame(t).kind = "map" /\ MapFrame(t).stage = "can" /\ MapFrame(t).type = t
  BY DEF MapFrame
<1>2. /\ answer' = "none" /\ Top' = MapFrame(t) /\ Among(stack') = {MapFrame(t)} \cup Among(stack)
  BY DEF Begins
<1>3. CachedFor(R, K)' /\ MadeFor(R)' /\ ToldFor(R)'
  BY <1>2 DEF KeptFor, CachedFor, MadeFor, ToldFor
<1>4. SearchedFor(R)'
  BY <1>1, <1>2 DEF SearchedFor
<1>5. AttendedFor(R, K)' /\ NestedFor(R)'
  BY <1>1, <1>2 DEF KeptFor, AttendedFor, NestedFor
<1> QED
  BY <1>3, <1>4, <1>5 DEF KeptFor

LEMMA VisitL ==
  ASSUME IInv, SInv, NEW R, NEW K, KeptFor(R, K), NEW c \in Names, Visit(c)
  PROVE  KeptFor(R, K)'
<1>1. /\ stack = <<>> /\ Map(<<>>, Plain(c)) /\ todo' = todo \ {c}
      /\ UNCHANGED <<content, classes, resolved, found, cache, made>>
  BY DEF Visit
<1>2. Plain(c).name = c
  BY TypeKinds
<1>3. CASE stack' = <<>> /\ Plain(c) \in DOMAIN cache /\ answer' = cache[Plain(c)]
  <2>1. c \in R => c \in K
    BY <1>2, <1>3 DEF KeptFor, CachedFor
  <2> QED
    BY <1>1, <1>3, <2>1 DEF KeptFor, CachedFor, MadeFor, SearchedFor, ToldFor, AttendedFor, NestedFor
<1>4. CASE Begins(Plain(c))
  BY <1>1, <1>2, <1>4, BeginsL
<1> QED
  BY <1>1, <1>3, <1>4, Visiting

LEMMA CanResolveL ==
  ASSUME IInv, SInv, policy \in Sparing, KeptFor(Spared, Known), NEW R, R = Spared,
         NEW K, KeptFor(R, K), R \cap Known \subseteq K, CanResolve
  PROVE  KeptFor(R, K)'
<1> DEFINE c == Top.type.name
<1>1. /\ Running("map", "can") /\ phase # "parsing"
      /\ UNCHANGED <<phase, policy, content, todo, classes, resolved, found, made, prepared>>
  BY DEF CanResolve, Running
<1>2. MadeFor(R)'
  BY <1>1 DEF KeptFor, MadeFor
<1>3. CASE Knows(c) = "yes" /\ Caches("Unchanged")
  <2>1. Top.type \in Types
    BY <1>1, TopMap
  <2>2. c \in Known
    BY <1>3, <2>1, TypeNames, KnownIfYes
  <2> QED
    BY <1>1, <1>2, <1>3, <2>2, CachesL
<1>4. CASE Knows(c) = "no" /\ OnMissing
  <2>1. c \in R => /\ c \in Available /\ HasContent(content[c])
                   /\ c \in DOMAIN resolved => NotEmpty(resolved[c])
    BY <1>1, SparedIs DEF KeptFor, MadeFor
  <2>2. c \in R => c \notin DOMAIN resolved /\ c \notin classes
    BY <1>4, <2>1 DEF Knows
  <2>3. c \in R => policy = "INCLUDE_MISSING"
    BY <2>1, <2>2 DEF Available, Sparing
  <2> QED
    BY <1>1, <1>2, <1>4, <2>2, <2>3, MissingL
<1>5. CASE c \in Names /\ Calling(c, Plain(c)) /\ cache' = cache
  <2>1. PICK d \in Names : Calling(d, Plain(d))
    BY <1>5
  <2> QED
    BY <1>1, <1>5, <2>1, CallingL
<1> QED
  BY <1>3, <1>4, <1>5, Deciding

LEMMA CanResolvedL ==
  ASSUME IInv, SInv, BInv, policy \in Sparing, NEW R, NEW K, KeptFor(R, K), K = Known', CanResolved
  PROVE  KeptFor(R, K)'
<1> DEFINE c == Top.type.name
<1>1. /\ Running("map", "can") /\ answer # "none" /\ stack # <<>> /\ Top.kind = "map"
      /\ UNCHANGED <<phase, policy, content, todo, classes, found, made, prepared>>
      /\ resolved' = IF answer = "class" THEN Put(resolved, c, made) ELSE resolved
  <2>1. Running("map", "can")
    BY DEF CanResolved
  <2> QED
    BY <2>1, TopMap DEF CanResolved
<1>2. c \in R => answer = "class" /\ NotEmpty(made)
  BY <1>1 DEF KeptFor, ToldFor
<1>3. MadeFor(R)'
  <2>1. \A d \in DOMAIN resolved' : resolved'[d] = IF d = c /\ answer = "class" THEN made ELSE resolved[d]
    BY <1>1 DEF Put
  <2>2. \A d \in DOMAIN resolved' : d \in DOMAIN resolved \/ (d = c /\ answer = "class")
    BY <1>1 DEF Put
  <2> QED
    BY <1>1, <1>2, <2>1, <2>2 DEF KeptFor, MadeFor
<1>4. CASE answer = "class" /\ NotEmpty(made) /\ Caches("Unchanged")
  <2>1. c \in K
    BY <1>1, <1>4 DEF Known, Usable, Put
  <2> QED
    BY <1>1, <1>3, <1>4, <2>1, CachesL
<1>5. CASE c \notin R /\ OnMissing
  BY <1>1, <1>3, <1>5, MissingL
<1>6. answer # "Throw"
  BY DEF BInv, Thrown, Sparing
<1> QED
  BY <1>2, <1>4, <1>5, <1>6, Decided

\* The class is included, or not, as r.
LEMMA IncludeL ==
  ASSUME SInv, NEW R, NEW K, KeptFor(R, K), NEW g, Running("map", g), K = Known',
         NEW r, Include(Top.type.name, r), UNCHANGED <<content, todo>>,
         Top.type.name \in R => NotEmpty(r),
         \A c \in R \cap DOMAIN found' : NotEmpty(found'[c])
  PROVE  KeptFor(R, K)'
<1> DEFINE c == Top.type.name
<1>1. CASE NotEmpty(r) /\ resolved' = Put(resolved, c, r) /\ classes' = classes \cup {c} /\ Caches("Unchanged")
  <2>1. c \in K
    BY <1>1 DEF Known, Usable, Put
  <2>2. MadeFor(R)'
    BY <1>1 DEF KeptFor, MadeFor, Put
  <2> QED
    BY <1>1, <2>1, <2>2, CachesL
<1>2. CASE ~NotEmpty(r) /\ resolved' = resolved /\ classes' = classes /\ Caches("Remove")
  <2>1. MadeFor(R)'
    BY <1>2 DEF KeptFor, MadeFor
  <2> QED
    BY <1>2, <2>1, CachesL
<1> QED
  BY <1>1, <1>2, Including

LEMMA IncludeMissingL ==
  ASSUME IInv, SInv, NEW R, R = Spared, NEW K, KeptFor(R, K), K = Known', IncludeMissing
  PROVE  KeptFor(R, K)'
<1> DEFINE c == Top.type.name
<1>1. /\ Running("map", "include") /\ answer = "none" /\ phase # "parsing"
      /\ UNCHANGED <<phase, policy, content, todo, found, made, prepared>>
  BY DEF IncludeMissing, Running
<1>2. stack # <<>> /\ Top.kind = "map" /\ Top.stage = "include"
  BY <1>1, TopMap
<1>3. CASE /\ c \in DOMAIN resolved \/ (c \notin DOMAIN found /\ ~Declared(c))
           /\ Caches("Remove") /\ UNCHANGED <<resolved, classes, inProgress>>
  <2>1. c \in R => Declared(c)
    BY <1>1, SparedIs DEF Declared
  <2>2. c \in R => c \notin DOMAIN resolved
    BY <1>1, <1>2 DEF KeptFor, SearchedFor
  <2>3. CASE c \notin R
    <3>1. MadeFor(R)'
      BY <1>1, <1>3 DEF KeptFor, MadeFor
    <3> QED
      BY <1>1, <1>3, <2>3, <3>1, CachesL
  <2>4. CASE c \in R
    <3>1. Caches("Remove") /\ c \in DOMAIN found
      BY <1>3, <2>1, <2>2, <2>4
    <3>2. FALSE
      BY <1>3, <2>1, <2>2, <2>4
    <3> QED
      BY <3>2
  <2> QED
    BY <2>3, <2>4
<1>4. CASE c \in DOMAIN found /\ Include(c, found[c])
  <2>1. \A d \in R \cap DOMAIN found : NotEmpty(found[d])
    BY DEF KeptFor, MadeFor
  <2> QED
    BY <1>1, <1>4, <2>1, IncludeL
<1>5. CASE c \in Names /\ Calling(c, Top.type) /\ UNCHANGED <<cache, resolved, classes>>
  <2>1. PICK d \in Names : Calling(d, Top.type)
    BY <1>5
  <2>2. PICK m : m = Top.type
    OBVIOUS
  <2> QED
    BY <1>1, <1>5, <2>1, <2>2, CallingL
<1> QED
  BY <1>3, <1>4, <1>5, Searching

LEMMA IncludedL ==
  ASSUME IInv, SInv, NEW R, NEW K, KeptFor(R, K), K = Known', Included
  PROVE  KeptFor(R, K)'
<1> DEFINE c == Top.type.name
<1>1. /\ Running("map", "include") /\ answer # "none"
      /\ UNCHANGED <<phase, policy, content, todo, made, prepared>>
  BY DEF Included
<1>2. stack # <<>> /\ Top.kind = "map"
  BY <1>1, TopMap
<1>3. c \in R => answer = "class" /\ NotEmpty(made)
  BY <1>1, <1>2 DEF KeptFor, ToldFor
<1>4. CASE answer = "class" /\ found' = Put(found, c, made) /\ Include(c, made)
  <2>1. \A d \in DOMAIN found' : IF d = c THEN found'[d] = made
                                 ELSE d \in DOMAIN found /\ found'[d] = found[d]
    BY <1>4 DEF Put
  <2>2. \A d \in R \cap DOMAIN found' : NotEmpty(found'[d])
    BY <1>3, <2>1 DEF KeptFor, MadeFor
  <2> QED
    BY <1>1, <1>3, <1>4, <2>2, IncludeL
<1>5. CASE answer # "class" /\ Caches("Remove") /\ UNCHANGED <<found, resolved, classes>>
  <2>1. MadeFor(R)'
    BY <1>5 DEF KeptFor, MadeFor
  <2> QED
    BY <1>1, <1>3, <1>5, <2>1, CachesL
<1> QED
  BY <1>4, <1>5, Searched

\* resolve on a class returns.
LEMMA ClassEndsL ==
  ASSUME NEW R, NEW K, KeptFor(R, K), NEW v \in ClassAnswers, ClassEnds(v),
         UNCHANGED <<content, todo, classes, resolved, found, cache>>,
         Top.cls \in R => v = "class" /\ NotEmpty(made')
  PROVE  KeptFor(R, K)'
<1>1. /\ Top.kind = "class" /\ Among(stack) = {Top} \cup Among(stack') /\ answer' = v
      /\ stack' # <<>> /\ Top'.kind = "map" /\ Top'.type.name = Top.cls
  BY DEF ClassEnds
<1>2. CachedFor(R, K)' /\ MadeFor(R)'
  BY DEF KeptFor, CachedFor, MadeFor
<1>3. ToldFor(R)'
  BY <1>1 DEF ToldFor
<1>4. AttendedFor(R, K)' /\ NestedFor(R)'
  BY <1>1 DEF KeptFor, AttendedFor, NestedFor
<1>5. SearchedFor(R)'
  BY <1>1 DEF SearchedFor, ClassAnswers
<1> QED
  BY <1>2, <1>3, <1>4, <1>5 DEF KeptFor

LEMMA AskL ==
  ASSUME IInv, SInv, NEW R, R = Spared, NEW K, KeptFor(R, K), Ask
  PROVE  KeptFor(R, K)'
<1> DEFINE k == content[Top.cls]
<1>1. /\ Running("class", "resolve") /\ answer = "none" /\ phase # "parsing"
      /\ UNCHANGED <<phase, policy, content, todo, classes, resolved, inProgress, cache, found, prepared>>
  BY DEF Ask, Running
<1>2. stack # <<>> /\ Top.kind = "class" /\ Top \in Among(stack)
  BY <1>1, TopClass
<1>3. CASE stack' = stack /\ Asking(Top) \in DOMAIN cache /\ answer' = cache[Asking(Top)] /\ Top' = Top
           /\ made' = made
  <2>1. Asking(Top).name \in R => answer' = "Unchanged"
    BY <1>3 DEF KeptFor, CachedFor
  <2>2. Asking(Top)' = Asking(Top)
    BY <1>1, <1>3 DEF Asking
  <2>3. ToldFor(R)' /\ SearchedFor(R)'
    BY <1>2, <1>3, <2>1, <2>2 DEF ToldFor, SearchedFor
  <2> QED
    BY <1>1, <1>3, <2>3 DEF KeptFor, CachedFor, MadeFor, AttendedFor, NestedFor
<1>4. CASE Begins(Asking(Top)) /\ made' = made
  <2>1. PICK t : t = Asking(Top)
    OBVIOUS
  <2> QED
    BY <1>1, <1>4, <2>1, BeginsL
<1>5. CASE Finish(Top, k.refs # <<>>) /\ ClassEnds("class")
  <2>1. Top.cls \in R => k.base # NoName \/ k.nested \in R \/ k.refs # <<>>
    BY <1>1, SparedIs
  <2>2. /\ made'.base = (k.base # NoName) /\ made'.method = (k.refs # <<>>)
        /\ made'.nested = (k.nested # NoName /\ ~Top.lost)
    BY <1>5 DEF Finish
  <2>3. k.nested \in R => k.nested # NoName /\ ~Top.lost
    BY <1>1, <1>2, SparedIs, ResolverAssumption DEF KeptFor, NestedFor
  <2>4. Top.cls \in R => NotEmpty(made')
    BY <2>1, <2>2, <2>3 DEF NotEmpty
  <2> QED
    BY <1>1, <1>5, <2>4, ClassEndsL DEF ClassAnswers
<1> QED
  BY <1>3, <1>4, <1>5, AskingOn

LEMMA AskedL ==
  ASSUME IInv, SInv, BInv, policy \in Sparing, NEW R, R = Spared, NEW K, KeptFor(R, K), Asked
  PROVE  KeptFor(R, K)'
<1> DEFINE k == content[Top.cls]
<1>0. PICK q : q = AsksOf(content, Top.cls)[Top.at]
  OBVIOUS
<1>1. /\ Running("class", "resolve") /\ answer # "none" /\ phase # "parsing"
      /\ UNCHANGED <<phase, policy, content, todo, classes, resolved, inProgress, cache, found>>
  BY DEF Asked, Running
<1>2. stack # <<>> /\ Top.kind = "class" /\ Top.cls \in Names /\ Top \in Among(stack)
  BY <1>1, TopClass
<1>3. q.type.name \in R => answer = "Unchanged"
  BY <1>0, <1>1, <1>2 DEF KeptFor, ToldFor, Asking
<1>4. /\ q.cls \in {Top.cls, k.nested} /\ q.role \in Roles /\ Reason(content[q.cls], q.cls, q)
      /\ answer \in MapAnswers /\ answer # "Throw"
  <2>1. answer # "Throw"
    BY DEF BInv, Thrown, Sparing
  <2> QED
    BY <1>0, <2>1, AskedIs DEF Questions
<1>5. k.nested \in R => k.nested # NoName /\ ~Top.lost
  BY <1>1, <1>2, SparedIs, ResolverAssumption DEF KeptFor, NestedFor
\* A class in R does not fail at its base class, or at itself.
<1>6. answer = "Remove" /\ q.role \in {"base", "self"} => q.cls \notin R
  <2>1. ASSUME q.role = "base", q.cls \in R PROVE q.type.name \in R
    <3>1. content[q.cls].base # NoName /\ q.type.name = content[q.cls].base
      BY <1>4, <2>1 DEF Reason, Plain
    <3> QED
      BY <1>1, <2>1, <3>1, SparedIs
  <2>2. ASSUME q.role = "self" PROVE q.type.name = q.cls
    BY <1>4, <2>2 DEF Reason, Plain
  <2> QED
    BY <1>3, <2>1, <2>2
<1>7. ASSUME NEW f, GoesOnAs(f), f.lost => Top.lost \/ k.nested \notin R PROVE KeptFor(R, K)'
  <2>1. /\ f.kind = "class" /\ f.cls = Top.cls /\ Top' = f /\ answer' = "none"
        /\ Among(stack) = {Top} \cup Among(Tail(stack)) /\ Among(stack') = {f} \cup Among(Tail(stack))
    BY <1>1, <1>7, Going DEF GoesOnAs, Becomes
  <2>2. CachedFor(R, K)' /\ MadeFor(R)' /\ ToldFor(R)' /\ SearchedFor(R)'
    BY <1>1, <2>1 DEF KeptFor, CachedFor, MadeFor, ToldFor, SearchedFor
  <2>3. AttendedFor(R, K)'
    BY <1>1, <1>2, <2>1 DEF KeptFor, AttendedFor
  <2>4. NestedFor(R)'
    <3>1. content[f.cls].nested \in R => ~f.lost
      BY <1>5, <1>7, <2>1
    <3> QED
      BY <1>1, <2>1, <3>1 DEF KeptFor, NestedFor
  <2> QED
    BY <2>2, <2>3, <2>4 DEF KeptFor
<1>8. CASE answer = "Remove" /\ q.cls = Top.cls /\ q.role \in {"base", "self"}
  <2>1. Return(Tail(stack), "null")
    BY <1>0, <1>8, AskedIs
  <2>2. ClassEnds("null")
    BY <1>1, <2>1, EndingClass
  <2> QED
    BY <1>1, <1>6, <1>8, <2>2, ClassEndsL DEF ClassAnswers
<1>9. CASE answer = "Remove" /\ q.cls = Top.cls /\ q.role \notin {"base", "self"}
  <2>1. Finish(Top, q.role = "optional")
    BY <1>0, <1>9, AskedIs
  <2>2. ClassEnds("class")
    BY <1>1, <2>1, EndingClass DEF Finish
  <2>3. /\ made'.base = (k.base # NoName) /\ made'.method = (q.role = "optional")
        /\ made'.nested = (k.nested # NoName /\ ~Top.lost)
    BY <2>1 DEF Finish
  <2>4. ASSUME q.role = "needed", Top.cls \in R PROVE k.base # NoName \/ k.nested \in R
    <3>1. \/ q.type.name = Top.cls
          \/ \E j \in 1 .. k.needed : k.refs[j] # Native /\ q.type.name = k.refs[j].name
      BY <1>4, <1>9, <2>4 DEF Reason
    <3>2. PICK j \in 1 .. k.needed : k.refs[j] # Native /\ q.type.name = k.refs[j].name
      BY <1>3, <1>9, <2>4, <3>1
    <3>3. ~Holds(k.refs[j], R)
      BY <1>3, <1>9, <3>2 DEF Holds
    <3> QED
      BY <1>1, <2>4, <3>3, SparedIs
  <2>5. Top.cls \in R => NotEmpty(made')
    <3>1. CASE q.role = "optional"
      BY <2>3, <3>1 DEF NotEmpty
    <3>2. CASE q.role = "needed"
      BY <1>5, <2>3, <2>4, <3>2 DEF NotEmpty
    <3> QED
      BY <1>4, <1>9, <3>1, <3>2 DEF Roles
  <2> QED
    BY <1>1, <2>2, <2>5, ClassEndsL DEF ClassAnswers
<1>10. CASE answer = "Remove" /\ q.cls # Top.cls
  <2>1. PICK f : GoesOnAs(f) /\ (f.lost => q.role \in {"base", "self"})
    BY <1>0, <1>10, AskedIs
  <2>2. f.lost => k.nested \notin R
    BY <1>4, <1>6, <1>10, <2>1
  <2> QED
    BY <1>7, <2>1, <2>2
<1>11. CASE answer \in {"Opaque", "Unchanged"}
  <2>1. PICK f : GoesOnAs(f) /\ f.lost = Top.lost
    BY <1>0, <1>11, AskedIs
  <2> QED
    BY <1>7, <2>1
<1> QED
  BY <1>4, <1>8, <1>9, <1>10, <1>11 DEF MapAnswers, Mappings

\* What could be resolved is never given up.
LEMMA LStep == IInv /\ SInv /\ BInv /\ LInv /\ [Next]_vars => LInv'
<1> SUFFICES ASSUME IInv, SInv, BInv, LInv, [Next]_vars, policy' \in Sparing, phase' # "parsing"
             PROVE  KeptFor(Spared, Known)'
  BY DEF LInv
<1>1. policy' = policy /\ policy \in Sparing
  BY DEF Next, Step, Parse, ResolveAll, Visit, Visited, AllVisited, CanResolve, CanResolved,
         IncludeMissing, Included, Ask, Asked, Ended, vars
<1>2. CASE Parse
  BY <1>2 DEF Parse
<1>3. CASE ResolveAll
  <2>1. /\ stack' = <<>> /\ DOMAIN cache' = {} /\ DOMAIN resolved' = {} /\ DOMAIN found' = {}
        /\ todo' = classes'
    BY <1>3 DEF ResolveAll, SInv, Fresh
  <2>2. Among(stack') = {}
    BY <2>1, ChainEmpty
  <2> QED
    BY <2>1, <2>2 DEF KeptFor, CachedFor, MadeFor, SearchedFor, ToldFor, AttendedFor, NestedFor
<1>4. CASE Ended \/ UNCHANGED vars
  <2>1. UNCHANGED vars
    BY <1>4 DEF Ended
  <2>2. KeptFor(Spared, Known)
    BY <1>1, <2>1 DEF LInv, vars
  <2>3. PICK R, K : R = Spared /\ K = Known
    OBVIOUS
  <2>4. R = Spared' /\ K = Known'
    <3>1. Available' = Available
      BY <2>1 DEF Available, vars
    <3> QED
      BY <2>1, <2>3, <3>1 DEF Spared, Known, Usable, vars
  <2>5. Top' = Top /\ Asking(Top)' = Asking(Top)
    BY <2>1 DEF Asking, Top, vars
  <2>6. KeptFor(R, K)
    BY <2>2, <2>3
  <2>7. KeptFor(R, K)'
    BY <2>1, <2>5, <2>6 DEF KeptFor, CachedFor, MadeFor, SearchedFor, ToldFor, AttendedFor,
                     NestedFor, vars
  <2> QED
    BY <2>4, <2>7
<1>5. CASE Step
  <2>1. phase # "parsing" /\ content' = content
    BY <1>5 DEF Step, Visit, Visited, AllVisited, CanResolve, CanResolved, IncludeMissing, Included,
                Ask, Asked, Running
  <2>2. KeptFor(Spared, Known)
    BY <1>1, <2>1 DEF LInv
  <2>3. Available' = Available
    <3>1. CASE policy = "INCLUDE_MISSING"
      BY <1>1, <3>1 DEF Available
    <3>2. CASE policy # "INCLUDE_MISSING"
      <4>1. ~(IncludeMissing \/ Included)
        BY <3>2, SearchesOnlyToInclude DEF IncludeMissing, Included
      <4>2. classes' = classes
        BY <1>5, <4>1 DEF Step, Visit, Visited, AllVisited, CanResolve, CanResolved, Ask, Asked
      <4> QED
        BY <1>1, <4>2 DEF Available
    <3> QED
      BY <3>1, <3>2
  <2>4. PICK R : R = Spared
    OBVIOUS
  <2>5. R = Spared'
    BY <2>1, <2>3, <2>4 DEF Spared
  <2>6. PICK K : K = Known'
    OBVIOUS
  <2>7. R \cap Known \subseteq K
    BY <1>1, <1>5, <2>2, <2>4, <2>6, KnownKept
  <2>8. KeptFor(R, K)
    BY <2>2, <2>4, <2>7, KeptForMore
  <2>9. KeptFor(R, K)'
    <3>1. CASE Visited \/ AllVisited
      <4>1. /\ stack = <<>> /\ stack' = <<>>
            /\ UNCHANGED <<content, todo, classes, resolved, cache, found>>
        BY <3>1 DEF Visited, AllVisited
      <4> QED
        BY <2>8, <4>1 DEF KeptFor, CachedFor, MadeFor, SearchedFor, ToldFor, AttendedFor, NestedFor
    <3>2. CASE \E c \in Names : Visit(c)
      BY <2>8, <3>2, VisitL
    <3>3. CASE CanResolve
      BY <1>1, <2>2, <2>4, <2>7, <2>8, <3>3, CanResolveL
    <3>4. CASE CanResolved
      BY <1>1, <2>6, <2>8, <3>4, CanResolvedL
    <3>5. CASE IncludeMissing
      BY <2>4, <2>6, <2>8, <3>5, IncludeMissingL
    <3>6. CASE Included
      BY <2>6, <2>8, <3>6, IncludedL
    <3>7. CASE Ask
      BY <2>4, <2>8, <3>7, AskL
    <3>8. CASE Asked
      BY <1>1, <2>4, <2>8, <3>8, AskedL
    <3> QED
      BY <1>5, <3>1, <3>2, <3>3, <3>4, <3>5, <3>6, <3>7, <3>8 DEF Step
  <2> QED
    BY <2>5, <2>6, <2>9
<1> QED
  BY <1>2, <1>3, <1>4, <1>5 DEF Next

LEMMA LInit == Init => LInv
BY DEF Init, LInv

\* Every filtered class that the reference definition says can be resolved
\* comes out, whatever cycles lead to it and in whatever order the classes are
\* visited; under THROW_MISSING, unless resolveAll fails.
THEOREM NothingIsLost == Spec => []NothingLost
<1>1. IInv /\ SInv /\ BInv /\ TInv /\ LInv => NothingLost
  <2> SUFFICES ASSUME IInv, SInv, BInv, TInv, LInv, phase = "done", policy # "OPAQUE_MISSING",
                      NEW c \in Resolvable(Available) \cap classes
               PROVE  c \in Usable
    BY DEF NothingLost
  <2>1. todo = {} /\ stack = <<>> /\ answer = "none"
    BY DEF SInv
  <2>2. inProgress = {} /\ Among(stack) = {}
    BY <2>1, IInvMarks, ChainEmpty DEF MarksAreTakenBack
  <2>3. Known = Usable
    BY <2>2 DEF Known
  <2>4. CASE policy = "THROW_MISSING"
    <3>1. FoundIn(Usable)
      BY <2>1, <2>3, <2>4 DEF TInv, Thrown
    <3> QED
      BY <2>1, <2>2, <3>1 DEF FoundIn, Attended
  <2>5. CASE policy \in Sparing
    <3>1. KeptFor(Spared, Usable)
      BY <2>1, <2>3, <2>5 DEF LInv
    <3>2. c \in Spared
      BY ResolvableIs DEF Spared
    <3> QED
      BY <2>1, <2>2, <3>1, <3>2 DEF KeptFor, AttendedFor
  <2> QED
    BY <2>4, <2>5 DEF IInv, AllPolicies, Sparing
<1> QED
  BY <1>1, InitInv, StepInv, InitOK, StepOK, BInit, BStep, TInit, TStep, LInit, LStep, PTL DEF Spec

-----------------------------------------------------------------------------
(* Without INCLUDE_MISSING: a class that comes out, and is nested in no other, *)
(* was resolved once.                                                          *)

\* c will be resolved, or is; it is not decided what it becomes.
Opened(c) == c \in classes /\ HasContent(content[c]) /\ c \notin DOMAIN resolved

\* The type t is missing, and so is the base class of a class c, which
\* therefore will never be there.
Gone(t) == t \in DOMAIN cache /\ cache[t] = "Remove"
Dead(c) == content[c].base # NoName /\ Gone(Plain(content[c].base))

\* No two calls in s are about one class.
Apart(s) ==
  \A i, j \in 1 .. Len(s) : i < j /\ s[i].kind = "class" /\ s[j].kind = "class" => s[i].cls # s[j].cls

\* The class c is being resolved, in one of the calls in S.
ResolvedIn(S, c) == \E f \in S : f.kind = "class" /\ f.cls = c

\* Which classes are nested in others was decided when they were parsed.
LEMMA AloneStays == content' = content => \A d : Alone(d)' <=> Alone(d)
BY DEF Alone

\* A call of resolve is about a marked class, and, if that is nested in no
\* other, the first since anything was added to it; a call of map is for a
\* type not known to be missing.
OneByOne ==
  \A f \in Among(stack) :
    IF f.kind = "class"
      THEN /\ f.cls \in Names /\ Plain(f.cls) \in inProgress /\ Opened(f.cls)
           /\ Alone(f.cls) =>
                IF f.at = 1 THEN prepared[f.cls] = 0 \/ Dead(f.cls) ELSE prepared[f.cls] = 1
      ELSE ~Gone(f.type)

\* What the innermost call has got: a class resolved once, none because its
\* base class is missing, or what is cached.
ToldOnce ==
  stack # <<>> /\ answer # "none" =>
    IF Top.kind = "map"
      THEN LET c == Top.type.name
           IN  /\ ~ResolvedIn(Among(stack), c) /\ Opened(c)
               /\ IF answer = "class" THEN Alone(c) => prepared[c] = 1 ELSE Dead(c)
      ELSE Asking(Top) \in DOMAIN cache /\ cache[Asking(Top)] = answer

\* A class that is missing, and not decided, has no base class; one that
\* something was added to is decided, under way, or has no base class.
MissingOnce == \A c \in Names : Gone(Plain(c)) /\ Opened(c) => Dead(c)
AddedOnce ==
  \A c \in Names : Alone(c) => \/ c \in DOMAIN resolved \/ prepared[c] = 0 \/ Dead(c)
                               \/ ResolvedIn(Among(stack), c)
                               \/ stack # <<>> /\ answer = "class" /\ Top.type.name = c

OnceEach == Apart(stack) /\ OneByOne /\ ToldOnce /\ MissingOnce /\ AddedOnce
AllOnce == \A c \in DOMAIN resolved : Alone(c) => prepared[c] = 1

NInv ==
  policy # "INCLUDE_MISSING" /\ phase # "parsing" => AllOnce /\ (~Thrown => OnceEach)

\* When the innermost call returns the others are about different classes.
LEMMA ApartPop ==
  ASSUME NEW k, NEW s, IsChain(s, k), s # <<>>, Apart(s)
  PROVE  /\ Apart(Tail(s))
         /\ Head(s).kind = "class" => ~ResolvedIn(Among(Tail(s)), Head(s).cls)
<1>1. s \in Seq(Calls)
  BY DEF IsChain
<1>2. /\ Tail(s) \in Seq(Calls) /\ Len(s) \in Nat /\ Len(s) >= 1 /\ Len(Tail(s)) = Len(s) - 1
      /\ \A i \in 1 .. Len(Tail(s)) : Tail(s)[i] = s[i + 1]
      /\ Head(s) = s[1]
  BY <1>1, HeadTailProperties
<1>3. Apart(Tail(s))
  <2>1. ASSUME NEW i \in 1 .. Len(Tail(s)), NEW j \in 1 .. Len(Tail(s)), i < j,
               Tail(s)[i].kind = "class", Tail(s)[j].kind = "class"
        PROVE  Tail(s)[i].cls # Tail(s)[j].cls
    <3>1. i + 1 \in 1 .. Len(s) /\ j + 1 \in 1 .. Len(s) /\ i + 1 < j + 1
      BY <1>2, <2>1
    <3> QED
      BY <1>2, <2>1, <3>1 DEF Apart
  <2> QED
    BY <2>1 DEF Apart
<1>4. ASSUME Head(s).kind = "class", NEW f \in Among(Tail(s)), f.kind = "class"
      PROVE  f.cls # Head(s).cls
  <2>1. PICK i \in 1 .. Len(Tail(s)) : f = Tail(s)[i]
    BY DEF Among
  <2>2. 1 \in 1 .. Len(s) /\ i + 1 \in 1 .. Len(s) /\ 1 < i + 1 /\ f = s[i + 1]
    BY <1>2, <2>1
  <2> QED
    BY <1>2, <1>4, <2>2 DEF Apart
<1> QED
  BY <1>3, <1>4 DEF ResolvedIn

\* A class that is not being resolved may be; a call of map is about none.
LEMMA ApartPush ==
  ASSUME NEW s \in Seq(Calls), Apart(s), NEW f \in Calls,
         f.kind = "class" => ~ResolvedIn(Among(s), f.cls)
  PROVE  Apart(<<f>> \o s) /\ <<f>> \o s \in Seq(Calls) /\ Among(<<f>> \o s) \subseteq {f} \cup Among(s)
<1> DEFINE t == <<f>> \o s
<1>2. /\ t \in Seq(Calls) /\ Len(s) \in Nat /\ Len(t) = Len(s) + 1
      /\ t[1] = f /\ \A i \in 1 .. Len(s) : t[i + 1] = s[i]
  OBVIOUS
<1> HIDE DEF t
<1>3. \A i \in 2 .. Len(t) : i - 1 \in 1 .. Len(s) /\ t[i] = s[i - 1] /\ t[i] \in Among(s)
  <2> SUFFICES ASSUME NEW i \in 2 .. Len(t) PROVE i - 1 \in 1 .. Len(s) /\ t[i] = s[i - 1] /\ t[i] \in Among(s)
    OBVIOUS
  <2>1. i - 1 \in 1 .. Len(s) /\ (i - 1) + 1 = i
    BY <1>2
  <2>2. t[i] = s[i - 1]
    BY <1>2, <2>1
  <2> QED
    BY <2>1, <2>2 DEF Among
<1>4. ASSUME NEW i \in 1 .. Len(t), NEW j \in 1 .. Len(t), i < j, t[i].kind = "class", t[j].kind = "class"
      PROVE  t[i].cls # t[j].cls
  <2>1. j \in 2 .. Len(t)
    BY <1>2, <1>4
  <2>2. CASE i = 1
    BY <1>2, <1>3, <1>4, <2>1, <2>2 DEF ResolvedIn
  <2>3. CASE i # 1
    <3>1. i \in 2 .. Len(t)
      BY <1>2, <2>3
    <3>2. i - 1 < j - 1 /\ i - 1 \in 1 .. Len(s) /\ j - 1 \in 1 .. Len(s)
      BY <1>3, <1>4, <2>1, <3>1
    <3>3. s[i - 1].kind = "class" /\ s[j - 1].kind = "class"
      BY <1>3, <1>4, <2>1, <3>1
    <3>4. s[i - 1].cls # s[j - 1].cls
      BY <3>2, <3>3 DEF Apart
    <3> QED
      BY <1>3, <2>1, <3>1, <3>4
  <2> QED
    BY <2>2, <2>3
<1>5. Among(t) \subseteq {f} \cup Among(s)
  <2>1. ASSUME NEW i \in 1 .. Len(t) PROVE t[i] \in {f} \cup Among(s)
    BY <1>2, <1>3
  <2> QED
    BY <2>1 DEF Among
<1> QED
  BY <1>2, <1>4, <1>5 DEF Apart, t

\* No calls are about no class.
LEMMA ApartEmpty == Apart(<<>>) /\ \A c : ~ResolvedIn({}, c)
<1>1. Len(<<>>) = 0
  OBVIOUS
<1> QED
  BY <1>1 DEF Apart, ResolvedIn

\* map returns and caches v: it has not cached anything else, and no call that
\* waits is for the same type, if that is missing.
LEMMA CachesN ==
  ASSUME SInv, OnceEach, NEW g, Running("map", g), NEW v, Caches(v), NEW c, c = Top.type.name,
         UNCHANGED <<content, classes, prepared>>, DOMAIN resolved \subseteq DOMAIN resolved',
         \A f \in Among(stack') : f.kind = "class" => Plain(f.cls) \in inProgress' /\ f.cls \notin DOMAIN resolved',
         v = "Remove" => ~ResolvedIn(Among(stack), c) /\ (Opened(c)' => Dead(c)),
         answer = "class" => c \in DOMAIN resolved'
  PROVE  OnceEach'
<1>1. /\ stack # <<>> /\ IsChain(stack, content) /\ Top.kind = "map" /\ Top \in Among(stack)
  BY TopMap
<1>2. /\ Among(stack) = {Top} \cup Among(stack') /\ stack' = Tail(stack) /\ answer' = v
      /\ stack' # <<>> => Top'.kind = "class" /\ Asking(Top)' = Top.type
      /\ DOMAIN cache' = DOMAIN cache \cup {Top.type} /\ cache'[Top.type] = v
      /\ \A t \in DOMAIN cache : t # Top.type => cache'[t] = cache[t]
  BY DEF Caches, Ends
<1>3. ~Gone(Top.type)
  BY <1>1 DEF OnceEach, OneByOne
<1>4. \A t : Gone(t) => Gone(t)'
  BY <1>2, <1>3 DEF Gone
<1>5. \A t : Gone(t)' => Gone(t) \/ (t = Top.type /\ v = "Remove")
  BY <1>2 DEF Gone
<1>6. \A d : (Dead(d) => Dead(d)') /\ (Alone(d)' <=> Alone(d))
  BY <1>4, AloneStays DEF Dead
<1>7. \A d : Opened(d)' => Opened(d)
  BY DEF Opened
<1>8. Apart(stack')
  BY <1>1, <1>2, ApartPop DEF OnceEach
<1>9. OneByOne'
  <2>1. ASSUME NEW f \in Among(stack'), f.kind = "class"
        PROVE  /\ f.cls \in Names /\ Plain(f.cls) \in inProgress' /\ Opened(f.cls)'
               /\ Alone(f.cls)' =>
                    IF f.at = 1 THEN prepared'[f.cls] = 0 \/ Dead(f.cls)' ELSE prepared'[f.cls] = 1
    <3>1. /\ f.cls \in Names /\ Opened(f.cls)
          /\ Alone(f.cls) =>
               IF f.at = 1 THEN prepared[f.cls] = 0 \/ Dead(f.cls) ELSE prepared[f.cls] = 1
      BY <1>2, <2>1 DEF OnceEach, OneByOne
    <3>2. Plain(f.cls) \in inProgress' /\ f.cls \notin DOMAIN resolved'
      BY <2>1
    <3>3. Opened(f.cls)'
      BY <3>1, <3>2 DEF Opened
    <3> QED
      BY <1>6, <3>1, <3>2, <3>3
  <2>2. ASSUME NEW f \in Among(stack'), f.kind # "class" PROVE ~Gone(f.type)'
    <3>1. ~Gone(f.type) /\ f \in Calls
      <4>1. f \in Among(stack)
        BY <1>2
      <4>2. \A h \in Among(stack) : h \in Calls
        BY <1>1 DEF Among, IsChain
      <4> QED
        BY <2>2, <4>1, <4>2 DEF OnceEach, OneByOne
    <3>2. f.kind = "map"
      BY <2>2, <3>1 DEF Calls, MapCalls, ClassCalls
    <3>3. ResolvedIn(Among(stack), f.type.name)
      BY <1>1, <1>2, <3>2, WaitsForClass DEF ResolvedIn
    <3>4. f.type = Top.type => v # "Remove"
      BY <3>3
    <3> QED
      BY <1>5, <3>1, <3>4
  <2> QED
    BY <2>1, <2>2 DEF OneByOne
<1>10. ToldOnce'
  <2>1. stack' # <<>> => /\ Top'.kind # "map" /\ Asking(Top)' \in DOMAIN cache'
                         /\ cache'[Asking(Top)'] = answer'
    BY <1>2
  <2> QED
    BY <2>1 DEF ToldOnce
<1>11. MissingOnce'
  <2>1. ASSUME NEW d \in Names, Gone(Plain(d))', Opened(d)' PROVE Dead(d)'
    <3>1. CASE Gone(Plain(d))
      BY <1>6, <1>7, <2>1, <3>1 DEF OnceEach, MissingOnce
    <3>2. CASE Plain(d) = Top.type /\ v = "Remove"
      <4>1. d = c
        BY <3>2 DEF Plain
      <4> QED
        BY <1>6, <2>1, <3>2, <4>1
    <3> QED
      BY <1>5, <2>1, <3>1, <3>2
  <2> QED
    BY <2>1 DEF MissingOnce
<1>12. AddedOnce'
  <2>1. ASSUME NEW d \in Names
        PROVE  Alone(d)' => d \in DOMAIN resolved' \/ prepared'[d] = 0 \/ Dead(d)' \/ ResolvedIn(Among(stack'), d)
    <3>1. ResolvedIn(Among(stack), d) => ResolvedIn(Among(stack'), d)
      BY <1>1, <1>2 DEF ResolvedIn
    <3> QED
      BY <1>6, <3>1 DEF OnceEach, AddedOnce
  <2> QED
    BY <2>1 DEF AddedOnce
<1> QED
  BY <1>8, <1>9, <1>10, <1>11, <1>12 DEF OnceEach

\* map is called.
LEMMA BeginsN ==
  ASSUME SInv, OnceEach, answer = "none", NEW t \in Types \ {Native}, Begins(t),
         UNCHANGED <<content, classes, resolved, inProgress, cache, prepared>>
  PROVE  OnceEach'
<1>1. MapFrame(t) \in Calls /\ MapFrame(t).kind = "map" /\ MapFrame(t).type = t
  BY NewCalls
<1>2. /\ t \notin DOMAIN cache /\ stack' = <<MapFrame(t)>> \o stack /\ answer' = "none"
      /\ Among(stack') = {MapFrame(t)} \cup Among(stack)
  BY DEF Begins
<1>3. stack \in Seq(Calls)
  BY DEF SInv, CallsOK, IsChain
<1>4. Apart(stack')
  BY <1>1, <1>2, <1>3, ApartPush DEF OnceEach
<1>5. \A s : Gone(s)' <=> Gone(s)
  BY DEF Gone
<1>6. \A d : (Dead(d)' <=> Dead(d)) /\ (Opened(d)' <=> Opened(d)) /\ (Alone(d)' <=> Alone(d))
  BY <1>5, AloneStays DEF Dead, Opened
<1>7. OneByOne'
  <2>1. ~Gone(t)
    BY <1>2 DEF Gone
  <2> QED
    BY <1>1, <1>2, <1>5, <1>6, <2>1 DEF OnceEach, OneByOne
<1>8. ToldOnce' /\ MissingOnce'
  BY <1>2, <1>5, <1>6 DEF OnceEach, ToldOnce, MissingOnce
<1>9. AddedOnce'
  <2>1. \A d : ResolvedIn(Among(stack), d) => ResolvedIn(Among(stack'), d)
    BY <1>2 DEF ResolvedIn
  <2> QED
    BY <1>6, <2>1 DEF OnceEach, AddedOnce
<1> QED
  BY <1>4, <1>7, <1>8, <1>9 DEF OnceEach

LEMMA VisitN ==
  ASSUME IInv, SInv, OnceEach, NEW c \in Names, Visit(c)
  PROVE  OnceEach'
<1>1. /\ stack = <<>> /\ answer = "none" /\ Map(<<>>, Plain(c))
      /\ UNCHANGED <<content, classes, resolved, inProgress, cache, prepared>>
  BY DEF Visit
<1>2. Plain(c) \in Types \ {Native}
  BY TypeKinds
<1>3. CASE stack' = <<>>
  <2>1. \A d : /\ (Dead(d)' <=> Dead(d)) /\ (Opened(d)' <=> Opened(d)) /\ (Gone(d)' <=> Gone(d))
              /\ (Alone(d)' <=> Alone(d))
    BY <1>1, AloneStays DEF Dead, Opened, Gone
  <2>2. Among(stack') = {} /\ Apart(stack') /\ Among(stack) = {}
    BY <1>1, <1>3, ChainEmpty, ApartEmpty
  <2>3. OneByOne' /\ ToldOnce' /\ MissingOnce'
    BY <1>3, <2>1, <2>2 DEF OnceEach, OneByOne, ToldOnce, MissingOnce
  <2>4. AddedOnce'
    BY <1>1, <2>1, <2>2 DEF OnceEach, AddedOnce
  <2> QED
    BY <2>2, <2>3, <2>4 DEF OnceEach
<1>4. CASE Begins(Plain(c))
  BY <1>1, <1>2, <1>4, BeginsN
<1> QED
  BY <1>1, <1>3, <1>4, Visiting

LEMMA CanResolveN ==
  ASSUME IInv, SInv, policy # "INCLUDE_MISSING", ~Thrown', OnceEach, CanResolve, NEW c, c = Top.type.name
  PROVE  OnceEach'
<1>1. /\ Running("map", "can") /\ answer = "none"
      /\ UNCHANGED <<phase, policy, content, todo, classes, resolved, found, made, prepared>>
  BY DEF CanResolve
<1>2. /\ stack # <<>> /\ IsChain(stack, content) /\ IsChain(Tail(stack), content) /\ Top.kind = "map"
      /\ Top = Head(stack) /\ Top \in Among(stack)
  BY <1>1, TopMap
<1>3. ASSUME inProgress' = inProgress, NEW v, Caches(v)
      PROVE  \A f \in Among(stack') : f.kind = "class" => Plain(f.cls) \in inProgress' /\ f.cls \notin DOMAIN resolved'
  <2>1. Among(stack') \subseteq Among(stack)
    BY <1>3 DEF Caches, Ends
  <2> QED
    BY <1>1, <1>3, <2>1 DEF OnceEach, OneByOne, Opened
<1>4. CASE Caches("Unchanged") /\ inProgress' = inProgress
  BY <1>1, <1>3, <1>4, CachesN
<1>5. Knows(c) # "yes" => ~ResolvedIn(Among(stack), c)
  BY DEF Knows, ResolvedIn, OnceEach, OneByOne
<1>6. CASE Knows(c) = "no" /\ OnMissing /\ inProgress' = inProgress
  <2>1. ~Opened(c)
    BY <1>6 DEF Knows, Opened
  <2>2. ~Opened(c)'
    BY <1>1, <2>1 DEF Opened
  <2>3. Caches("Remove") \/ Caches("Opaque")
    BY <1>1, <1>6, Missing DEF Ends, Thrown
  <2>4. CASE Caches("Remove")
    BY <1>1, <1>3, <1>5, <1>6, <2>2, <2>4, CachesN
  <2>5. CASE Caches("Opaque")
    BY <1>1, <1>3, <1>6, <2>5, CachesN
  <2> QED
    BY <2>3, <2>4, <2>5
<1>7. CASE /\ Knows(c) = "open" /\ c \in Names /\ Calling(c, Plain(c))
           /\ inProgress' = inProgress \cup {Plain(c)} /\ cache' = cache
  <2>1. /\ ClassFrame(c) \in Calls /\ ClassFrame(c).kind = "class" /\ ClassFrame(c).cls = c
        /\ ClassFrame(c).at = 1
    BY <1>7, NewCalls
  <2>2. PICK f : /\ f \in Calls /\ f.type = Top.type /\ f.kind = "map"
                 /\ stack' = <<ClassFrame(c)>> \o (<<f>> \o Tail(stack)) /\ answer' = "none"
                 /\ Among(stack) = {Top} \cup Among(Tail(stack))
                 /\ Among(stack') = {ClassFrame(c), f} \cup Among(Tail(stack))
    BY <1>7 DEF Calling
  <2>3. Opened(c) /\ ~ResolvedIn(Among(stack), c)
    BY <1>5, <1>7 DEF Knows, Opened
  <2>4. Apart(stack')
    <3>1. Tail(stack) \in Seq(Calls)
      BY <1>2 DEF IsChain
    <3>2. Apart(Tail(stack))
      BY <1>2, ApartPop DEF OnceEach
    <3>3. /\ Apart(<<f>> \o Tail(stack)) /\ <<f>> \o Tail(stack) \in Seq(Calls)
          /\ Among(<<f>> \o Tail(stack)) \subseteq {f} \cup Among(Tail(stack))
      BY <2>2, <3>1, <3>2, ApartPush
    <3>4. ~ResolvedIn(Among(<<f>> \o Tail(stack)), c)
      BY <2>2, <2>3, <3>3 DEF ResolvedIn
    <3> QED
      BY <2>1, <2>2, <3>3, <3>4, ApartPush
  <2>5. \A s : Gone(s)' <=> Gone(s)
    BY <1>7 DEF Gone
  <2>6. \A d : (Dead(d)' <=> Dead(d)) /\ (Opened(d)' <=> Opened(d)) /\ (Alone(d)' <=> Alone(d))
    BY <1>1, <2>5, AloneStays DEF Dead, Opened
  <2>7. Alone(c) => prepared[c] = 0 \/ Dead(c)
    BY <1>1, <1>7, <2>3 DEF OnceEach, AddedOnce, Opened
  <2>8. OneByOne'
    <3>1. ~Gone(f.type)'
      BY <1>2, <2>2, <2>5 DEF OnceEach, OneByOne
    <3>2. ASSUME NEW h \in Among(Tail(stack))
          PROVE  IF h.kind = "class"
                   THEN /\ h.cls \in Names /\ Plain(h.cls) \in inProgress' /\ Opened(h.cls)'
                        /\ Alone(h.cls)' =>
                             IF h.at = 1 THEN prepared'[h.cls] = 0 \/ Dead(h.cls)' ELSE prepared'[h.cls] = 1
                   ELSE ~Gone(h.type)'
      BY <1>1, <1>7, <2>2, <2>5, <2>6 DEF OnceEach, OneByOne
    <3> QED
      BY <1>1, <1>7, <2>1, <2>2, <2>3, <2>6, <2>7, <3>1, <3>2 DEF OneByOne
  <2>9. ToldOnce' /\ MissingOnce'
    BY <2>2, <2>5, <2>6 DEF OnceEach, ToldOnce, MissingOnce
  <2>10. AddedOnce'
    <3>1. \A d : ResolvedIn(Among(stack), d) => ResolvedIn(Among(stack'), d)
      BY <1>2, <2>2 DEF ResolvedIn
    <3> QED
      BY <1>1, <2>6, <3>1 DEF OnceEach, AddedOnce
  <2> QED
    BY <2>4, <2>8, <2>9, <2>10 DEF OnceEach
<1> QED
  BY <1>4, <1>6, <1>7, Deciding

LEMMA CanResolvedN ==
  ASSUME IInv, SInv, policy # "INCLUDE_MISSING", ~Thrown', OnceEach, CanResolved, NEW c, c = Top.type.name
  PROVE  OnceEach'
<1>1. /\ Running("map", "can") /\ answer # "none"
      /\ UNCHANGED <<phase, policy, content, todo, classes, found, made, prepared>>
  BY DEF CanResolved
<1>2. /\ Top.mark.name = c /\ inProgress' = inProgress \ {Top.mark} /\ c \in Names
      /\ resolved' = IF answer = "class" THEN Put(resolved, c, made) ELSE resolved
  BY Decided
<1>3. stack # <<>> /\ Top.kind = "map"
  BY <1>1, TopMap
<1>4. ~ResolvedIn(Among(stack), c) /\ (answer # "class" => Dead(c))
  BY <1>1, <1>3 DEF OnceEach, ToldOnce
<1>5. /\ DOMAIN resolved \subseteq DOMAIN resolved' /\ DOMAIN resolved' \subseteq DOMAIN resolved \cup {c}
      /\ answer = "class" => c \in DOMAIN resolved'
  BY <1>2 DEF Put
<1>6. ASSUME NEW v, Caches(v)
      PROVE  \A f \in Among(stack') : f.kind = "class" => Plain(f.cls) \in inProgress' /\ f.cls \notin DOMAIN resolved'
  <2>1. Among(stack') \subseteq Among(stack)
    BY <1>6 DEF Caches, Ends
  <2>2. ASSUME NEW f \in Among(stack), f.kind = "class"
        PROVE  Plain(f.cls) \in inProgress' /\ f.cls \notin DOMAIN resolved'
    <3>1. f.cls # c /\ Plain(f.cls) \in inProgress /\ f.cls \notin DOMAIN resolved
      BY <1>4, <2>2 DEF ResolvedIn, OnceEach, OneByOne, Opened
    <3>2. Plain(f.cls) # Top.mark
      BY <1>2, <3>1 DEF Plain
    <3> QED
      BY <1>2, <1>5, <3>1, <3>2
  <2> QED
    BY <2>1, <2>2
<1>7. Opened(c)' => Dead(c)
  BY <1>4, <1>5 DEF Opened
<1>8. PICK v : Caches(v)
  <2>1. OnMissing => Caches("Remove") \/ Caches("Opaque")
    BY <1>1, Missing DEF Ends, Thrown
  <2>2. answer # "Throw"
    BY Decided DEF Ends, Thrown
  <2> QED
    BY <2>1, <2>2, Decided
<1> QED
  BY <1>1, <1>4, <1>5, <1>6, <1>7, <1>8, CachesN

\* resolve on a class returns: to a class that was resolved once, or to none
\* because its base class is missing.
LEMMA ClassEndsN ==
  ASSUME IInv, SInv, OnceEach, NEW g, Running("class", g), NEW v \in {"class", "null"}, ClassEnds(v),
         UNCHANGED <<content, classes, resolved, inProgress, cache>>, NEW c, c = Top.cls,
         \A d \in Names : d # c /\ Alone(d) => prepared'[d] = prepared[d],
         IF v = "class" THEN Alone(c) => prepared'[c] = 1 ELSE Dead(c)
  PROVE  OnceEach'
<1>1. /\ stack # <<>> /\ IsChain(stack, content) /\ Top.kind = "class" /\ Top \in Among(stack)
      /\ Top = Head(stack)
  BY TopClass
<1>2. /\ Among(stack) = {Top} \cup Among(stack') /\ stack' = Tail(stack) /\ answer' = v
      /\ stack' # <<>> /\ Top'.kind = "map" /\ Top'.type.name = c
  BY DEF ClassEnds
<1>3. Apart(stack') /\ ~ResolvedIn(Among(stack'), c)
  BY <1>1, <1>2, ApartPop DEF OnceEach
<1>4. \A s : Gone(s)' <=> Gone(s)
  BY DEF Gone
<1>5. \A d : (Dead(d)' <=> Dead(d)) /\ (Opened(d)' <=> Opened(d)) /\ (Alone(d)' <=> Alone(d))
  BY <1>4, AloneStays DEF Dead, Opened
<1>6. OneByOne'
  <2>1. ASSUME NEW f \in Among(stack')
        PROVE  IF f.kind = "class"
                 THEN /\ f.cls \in Names /\ Plain(f.cls) \in inProgress' /\ Opened(f.cls)'
                      /\ Alone(f.cls)' =>
                           IF f.at = 1 THEN prepared'[f.cls] = 0 \/ Dead(f.cls)' ELSE prepared'[f.cls] = 1
                 ELSE ~Gone(f.type)'
    <3>1. IF f.kind = "class"
            THEN /\ f.cls \in Names /\ Plain(f.cls) \in inProgress /\ Opened(f.cls)
                 /\ Alone(f.cls) =>
                      IF f.at = 1 THEN prepared[f.cls] = 0 \/ Dead(f.cls) ELSE prepared[f.cls] = 1
            ELSE ~Gone(f.type)
      BY <1>2 DEF OnceEach, OneByOne
    <3>2. f.kind = "class" => f.cls # c
      BY <1>3 DEF ResolvedIn
    <3> QED
      BY <1>4, <1>5, <3>1, <3>2
  <2> QED
    BY <2>1 DEF OneByOne
<1>7. ToldOnce'
  <2>1. Opened(c)'
    BY <1>1, <1>5 DEF OnceEach, OneByOne
  <2> QED
    BY <1>2, <1>3, <1>5, <2>1 DEF ToldOnce
<1>8. MissingOnce'
  BY <1>4, <1>5 DEF OnceEach, MissingOnce
<1>9. AddedOnce'
  <2>1. ASSUME NEW d \in Names, d # c
        PROVE  Alone(d)' => d \in DOMAIN resolved' \/ prepared'[d] = 0 \/ Dead(d)' \/ ResolvedIn(Among(stack'), d)
    <3>1. ResolvedIn(Among(stack), d) => ResolvedIn(Among(stack'), d)
      BY <1>2, <2>1 DEF ResolvedIn
    <3>2. answer # "class"
      BY <1>1 DEF OnceEach, ToldOnce, IInv, Mappings
    <3> QED
      BY <1>5, <2>1, <3>1, <3>2 DEF OnceEach, AddedOnce
  <2>2. Dead(c)' \/ (stack' # <<>> /\ answer' = "class" /\ Top'.type.name = c)
    BY <1>2, <1>5
  <2> QED
    BY <2>1, <2>2 DEF AddedOnce
<1> QED
  BY <1>3, <1>6, <1>7, <1>8, <1>9 DEF OnceEach

LEMMA AskN ==
  ASSUME IInv, SInv, OnceEach, Ask
  PROVE  OnceEach'
<1>1. /\ Running("class", "resolve") /\ answer = "none"
      /\ UNCHANGED <<phase, policy, content, todo, classes, resolved, inProgress, cache, found, prepared>>
  BY DEF Ask
<1>2. stack # <<>> /\ Top.kind = "class" /\ Top.cls \in Names /\ Top \in Among(stack)
  BY <1>1, TopClass
<1>3. CASE stack' = stack /\ Asking(Top) \in DOMAIN cache /\ answer' = cache[Asking(Top)] /\ Top' = Top
  <2>1. \A d : /\ (Dead(d)' <=> Dead(d)) /\ (Opened(d)' <=> Opened(d)) /\ (Gone(d)' <=> Gone(d))
              /\ (Alone(d)' <=> Alone(d))
    BY <1>1, AloneStays DEF Dead, Opened, Gone
  <2>2. Asking(Top)' = Asking(Top)
    BY <1>1, <1>3 DEF Asking
  <2>3. ToldOnce'
    BY <1>1, <1>2, <1>3, <2>2 DEF ToldOnce
  <2>4. Apart(stack') /\ OneByOne' /\ MissingOnce'
    BY <1>1, <1>3, <2>1 DEF OnceEach, OneByOne, MissingOnce
  <2>5. AddedOnce'
    BY <1>1, <1>3, <2>1 DEF OnceEach, AddedOnce
  <2> QED
    BY <2>3, <2>4, <2>5 DEF OnceEach
<1>4. CASE Asking(Top) \in Types \ {Native} /\ Begins(Asking(Top))
  <2>1. PICK t \in Types \ {Native} : Begins(t)
    BY <1>4
  <2> QED
    BY <1>1, <2>1, BeginsN
<1>5. CASE Top.at > 1 /\ ClassEnds("class")
  <2>1. Alone(Top.cls) => prepared[Top.cls] = 1
    BY <1>2, <1>5 DEF OnceEach, OneByOne
  <2> QED
    BY <1>1, <1>5, <2>1, ClassEndsN
<1> QED
  BY <1>3, <1>4, <1>5, AskingOn

\* What an answer adds to: the class that asked first, and after that at most
\* the class nested in it.
LEMMA AskedAdds ==
  ASSUME IInv, SInv, Asked, NEW c, c = Top.cls, NEW q, q = AsksOf(content, c)[Top.at]
  PROVE  /\ prepared' = IF Opens(content, q) /\ answer # "Throw"
                          THEN [prepared EXCEPT ![q.cls] = @ + 1] ELSE prepared
         /\ Top.at = 1 => q.cls = c /\ Opens(content, q) /\ q.role \in {"base", "self"}
         /\ Alone(c) /\ Top.at # 1 => prepared'[c] = prepared[c]
         /\ \A d \in Names : d # c /\ Alone(d) => prepared'[d] = prepared[d]
<1>1. Running("class", "resolve") /\ answer # "none"
  BY DEF Asked
<1>2. /\ c \in Names /\ DOMAIN content = Names /\ \A d \in Names : content[d] \in Contents
      /\ Top.at \in Nat \ {0} /\ Top.at \in 1 .. Len(AsksOf(content, c))
  BY <1>1, TopClass
<1>3. prepared' = IF Opens(content, q) /\ answer # "Throw"
                    THEN [prepared EXCEPT ![q.cls] = @ + 1] ELSE prepared
  BY AsksAre DEF Asked
<1>4. PICK a : a = AsksOf(content, c)
  OBVIOUS
<1>5. /\ a[1].cls = c /\ Opens(content, a[1]) /\ Len(a) \in Nat
      /\ \A i \in 2 .. Len(a) : a[i].cls = c /\ content[c].nested # c => ~ Opens(content, a[i])
  BY <1>2, <1>4, AskFacts
<1>6. Top.at = 1 => q.cls = c /\ Opens(content, q) /\ q.role \in {"base", "self"}
  BY <1>4, <1>5 DEF Opens
<1>7. prepared \in [Names -> Nat]
  BY DEF SInv
<1>8. q.cls \in {c, content[c].nested} /\ q.cls \in Names
  BY AskedIs DEF Questions
<1>9. \A d : Alone(d) => content[c].nested # d
  BY <1>2 DEF Alone
<1>10. ASSUME Alone(c), Top.at # 1 PROVE prepared'[c] = prepared[c]
  <2>1. q.cls = c => ~ Opens(content, q)
    <3>1. Top.at \in 2 .. Len(a)
      BY <1>2, <1>4, <1>5, <1>10
    <3> QED
      BY <1>4, <1>5, <1>9, <1>10, <3>1
  <2> QED
    BY <1>2, <1>3, <1>7, <1>8, <2>1
<1>11. ASSUME NEW d \in Names, d # c, Alone(d) PROVE prepared'[d] = prepared[d]
  <2>1. q.cls # d
    BY <1>8, <1>9, <1>11
  <2> QED
    BY <1>3, <1>7, <1>8, <2>1
<1> QED
  BY <1>3, <1>6, <1>10, <1>11

LEMMA AskedN ==
  ASSUME IInv, SInv, ~Thrown', OnceEach, Asked
  PROVE  OnceEach'
<1>1. /\ Running("class", "resolve") /\ answer # "none"
      /\ UNCHANGED <<phase, policy, content, todo, classes, resolved, inProgress, cache, found>>
  BY DEF Asked
<1>2. PICK c : c = Top.cls
  OBVIOUS
<1>0. PICK q : q = AsksOf(content, c)[Top.at]
  OBVIOUS
<1>3. /\ stack # <<>> /\ Top.kind = "class" /\ c \in Names /\ Top \in Among(stack)
      /\ Top.at \in Nat \ {0} /\ IsChain(stack, content) /\ Top = Head(stack)
  BY <1>1, <1>2, TopClass
<1>4. q \in Questions(content, c) /\ answer \in MapAnswers
  BY <1>0, <1>2, AskedIs
<1>5. q.type \in DOMAIN cache /\ cache[q.type] = answer
  BY <1>0, <1>1, <1>2, <1>3 DEF OnceEach, ToldOnce, Asking
<1>6. /\ Opened(c)
      /\ Alone(c) => IF Top.at = 1 THEN prepared[c] = 0 \/ Dead(c) ELSE prepared[c] = 1
  BY <1>2, <1>3 DEF OnceEach, OneByOne
<1>7. /\ prepared' = IF Opens(content, q) /\ answer # "Throw"
                       THEN [prepared EXCEPT ![q.cls] = @ + 1] ELSE prepared
      /\ Top.at = 1 => q.cls = c /\ Opens(content, q) /\ q.role \in {"base", "self"}
      /\ Alone(c) /\ Top.at # 1 => prepared'[c] = prepared[c]
      /\ \A d \in Names : d # c /\ Alone(d) => prepared'[d] = prepared[d]
  BY <1>0, <1>2, AskedAdds
<1>8. answer = "Remove" /\ q.cls = c /\ q.role \in {"base", "self"} => Dead(c)
  <2>1. ASSUME answer = "Remove", q.cls = c, q.role = "base" PROVE Dead(c)
    BY <1>4, <1>5, <2>1 DEF Questions, Reason, Dead, Gone
  <2>2. ASSUME answer = "Remove", q.cls = c, q.role = "self" PROVE Dead(c)
    <3>1. q.type = Plain(c)
      BY <1>4, <2>2 DEF Questions, Reason
    <3> QED
      BY <1>3, <1>5, <1>6, <2>2, <3>1 DEF OnceEach, MissingOnce, Gone
  <2> QED
    BY <2>1, <2>2
<1>9. Top.at = 1 /\ Dead(c) => answer = "Remove"
  <2> SUFFICES ASSUME Top.at = 1, Dead(c) PROVE answer = "Remove"
    OBVIOUS
  <2>1. content[c].base # NoName
    BY DEF Dead
  <2>2. q.type = Plain(content[c].base)
    <3>1. q.role = "base"
      BY <1>7, <2>1 DEF Opens
    <3> QED
      BY <1>4, <1>7, <3>1 DEF Questions, Reason
  <2> QED
    BY <1>5, <2>2 DEF Dead, Gone
<1>10. prepared \in [Names -> Nat]
  BY DEF SInv
<1>12. CASE answer = "Throw"
  <2>1. ClassEnds("Throw")
    BY <1>12, Answering DEF Mappings
  <2> QED
    BY <2>1 DEF ClassEnds, Thrown
<1>13. CASE answer = "Remove" /\ q.cls = c /\ q.role \in {"base", "self"}
  <2>1. Return(Tail(stack), "null")
    BY <1>0, <1>2, <1>13, AskedIs
  <2>2. ClassEnds("null")
    BY <1>1, <2>1, EndingClass
  <2> QED
    BY <1>1, <1>2, <1>7, <1>8, <1>13, <2>2, ClassEndsN
<1>14. CASE answer = "Remove" /\ q.cls = c /\ q.role \notin {"base", "self"}
  <2>1. Finish(Top, q.role = "optional")
    BY <1>0, <1>2, <1>14, AskedIs
  <2>2. ClassEnds("class")
    BY <1>1, <2>1, EndingClass DEF Finish
  <2>3. Top.at # 1
    BY <1>7, <1>14
  <2>4. Alone(c) => prepared'[c] = 1
    BY <1>6, <1>7, <2>3
  <2> QED
    BY <1>1, <1>2, <1>7, <2>2, <2>4, ClassEndsN
<1>15. ASSUME NEW f, GoesOnAs(f), answer # "Throw", answer = "Remove" => q.cls # c PROVE OnceEach'
  <2>1. Becomes(f)
    BY <1>1, <1>15, Going
  <2>2. /\ f \in Calls /\ f.kind = "class" /\ f.cls = c /\ f.at # 1
        /\ stack' = <<f>> \o Tail(stack) /\ answer' = "none"
        /\ Among(stack) = {Top} \cup Among(Tail(stack)) /\ Among(stack') = {f} \cup Among(Tail(stack))
    <3>1. f \in ClassCalls /\ f.at > Top.at
      BY <1>15 DEF GoesOnAs
    <3>2. f.at # 1
      BY <1>3, <3>1 DEF ClassCalls
    <3> QED
      BY <1>2, <1>15, <2>1, <3>2 DEF GoesOnAs, Becomes
  <2>3. Alone(c) => prepared'[c] = 1
    <3>1. CASE Top.at = 1
      <4>1. Alone(c) => prepared[c] = 0
        BY <1>6, <1>7, <1>9, <1>15, <3>1
      <4> QED
        BY <1>3, <1>7, <1>10, <1>15, <3>1, <4>1
    <3>2. CASE Top.at # 1
      BY <1>6, <1>7, <3>2
    <3> QED
      BY <3>1, <3>2
  <2>4. Apart(Tail(stack)) /\ ~ResolvedIn(Among(Tail(stack)), c)
    BY <1>2, <1>3, ApartPop DEF OnceEach
  <2>5. Apart(stack')
    <3>1. Tail(stack) \in Seq(Calls)
      BY <1>3, ChainPop DEF IsChain
    <3> QED
      BY <2>2, <2>4, <3>1, ApartPush
  <2>6. \A s : Gone(s)' <=> Gone(s)
    BY <1>1 DEF Gone
  <2>7. \A d : (Dead(d)' <=> Dead(d)) /\ (Opened(d)' <=> Opened(d)) /\ (Alone(d)' <=> Alone(d))
    BY <1>1, <2>6, AloneStays DEF Dead, Opened
  <2>8. OneByOne'
    <3>1. ASSUME NEW h \in Among(Tail(stack))
          PROVE  IF h.kind = "class"
                   THEN /\ h.cls \in Names /\ Plain(h.cls) \in inProgress' /\ Opened(h.cls)'
                        /\ Alone(h.cls)' =>
                             IF h.at = 1 THEN prepared'[h.cls] = 0 \/ Dead(h.cls)' ELSE prepared'[h.cls] = 1
                   ELSE ~Gone(h.type)'
      <4>1. IF h.kind = "class"
              THEN /\ h.cls \in Names /\ Plain(h.cls) \in inProgress /\ Opened(h.cls)
                   /\ Alone(h.cls) =>
                        IF h.at = 1 THEN prepared[h.cls] = 0 \/ Dead(h.cls) ELSE prepared[h.cls] = 1
              ELSE ~Gone(h.type)
        BY <2>2 DEF OnceEach, OneByOne
      <4>2. h.kind = "class" => h.cls # c
        BY <2>4 DEF ResolvedIn
      <4> QED
        BY <1>1, <1>7, <2>6, <2>7, <4>1, <4>2
    <3>2. Plain(c) \in inProgress' /\ Opened(c)'
      BY <1>1, <1>2, <1>3, <1>6, <2>7 DEF OnceEach, OneByOne
    <3> QED
      BY <1>3, <2>2, <2>3, <2>7, <3>1, <3>2 DEF OneByOne
  <2>9. ToldOnce' /\ MissingOnce'
    BY <2>2, <2>6, <2>7 DEF OnceEach, ToldOnce, MissingOnce
  <2>10. AddedOnce'
    <3>1. \A d : ResolvedIn(Among(stack), d) => ResolvedIn(Among(stack'), d)
      BY <1>2, <2>2 DEF ResolvedIn
    <3>2. ResolvedIn(Among(stack'), c)
      BY <2>2 DEF ResolvedIn
    <3>3. answer # "class"
      BY <1>4 DEF MapAnswers, Mappings
    <3> QED
      BY <1>1, <1>7, <2>7, <3>1, <3>2, <3>3 DEF OnceEach, AddedOnce
  <2> QED
    BY <2>5, <2>8, <2>9, <2>10 DEF OnceEach
<1>16. CASE answer = "Remove" /\ q.cls # c
  <2>1. PICK f : GoesOnAs(f)
    BY <1>0, <1>2, <1>16, AskedIs
  <2> QED
    BY <1>15, <1>16, <2>1
<1>17. CASE answer \in {"Opaque", "Unchanged"}
  <2>1. PICK f : GoesOnAs(f)
    BY <1>0, <1>2, <1>17, AskedIs
  <2> QED
    BY <1>15, <1>17, <2>1
<1> QED
  BY <1>4, <1>12, <1>13, <1>14, <1>16, <1>17 DEF MapAnswers, Mappings

\* A class is recorded when it was resolved once, and nothing is added to it
\* afterwards, whether or not something is thrown.
LEMMA AllOnceStep ==
  ASSUME IInv, SInv, policy # "INCLUDE_MISSING", BInv, AllOnce, ~Thrown => OnceEach, Step
  PROVE  AllOnce'
<1>0. \A d : Alone(d)' <=> Alone(d)
  <2>1. content' = content
    BY DEF Step, Visit, Visited, AllVisited, CanResolve, CanResolved, IncludeMissing, Included, Ask, Asked
  <2> QED
    BY <2>1, AloneStays
<1>1. CASE CanResolved
  <2>1. /\ Running("map", "can") /\ answer # "none" /\ prepared' = prepared
        /\ resolved' = IF answer = "class" THEN Put(resolved, Top.type.name, made) ELSE resolved
    BY <1>1, Decided DEF CanResolved
  <2>2. stack # <<>> /\ Top.kind = "map" /\ phase = "resolving"
    BY <2>1, TopMap
  <2>3. answer = "class" => (Alone(Top.type.name) => prepared[Top.type.name] = 1)
    BY <2>1, <2>2 DEF Thrown, OnceEach, ToldOnce
  <2>4. \A c \in DOMAIN resolved' : c \in DOMAIN resolved \/ (c = Top.type.name /\ answer = "class")
    BY <2>1 DEF Put
  <2> QED
    BY <1>0, <2>1, <2>3, <2>4 DEF AllOnce
<1>2. CASE Asked
  <2>0. PICK q : q = AsksOf(content, Top.cls)[Top.at]
    OBVIOUS
  <2>1. /\ Running("class", "resolve") /\ answer # "none" /\ resolved' = resolved
        /\ answer = "Throw" => prepared' = prepared
        /\ \A d \in Names : d # Top.cls /\ Alone(d) => prepared'[d] = prepared[d]
    BY <1>2, <2>0, AskedAdds DEF Asked
  <2>2. Top \in Among(stack) /\ Top.kind = "class" /\ phase = "resolving"
    BY <2>1, TopClass
  <2>3. CASE answer = "Throw"
    BY <1>0, <2>1, <2>3 DEF AllOnce
  <2>4. CASE answer # "Throw"
    <3>1. Top.cls \notin DOMAIN resolved
      BY <2>2, <2>4 DEF Thrown, OnceEach, OneByOne, Opened
    <3>2. DOMAIN resolved \subseteq Names
      BY DEF SInv
    <3>3. \A c \in DOMAIN resolved : Alone(c) => prepared'[c] = prepared[c]
      BY <2>1, <3>1, <3>2
    <3> QED
      BY <1>0, <2>1, <3>3 DEF AllOnce
  <2> QED
    BY <2>3, <2>4
<1>3. CASE IncludeMissing \/ Included
  BY <1>3, SearchesOnlyToInclude DEF IncludeMissing, Included
<1>4. CASE (\E c \in Names : Visit(c)) \/ Visited \/ AllVisited \/ CanResolve \/ Ask
  <2>1. UNCHANGED <<resolved, prepared>>
    BY <1>4 DEF Visit, Visited, AllVisited, CanResolve, Ask
  <2> QED
    BY <1>0, <2>1 DEF AllOnce
<1> QED
  BY <1>1, <1>2, <1>3, <1>4 DEF Step

\* Each class that is nested in no other is resolved once, or fails each time.
LEMMA NStep == IInv /\ SInv /\ BInv /\ NInv /\ [Next]_vars => NInv'
<1> SUFFICES ASSUME IInv, SInv, BInv, NInv, [Next]_vars, policy' # "INCLUDE_MISSING", phase' # "parsing"
             PROVE  AllOnce' /\ (~Thrown' => OnceEach')
  BY DEF NInv
<1>1. policy' = policy
  BY DEF Next, Step, Parse, ResolveAll, Visit, Visited, AllVisited, CanResolve, CanResolved,
         IncludeMissing, Included, Ask, Asked, Ended, vars
<1>2. CASE Parse
  BY <1>2 DEF Parse
<1>3. CASE ResolveAll
  <2>1. /\ stack' = <<>> /\ DOMAIN cache' = {} /\ DOMAIN resolved' = {} /\ prepared' = [c \in Names |-> 0]
    BY <1>3 DEF ResolveAll, SInv, Fresh
  <2>2. Among(stack') = {} /\ Apart(stack')
    BY <2>1, ChainEmpty, ApartEmpty
  <2> QED
    BY <2>1, <2>2 DEF AllOnce, OnceEach, OneByOne, ToldOnce, MissingOnce, AddedOnce, Gone
<1>4. CASE Step \/ UNCHANGED vars \/ Ended
  <2>1. phase # "parsing"
    BY <1>4 DEF Step, Visit, Visited, AllVisited, CanResolve, CanResolved, IncludeMissing, Included,
                Ask, Asked, Running, Ended, vars
  <2>2. AllOnce /\ (~Thrown => OnceEach)
    BY <1>1, <2>1 DEF NInv
  <2>3. CASE UNCHANGED <<stack, content, classes, resolved, inProgress, cache, prepared>>
             /\ (stack = <<>> \/ UNCHANGED <<answer, made>>) /\ (Thrown => Thrown')
    <3>1. \A d : /\ (Dead(d)' <=> Dead(d)) /\ (Opened(d)' <=> Opened(d)) /\ (Gone(d)' <=> Gone(d))
                /\ (Alone(d)' <=> Alone(d))
      BY <2>3, AloneStays DEF Dead, Opened, Gone
    <3>2. Top' = Top /\ Asking(Top)' = Asking(Top)
      BY <2>3 DEF Top, Asking
    <3>3. ASSUME OnceEach PROVE OnceEach'
      <4>1. Apart(stack') /\ OneByOne' /\ MissingOnce'
        BY <2>3, <3>1, <3>3 DEF OnceEach, OneByOne, MissingOnce
      <4>2. ToldOnce'
        BY <2>3, <3>1, <3>2, <3>3 DEF OnceEach, ToldOnce
      <4>3. AddedOnce'
        BY <2>3, <3>1, <3>2, <3>3 DEF OnceEach, AddedOnce
      <4> QED
        BY <4>1, <4>2, <4>3 DEF OnceEach
    <3> QED
      BY <2>2, <2>3, <3>1, <3>3 DEF AllOnce
  <2>4. CASE UNCHANGED vars \/ Ended
    BY <2>3, <2>4 DEF Ended, vars, Thrown
  <2>5. CASE Step
    <3>1. AllOnce'
      BY <1>1, <2>2, <2>5, AllOnceStep
    <3>2. ASSUME ~Thrown' PROVE OnceEach'
      <4>1. OnceEach
        BY <2>2, <2>5, <3>2, ThrownStays
      <4>2. CASE Visited \/ AllVisited
        BY <2>3, <2>5, <3>2, <4>2, ThrownStays DEF Visited, AllVisited
      <4>3. CASE \E c \in Names : Visit(c)
        BY <4>1, <4>3, VisitN
      <4>4. CASE CanResolve
        BY <1>1, <3>2, <4>1, <4>4, CanResolveN
      <4>5. CASE CanResolved
        BY <1>1, <3>2, <4>1, <4>5, CanResolvedN
      <4>6. CASE IncludeMissing \/ Included
        BY <1>1, <4>6, SearchesOnlyToInclude DEF IncludeMissing, Included
      <4>7. CASE Ask
        BY <4>1, <4>7, AskN
      <4>8. CASE Asked
        BY <3>2, <4>1, <4>8, AskedN
      <4> QED
        BY <2>5, <4>2, <4>3, <4>4, <4>5, <4>6, <4>7, <4>8 DEF Step
    <3> QED
      BY <3>1, <3>2
  <2> QED
    BY <1>4, <2>4, <2>5
<1> QED
  BY <1>2, <1>3, <1>4 DEF Next

LEMMA NInit == Init => NInv
BY DEF Init, NInv

\* A class that comes out, and is nested in no other, was resolved once, so
\* that the methods that resolving adds were added once: a class that fails,
\* and may be resolved again, fails for good, as its base class is missing.
THEOREM ResolvesOnce == Spec => []ResolvedOnce
<1>1. SInv /\ NInv => ResolvedOnce
  <2> SUFFICES ASSUME SInv, NInv, policy # "INCLUDE_MISSING", NEW c \in Usable, Alone(c)
               PROVE  prepared[c] = 1
    BY DEF ResolvedOnce
  <2>1. c \in DOMAIN resolved
    BY DEF Usable
  <2>2. phase # "parsing"
    BY <2>1 DEF SInv, Fresh
  <2> QED
    BY <2>1, <2>2 DEF NInv, AllOnce
<1> QED
  BY <1>1, InitInv, StepInv, InitOK, StepOK, BInit, BStep, NInit, NStep, PTL DEF Spec

=============================================================================
