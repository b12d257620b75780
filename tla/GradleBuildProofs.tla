--------------------------- MODULE GradleBuildProofs ---------------------------
(***************************************************************************)
(* A build keeps the promise of RunPromise, for any number of runs, tasks, *)
(* homes, mappings and parts, and any size of a pipe.                      *)
(***************************************************************************)
EXTENDS GradleBuild, TLAPS

-----------------------------------------------------------------------------
(* The inductive invariant: what is true of each run by itself, and of runs  *)
(* of the same task.                                                         *)

Early == {"unborn", "look", "unpack", "copy", "memo", "exec"}

\* A run has a task from its beginning, and a generator only after Exec.
NotYet(r) ==
  /\ pc[r] = "unborn" <=> task[r] = NoTask
  /\ pc[r] \in Early =>
       child[r] = "none" /\ wire[r] = Quiet /\ written[r] = 0 /\ served[r] = <<>> /\ at[r] = 1
  /\ open[r] <=> pc[r] = "calling"

\* What a generator is busy with is what it was asked for.
Busy(r) ==
  /\ child[r] = "index" => wire[r] = [call |-> "index", is |-> "asked"]
  /\ child[r] \in Writing => wire[r] = [call |-> "write", is |-> "asked"]
  /\ child[r] = "part" => written[r] < LastPart
  /\ pc[r] = "ok" => wire[r] = Quiet
  /\ wire[r] # [call |-> "close", is |-> "failed"]

\* The generator has answered the first n calls of its task, and no other one.
Upto(r, n) ==
  Len(served[r]) = n /\ \A j \in 1 .. n : served[r][j] = Calls(task[r])[j]

\* Calls come in the order of the task, also to a generator that was left behind.
InOrder(r) ==
  /\ wire[r].is = "asked" /\ child[r] # "gone" =>
       \E i \in 1 .. Len(Calls(task[r])) : wire[r].call = Calls(task[r])[i] /\ Upto(r, i - 1)
  /\ pc[r] = "calling" /\ child[r] # "gone" /\ at[r] <= Len(Calls(task[r])) =>
       Upto(r, IF wire[r].is = "answered" THEN at[r] ELSE at[r] - 1)
  /\ pc[r] = "calling" /\ wire[r] # Quiet =>
       at[r] <= Len(Calls(task[r])) /\ wire[r].call = Calls(task[r])[at[r]]
  /\ at[r] >= 1

\* Whoever has got past write has written everything.
WrittenWhenAnswered(r) ==
  pc[r] = "calling" =>
    /\ wire[r] = [call |-> "write", is |-> "answered"] => written[r] = LastPart
    /\ at[r] > Len(Requests(task[r])) + 1 => written[r] = LastPart

\* The generator's own text is on the connection only when a call failed.
Clean1(r) == printed[r] => wire[r].is = "failed"

\* While it is not read, the pipe holds all that the compiler printed; there is no
\* pipe but that of the one compiler.
Piped(r) ==
  /\ child[r] \notin {"index", "gone"} /\ wire[r] # [call |-> "index", is |-> "failed"] => pipe[r] = NoPipe
  /\ child[r] = "index" =>
       /\ pipe[r].compiler \in {"runs", "exited", "died"}
       /\ pipe[r].held = pipe[r].printed /\ pipe[r].list <= pipe[r].size
       /\ pipe[r].compiler = "exited" => pipe[r].printed = pipe[r].size
  /\ wire[r] = [call |-> "index", is |-> "failed"] => NothingToFind(r)

Local(r) ==
  NotYet(r) /\ Busy(r) /\ InOrder(r) /\ WrittenWhenAnswered(r) /\ Clean1(r) /\ Piped(r)

\* Gradle runs a task once at a time.
OneAtATime ==
  \A r, s \in Runs : Active(r) /\ Active(s) /\ task[r] = task[s] => r = s

\* What an active run has written is its own, unless a run of its task failed.
OwnParts ==
  \A r \in Runs :
    Active(r) /\ (\A s \in Runs : task[s] = task[r] => pc[s] # "failed") =>
      /\ \A p \in 1 .. written[r] : dir[task[r]][p] = r
      /\ child[r] = "part" => dir[task[r]][written[r] + 1] = Torn(r)

IInv == TypeOK /\ (\A r \in Runs : Local(r)) /\ OneAtATime /\ OwnParts

-----------------------------------------------------------------------------
(* The calls of a task. *)

\* c is a and then b.
Sum(a, b, c) ==
  /\ Len(c) = Len(a) + Len(b)
  /\ \A i \in 1 .. Len(a) : c[i] = a[i]
  /\ \A i \in 1 .. Len(b) : c[Len(a) + i] = b[i]

LEMMA Joined ==
  \A a, b \in Seq(CallNames) : a \o b \in Seq(CallNames) /\ Sum(a, b, a \o b)
<1> TAKE a, b \in Seq(CallNames)
<1>1. Len(a) \in Nat /\ Len(b) \in Nat
  OBVIOUS
<1> QED
  BY <1>1 DEF Sum

\* Where each call of a task is.
LEMMA CallsLayout ==
  ASSUME NEW t \in Tasks
  PROVE  /\ Requests(t) \in Seq(CallNames) /\ Calls(t) \in Seq(CallNames)
         /\ Len(Requests(t)) = 4 + Mappings[t] /\ Len(Calls(t)) = 6 + Mappings[t]
         /\ Mappings[t] \in Nat
         /\ \A i \in 1 .. 4 + Mappings[t] : Calls(t)[i] = Requests(t)[i]
         /\ Calls(t)[5 + Mappings[t]] = "write" /\ Calls(t)[6 + Mappings[t]] = "close"
         /\ Calls(t)[1] = "setLogger" /\ Calls(t)[2] = "setConfig"
         /\ Calls(t)[3] = "index" /\ Calls(t)[4] = "filter"
         /\ \A i \in 1 .. Mappings[t] : Calls(t)[4 + i] = "mapping"
<1> DEFINE head == <<"setLogger", "setConfig", "index", "filter">>
           adds == [i \in 1 .. Mappings[t] |-> "mapping"]
           end == <<"write", "close">>
           n == Mappings[t]
<1>1. n \in Nat
  BY BuildAssumption
<1>2. head \in Seq(CallNames) /\ Len(head) = 4 /\ end \in Seq(CallNames) /\ Len(end) = 2
  BY DEF CallNames
<1>3. adds \in Seq(CallNames) /\ Len(adds) = n
  BY <1>1 DEF CallNames
<1>4. \A i \in 1 .. n : adds[i] = "mapping"
  OBVIOUS
<1>5. /\ head[1] = "setLogger" /\ head[2] = "setConfig" /\ head[3] = "index" /\ head[4] = "filter"
      /\ end[1] = "write" /\ end[2] = "close"
  OBVIOUS
<1>6. Requests(t) = head \o adds /\ Calls(t) = Requests(t) \o end
  BY DEF Requests, Calls
<1> HIDE DEF head, adds, end
<1>7. Requests(t) \in Seq(CallNames) /\ Sum(head, adds, Requests(t))
  BY <1>2, <1>3, <1>6, Joined, Zenon
<1>8. /\ Len(Requests(t)) = 4 + n
      /\ \A i \in 1 .. 4 : Requests(t)[i] = head[i]
      /\ \A i \in 1 .. n : Requests(t)[4 + i] = adds[i]
  BY <1>1, <1>2, <1>3, <1>7 DEF Sum
<1>9. Calls(t) \in Seq(CallNames) /\ Sum(Requests(t), end, Calls(t))
  BY <1>2, <1>6, <1>7, Joined, Zenon
<1>10. /\ Len(Calls(t)) = 4 + n + 2
       /\ \A i \in 1 .. 4 + n : Calls(t)[i] = Requests(t)[i]
       /\ \A i \in 1 .. 2 : Calls(t)[4 + n + i] = end[i]
  BY <1>1, <1>2, <1>8, <1>9 DEF Sum
<1>11. Calls(t)[4 + n + 1] = end[1] /\ Calls(t)[4 + n + 2] = end[2]
  BY <1>10
<1>12. ASSUME NEW i \in 1 .. 4 PROVE Calls(t)[i] = head[i]
  <2>1. i \in 1 .. 4 + n
    BY <1>1
  <2> QED
    BY <1>8, <1>10, <2>1, Zenon
<1>13. ASSUME NEW i \in 1 .. n PROVE Calls(t)[4 + i] = "mapping"
  <2>1. 4 + i \in 1 .. 4 + n
    BY <1>1
  <2> QED
    BY <1>4, <1>8, <1>10, <2>1
<1>14. /\ Calls(t)[1] = "setLogger" /\ Calls(t)[2] = "setConfig"
       /\ Calls(t)[3] = "index" /\ Calls(t)[4] = "filter"
  <2>1. 1 \in 1 .. 4 /\ 2 \in 1 .. 4 /\ 3 \in 1 .. 4 /\ 4 \in 1 .. 4
    OBVIOUS
  <2> QED
    BY <1>5, <1>12, <2>1, Zenon
<1>15. 4 + n + 1 = 5 + n /\ 4 + n + 2 = 6 + n
  BY <1>1
<1> HIDE DEF n
<1>16. /\ Len(Calls(t)) = 6 + n
       /\ Calls(t)[5 + n] = "write" /\ Calls(t)[6 + n] = "close"
  BY <1>5, <1>10, <1>11, <1>15, Zenon
<1> QED
  BY <1>1, <1>7, <1>8, <1>9, <1>10, <1>13, <1>14, <1>16, Zenon DEF n

\* Nothing is written or closed before everything was requested.
LEMMA NoWriteBefore ==
  ASSUME NEW t \in Tasks, NEW i \in 1 .. 4 + Mappings[t]
  PROVE  Calls(t)[i] \notin {"write", "close"}
<1> DEFINE n == Mappings[t]
<1>1. n \in Nat
  BY CallsLayout
<1>2. CASE i \in 1 .. 4
  <2>1. i = 1 \/ i = 2 \/ i = 3 \/ i = 4
    BY <1>2
  <2>2. /\ Calls(t)[1] = "setLogger" /\ Calls(t)[2] = "setConfig"
        /\ Calls(t)[3] = "index" /\ Calls(t)[4] = "filter"
    BY CallsLayout
  <2> QED
    BY <2>1, <2>2
<1>3. CASE i \notin 1 .. 4
  <2>1. i - 4 \in 1 .. n /\ i = 4 + (i - 4)
    BY <1>1, <1>3
  <2>2. \A j \in 1 .. n : Calls(t)[4 + j] = "mapping"
    BY CallsLayout
  <2> QED
    BY <2>1, <2>2
<1> QED
  BY <1>2, <1>3

-----------------------------------------------------------------------------
(* One step changes one run; the others keep what is true of them.           *)

Same(s) ==
  /\ task'[s] = task[s] /\ wire'[s] = wire[s] /\ open'[s] = open[s] /\ child'[s] = child[s]
  /\ served'[s] = served[s] /\ written'[s] = written[s] /\ printed'[s] = printed[s]
  /\ pipe'[s] = pipe[s] /\ pc'[s] = pc[s] /\ at'[s] = at[s]

LEMMA SameKeeps ==
  ASSUME NEW s \in Runs, Local(s), Same(s)
  PROVE  Local(s)'
<1> USE DEF Same
<1>1. NotYet(s)' /\ Busy(s)' /\ Clean1(s)' /\ Piped(s)'
  BY DEF Local, NotYet, Busy, Clean1, Piped, NothingToFind
<1>2. InOrder(s)' /\ WrittenWhenAnswered(s)'
  BY DEF Local, InOrder, Upto, WrittenWhenAnswered
<1> QED
  BY <1>1, <1>2 DEF Local

LEMMA InitInv == Init => IInv
<1> SUFFICES ASSUME Init PROVE IInv
  OBVIOUS
<1> USE GeneratorAssumption, BuildAssumption DEF Init, GeneratorInit
<1>1. TypeOK
  BY DEF TypeOK, Quiet, NoPipe, None, Mixed, Runs, Parts
<1>2. ASSUME NEW r \in Runs PROVE Local(r)
  BY DEF Local, NotYet, Busy, InOrder, WrittenWhenAnswered, Clean1, Piped, NothingToFind, Early, Writing, Quiet,
         NoPipe
<1>3. OneAtATime /\ OwnParts
  BY DEF OneAtATime, OwnParts, Active
<1> QED
  BY <1>1, <1>2, <1>3 DEF IInv

-----------------------------------------------------------------------------
(* A generator answers, throws, or is gone.                                  *)

\* What a living generator was started for is a task, and Exec was passed.
LEMMA AliveHasTask ==
  ASSUME TypeOK, NEW r \in Runs, Local(r), child[r] \notin {"none", "gone"} \/ pc[r] = "calling"
  PROVE  task[r] \in Tasks /\ pc[r] \in {"calling", "ok", "failed"}
BY DEF TypeOK, Local, NotYet, Early

LEMMA AnswerKeeps ==
  ASSUME TypeOK, NEW r \in Runs, Local(r), wire[r].is = "asked", child[r] \notin {"none", "gone"},
         wire[r].call = "write" => written[r] = LastPart,
         pipe'[r] = NoPipe \/ (UNCHANGED pipe /\ child[r] # "index"),
         Answer(r), printed'[r] = printed[r],
         UNCHANGED <<task, open, written, pc, at>>
  PROVE  Local(r)'
<1> DEFINE call == wire[r].call
           calls == Calls(task[r])
<1>1. wire[r] \in [call : CallNames, is : {"asked", "answered", "failed"}] /\ served[r] \in Seq(CallNames)
  BY DEF TypeOK, Quiet
<1>2. task[r] \in Tasks /\ pc[r] \in {"calling", "ok", "failed"}
  BY AliveHasTask
<1>3. /\ wire'[r] = [call |-> call, is |-> "answered"] /\ child'[r] = "idle"
      /\ served'[r] = Append(served[r], call)
  BY <1>1 DEF Answer, TypeOK
<1>4. printed'[r] = FALSE
  BY DEF Local, Clean1, TypeOK
<1>5. NotYet(r)'
  BY <1>2, <1>3 DEF Local, NotYet, Early
<1>6. Busy(r)'
  BY <1>1, <1>2, <1>3 DEF Local, Busy, Writing, Quiet
<1>7. InOrder(r)'
  <2>1. ASSUME pc[r] = "calling", at[r] <= Len(calls) PROVE Upto(r, at[r])'
    <3>1. Upto(r, at[r] - 1) /\ call = calls[at[r]] /\ at[r] >= 1 /\ at[r] \in Nat
      BY <1>1, <2>1 DEF Local, InOrder, Quiet, TypeOK
    <3> HIDE DEF call, calls
    <3>2. Len(served[r]) = at[r] - 1 /\ \A j \in 1 .. at[r] - 1 : served[r][j] = calls[j]
      BY <3>1 DEF Upto, calls
    <3>3. Len(served'[r]) = at[r] /\ \A j \in 1 .. at[r] : served'[r][j] = calls[j]
      BY <1>1, <1>3, <3>1, <3>2 DEF call
    <3> QED
      BY <3>3 DEF Upto, calls
  <2> QED
    BY <1>1, <1>3, <2>1 DEF Local, InOrder, Quiet
<1>8. WrittenWhenAnswered(r)'
  BY <1>3 DEF Local, WrittenWhenAnswered
<1>9. pipe'[r] = NoPipe
  BY <1>1 DEF Local, Piped
<1>10. Clean1(r)' /\ Piped(r)'
  BY <1>3, <1>4, <1>9 DEF Clean1, Piped, NothingToFind
<1> QED
  BY <1>5, <1>6, <1>7, <1>8, <1>10 DEF Local

LEMMA ThrowKeeps ==
  ASSUME TypeOK, NEW r \in Runs, Local(r), wire[r].is = "asked", child[r] \notin {"none", "gone"},
         wire[r].call # "close",
         IF wire[r].call = "index" THEN NothingToFind(r)' ELSE UNCHANGED pipe,
         Throw(r), UNCHANGED <<task, open, served, written, pc, at>>
  PROVE  Local(r)'
<1>1. wire[r] \in [call : CallNames, is : {"asked", "answered", "failed"}]
  BY DEF TypeOK, Quiet
<1>2. task[r] \in Tasks /\ pc[r] \in {"calling", "ok", "failed"}
  BY AliveHasTask
<1>3. wire'[r] = [call |-> wire[r].call, is |-> "failed"] /\ child'[r] = "idle"
  BY <1>1 DEF Throw, TypeOK
<1>4. NotYet(r)'
  BY <1>2, <1>3 DEF Local, NotYet, Early
<1>5. Busy(r)'
  BY <1>1, <1>2, <1>3 DEF Local, Busy, Writing, Quiet
<1>6. InOrder(r)' /\ WrittenWhenAnswered(r)'
  BY <1>1, <1>3 DEF Local, InOrder, Upto, Quiet, WrittenWhenAnswered
<1>7. Clean1(r)' /\ Piped(r)'
  <2>1. wire[r].call # "index" => pipe'[r] = NoPipe
    BY <1>1 DEF Local, Piped, NothingToFind, Busy, Writing
  <2> QED
    BY <1>3, <2>1 DEF Clean1, Piped, NothingToFind
<1> QED
  BY <1>4, <1>5, <1>6, <1>7 DEF Local

LEMMA VanishKeeps ==
  ASSUME TypeOK, NEW r \in Runs, Local(r), child[r] \notin {"none", "gone"},
         Vanish(r), UNCHANGED <<pc, at>>
  PROVE  Local(r)'
<1>1. task[r] \in Tasks /\ pc[r] \in {"calling", "ok", "failed"}
  BY AliveHasTask
<1>2. child'[r] = "gone" /\ UNCHANGED <<task, open, written>>
  BY DEF Vanish, TypeOK
<1>3. NotYet(r)'
  BY <1>1, <1>2 DEF Local, NotYet, Early
<1>4. CASE open[r]
  <2>1. UNCHANGED <<wire, printed, pipe>>
    BY <1>4 DEF Vanish
  <2>2. Busy(r)' /\ Clean1(r)' /\ Piped(r)'
    BY <1>2, <2>1 DEF Local, Busy, Clean1, Piped, NothingToFind, Writing
  <2>3. InOrder(r)' /\ WrittenWhenAnswered(r)'
    BY <1>2, <2>1 DEF Local, InOrder, WrittenWhenAnswered
  <2> QED
    BY <1>3, <2>2, <2>3 DEF Local
<1>5. CASE ~open[r]
  <2>1. wire'[r] = Quiet /\ printed'[r] = FALSE /\ pc[r] # "calling"
    BY <1>5 DEF Vanish, Forget, TypeOK, Local, NotYet
  <2>2. Busy(r)' /\ Clean1(r)' /\ Piped(r)'
    BY <1>2, <2>1 DEF Busy, Clean1, Piped, NothingToFind, Writing, Quiet
  <2>3. InOrder(r)' /\ WrittenWhenAnswered(r)'
    BY <1>2, <2>1 DEF Local, InOrder, WrittenWhenAnswered, Quiet
  <2> QED
    BY <1>3, <2>2, <2>3 DEF Local
<1> QED
  BY <1>4, <1>5

Wires == [Runs -> {Quiet} \cup [call : CallNames, is : {"asked", "answered", "failed"}]]
Children == [Runs -> {"none", "idle", "index", "mappings", "between", "part", "gone"}]
Pipes == [Runs -> [compiler : {"off", "runs", "exited", "died"},
                   size : Nat, list : Nat, printed : Nat, held : Nat]]

LEMMA EndsType ==
  ASSUME TypeOK, NEW r \in Runs
  PROVE  /\ wire[r].is = "asked" /\ Answer(r) =>
              wire' \in Wires /\ child' \in Children /\ served' \in [Runs -> Seq(CallNames)]
         /\ wire[r].is = "asked" /\ Throw(r) =>
              wire' \in Wires /\ child' \in Children /\ printed' \in [Runs -> BOOLEAN]
         /\ Vanish(r) =>
              /\ wire' \in Wires /\ child' \in Children /\ served' \in [Runs -> Seq(CallNames)]
              /\ printed' \in [Runs -> BOOLEAN] /\ pipe' \in Pipes
<1> USE DEF TypeOK, Wires, Children
<1>1. ASSUME wire[r].is = "asked"
      PROVE  wire[r] \in [call : CallNames, is : {"asked", "answered", "failed"}]
  BY <1>1 DEF Quiet
<1>2. ASSUME wire[r].is = "asked", Answer(r)
      PROVE  wire' \in Wires /\ child' \in Children /\ served' \in [Runs -> Seq(CallNames)]
  <2>1. wire' \in Wires
    BY <1>1, <1>2 DEF Answer
  <2>2. Append(served[r], wire[r].call) \in Seq(CallNames)
    BY <1>1, <1>2
  <2> QED
    BY <1>2, <2>1, <2>2 DEF Answer
<1>3. ASSUME wire[r].is = "asked", Throw(r)
      PROVE  wire' \in Wires /\ child' \in Children /\ printed' \in [Runs -> BOOLEAN]
  BY <1>1, <1>3 DEF Throw
<1>4. ASSUME Vanish(r)
      PROVE  /\ wire' \in Wires /\ child' \in Children /\ served' \in [Runs -> Seq(CallNames)]
             /\ printed' \in [Runs -> BOOLEAN] /\ pipe' \in Pipes
  <2>1. child' \in Children /\ served' \in [Runs -> Seq(CallNames)]
    <3>1. <<>> \in Seq(CallNames)
      OBVIOUS
    <3> QED
      BY <1>4, <3>1 DEF Vanish
  <2>2. wire' \in Wires /\ printed' \in [Runs -> BOOLEAN]
    BY ZenonT(60), <1>4 DEF Vanish, Forget
  <2>3. NoPipe \in [compiler : {"off", "runs", "exited", "died"},
                    size : Nat, list : Nat, printed : Nat, held : Nat]
    BY DEF NoPipe
  <2>4. pipe' \in Pipes
    <3>1. pipe \in Pipes
      BY DEF Pipes
    <3>2. UNCHANGED pipe \/ pipe' = [pipe EXCEPT ![r] = NoPipe]
      BY <1>4 DEF Vanish, Forget
    <3> QED
      BY ZenonT(60), <2>3, <3>1, <3>2 DEF Pipes
  <2> QED
    BY <2>1, <2>2, <2>4
<1> QED
  BY <1>2, <1>3, <1>4

\* What a step of a generator or of its compiler does to its run.
Kept(r) == TypeOK' /\ Local(r)'

LEMMA StoreKeeps ==
  ASSUME TypeOK, NEW r \in Runs, Local(r), Store(r), UNCHANGED bvars
  PROVE  Kept(r)
<1>1. /\ child[r] = "idle" /\ wire[r].is = "asked"
      /\ wire[r].call \in {"setLogger", "setConfig", "mapping"}
  BY DEF Store, Asked
<1>2. Answer(r) /\ UNCHANGED <<task, open, written, printed, pipe, dir, pc, at>>
  BY DEF Store, bvars
<1>3. Local(r)'
  BY <1>1, <1>2, AnswerKeeps
<1>4. TypeOK'
  BY <1>1, <1>2, EndsType DEF TypeOK, bvars, Wires, Children
<1> QED
  BY <1>3, <1>4 DEF Kept

LEMMA ForkKeeps ==
  ASSUME TypeOK, NEW r \in Runs, Local(r), Fork(r), UNCHANGED bvars
  PROVE  Kept(r)
<1>1. child[r] = "idle" /\ wire[r] = [call |-> "index", is |-> "asked"] 
  BY DEF Fork, Asked
<1>2. PICK n \in 1 .. MaxText : \E l \in 0 .. n : pipe' = [pipe EXCEPT ![r] = Forked(n, l)]
  BY <1>1 DEF Fork
<1>3. PICK l \in 0 .. n : pipe' = [pipe EXCEPT ![r] = Forked(n, l)]
  BY <1>2
<1>4. /\ child' = [child EXCEPT ![r] = "index"]
      /\ UNCHANGED <<wire, printed, task, open, served, written, dir, pc, at>>
  BY <1>1 DEF Fork, bvars
<1>5. n \in Nat /\ l \in Nat /\ l <= n
  BY <1>2, <1>3, GeneratorAssumption
<1>6. TypeOK'
  BY <1>3, <1>4, <1>5 DEF TypeOK, bvars, Forked
<1>7. pipe'[r] = Forked(n, l) /\ child'[r] = "index"
  BY <1>3, <1>4 DEF TypeOK
<1>8. NotYet(r)' /\ Busy(r)'
  BY <1>1, <1>4, <1>7 DEF Local, NotYet, Busy, Writing, Quiet
<1>9. InOrder(r)' /\ WrittenWhenAnswered(r)'
  BY <1>1, <1>4, <1>7 DEF Local, InOrder, Upto, WrittenWhenAnswered
<1>10. Clean1(r)' /\ Piped(r)'
  BY <1>1, <1>4, <1>5, <1>7 DEF Local, Clean1, Piped, NothingToFind, Forked
<1> QED
  BY <1>6, <1>8, <1>9, <1>10 DEF Kept, Local

LEMMA IndexThrowsKeeps ==
  ASSUME TypeOK, NEW r \in Runs, Local(r), IndexThrows(r), UNCHANGED bvars
  PROVE  Kept(r)
<1>1. /\ child[r] = "idle" /\ wire[r] = [call |-> "index", is |-> "asked"]
      /\ Throw(r) /\ UNCHANGED <<task, open, served, written, pipe, dir, pc, at>>
  BY DEF IndexThrows, Asked, bvars
<1>2. NothingToFind(r)'
  BY <1>1 DEF Local, Piped, NothingToFind
<1>3. Local(r)'
  BY <1>1, <1>2, ThrowKeeps
<1>4. TypeOK'
  <2>1. wire[r].is = "asked"
    BY <1>1
  <2> QED
    BY <1>1, <2>1, EndsType DEF TypeOK, bvars, Wires, Children
<1> QED
  BY <1>3, <1>4 DEF Kept

LEMMA PipesKeepTheirType ==
  ASSUME pipe \in Pipes, NEW r \in Runs,
         CompilerPrints(r) \/ CompilerExits(r) \/ CompilerDies(r)
  PROVE  /\ pipe' \in Pipes
         /\ pipe[r].compiler = "runs" /\ pipe'[r].compiler \in {"runs", "exited", "died"}
         /\ pipe'[r].size = pipe[r].size /\ pipe'[r].list = pipe[r].list
         /\ pipe[r].held = pipe[r].printed => pipe'[r].held = pipe'[r].printed
         /\ pipe'[r].compiler = "exited" => pipe'[r].printed = pipe'[r].size
<1>1. CASE CompilerPrints(r)
  <2>1. pipe' = [pipe EXCEPT ![r].printed = @ + 1, ![r].held = @ + 1]
    BY <1>1 DEF CompilerPrints
  <2>2. pipe' = [pipe EXCEPT ![r] = [compiler |-> pipe[r].compiler, size |-> pipe[r].size,
                                     list |-> pipe[r].list, printed |-> pipe[r].printed + 1,
                                     held |-> pipe[r].held + 1]]
    BY <2>1 DEF Pipes
  <2>3. pipe' \in Pipes
    BY <2>2 DEF Pipes
  <2> QED
    BY <1>1, <2>2, <2>3 DEF Pipes, CompilerPrints
<1>2. CASE CompilerExits(r)
  <2>1. pipe' = [pipe EXCEPT ![r].compiler = "exited"]
    BY <1>2 DEF CompilerExits
  <2>2. pipe' \in Pipes
    BY <2>1 DEF Pipes
  <2> QED
    BY <1>2, <2>1, <2>2 DEF Pipes, CompilerExits
<1>3. CASE CompilerDies(r)
  <2>1. pipe' = [pipe EXCEPT ![r].compiler = "died"]
    BY <1>3 DEF CompilerDies
  <2>2. pipe' \in Pipes
    BY <2>1 DEF Pipes
  <2> QED
    BY <1>3, <2>1, <2>2 DEF Pipes, CompilerDies
<1> QED
  BY <1>1, <1>2, <1>3

LEMMA CompilerKeeps ==
  ASSUME TypeOK, NEW r \in Runs, Local(r), CompilerStep(r) \/ CompilerDies(r), UNCHANGED bvars
  PROVE  Kept(r)
<1>1. UNCHANGED <<task, wire, open, child, served, written, printed, dir, pc, at>>
  BY DEF CompilerStep, CompilerPrints, CompilerExits, CompilerDies, bvars
<1>2. pipe \in Pipes
  BY DEF TypeOK, Pipes
<1>3. /\ pipe' \in Pipes
      /\ pipe[r].compiler = "runs" /\ pipe'[r].compiler \in {"runs", "exited", "died"}
      /\ pipe'[r].size = pipe[r].size /\ pipe'[r].list = pipe[r].list
      /\ pipe[r].held = pipe[r].printed => pipe'[r].held = pipe'[r].printed
      /\ pipe'[r].compiler = "exited" => pipe'[r].printed = pipe'[r].size
  BY <1>2, PipesKeepTheirType DEF CompilerStep
<1>4. TypeOK' /\ Piped(r)'
  <2>1. TypeOK'
    BY <1>1, <1>3 DEF TypeOK, bvars, Pipes
  <2>2. wire[r] # [call |-> "index", is |-> "failed"]
    BY <1>3 DEF Local, Piped, NothingToFind, NoPipe
  <2>3. Piped(r)'
    BY <1>1, <1>3, <2>2 DEF Local, Piped, NoPipe
  <2> QED
    BY <2>1, <2>3
<1>5. NotYet(r)' /\ Busy(r)' /\ Clean1(r)'
  BY <1>1 DEF Local, NotYet, Busy, Clean1
<1>6. InOrder(r)' /\ WrittenWhenAnswered(r)'
  BY <1>1 DEF Local, InOrder, Upto, WrittenWhenAnswered
<1> QED
  BY <1>4, <1>5, <1>6 DEF Kept, Local

LEMMA ReadIncludesKeeps ==
  ASSUME TypeOK, NEW r \in Runs, Local(r), ReadIncludes(r), UNCHANGED bvars
  PROVE  Kept(r)
<1>1. /\ child[r] = "index" /\ wire[r] = [call |-> "index", is |-> "asked"]
      /\ pipe[r].compiler \in {"exited", "died"}
      /\ UNCHANGED <<task, open, written, dir, pc, at>>
  BY DEF ReadIncludes, Local, Busy, bvars
<1>2. wire[r].is = "asked" /\ wire[r].call = "index"
  BY <1>1
<1>3. CASE FoundIncludes(r)
  <2>1. Answer(r) /\ pipe' = [pipe EXCEPT ![r] = NoPipe] /\ UNCHANGED printed
    BY <1>3 DEF ReadIncludes
  <2>5. pipe'[r] = NoPipe
    BY <2>1 DEF TypeOK
  <2>2. Local(r)'
    BY <1>1, <1>2, <2>1, <2>5, AnswerKeeps
  <2>3. pipe' \in Pipes
    <3>1. NoPipe \in [compiler : {"off", "runs", "exited", "died"},
                      size : Nat, list : Nat, printed : Nat, held : Nat]
      BY DEF NoPipe
    <3> QED
      BY <2>1, <3>1 DEF TypeOK, Pipes
  <2>4. TypeOK'
    BY <1>1, <1>2, <2>1, <2>3, EndsType DEF TypeOK, bvars, Wires, Children, Pipes
  <2> QED
    BY <2>2, <2>4 DEF Kept
<1>4. CASE ~FoundIncludes(r)
  <2>1. Throw(r) /\ pipe' = [pipe EXCEPT ![r] = Emptied(r)] /\ UNCHANGED served
    BY <1>4 DEF ReadIncludes
  <2>2. pipe[r].compiler = "died" \/ pipe[r].list = 0
    <3>1. pipe[r].held \in Nat /\ pipe[r].list \in Nat /\ pipe[r].size \in Nat
      BY DEF TypeOK
    <3> QED
      BY <1>1, <1>4, <3>1 DEF Local, Piped, NothingToFind, FoundIncludes
  <2>3. pipe'[r] = Emptied(r) /\ Emptied(r).compiler = pipe[r].compiler /\ Emptied(r).list = pipe[r].list
    BY <2>1 DEF TypeOK, Emptied, NoPipe
  <2>7. NothingToFind(r)'
    BY <1>1, <2>2, <2>3 DEF NothingToFind
  <2>4. Local(r)'
    BY <1>1, <1>2, <2>1, <2>7, ThrowKeeps
  <2>5. pipe' \in Pipes
    <3>1. pipe \in Pipes
      BY DEF TypeOK, Pipes
    <3>2. Emptied(r) \in [compiler : {"off", "runs", "exited", "died"},
                          size : Nat, list : Nat, printed : Nat, held : Nat]
      BY <3>1 DEF Pipes, Emptied, NoPipe
    <3> QED
      BY <2>1, <3>1, <3>2 DEF Pipes
  <2>6. TypeOK'
    BY <1>1, <1>2, <2>1, <2>5, EndsType DEF TypeOK, bvars, Wires, Children, Pipes
  <2> QED
    BY <2>4, <2>6 DEF Kept
<1> QED
  BY <1>3, <1>4

\* A logger is set before anything is logged.
LEMMA LoggerFirst ==
  ASSUME TypeOK, NEW r \in Runs, Local(r), child[r] \notin {"none", "gone"},
         wire[r].is = "asked", wire[r].call \in {"filter", "write"}
  PROVE  Has(r, "setLogger")
<1>1. task[r] \in Tasks
  BY AliveHasTask
<1>2. PICK i \in 1 .. Len(Calls(task[r])) : wire[r].call = Calls(task[r])[i] /\ Upto(r, i - 1)
  BY DEF Local, InOrder
<1>3. Calls(task[r])[1] = "setLogger"
  BY <1>1, CallsLayout
<1>4. i # 1 /\ i \in Nat
  BY <1>2, <1>3
<1>5. 1 \in 1 .. Len(served[r]) /\ served[r][1] = "setLogger"
  BY <1>2, <1>3, <1>4 DEF Upto
<1>6. 1 \in DOMAIN served[r]
  BY <1>5 DEF TypeOK
<1> QED
  BY <1>5, <1>6 DEF Has, Range

LEMMA FilterKeeps ==
  ASSUME TypeOK, NEW r \in Runs, Local(r), Filter(r) \/ FilterThrows(r), UNCHANGED bvars
  PROVE  Kept(r)
<1>1. /\ child[r] = "idle" /\ wire[r].is = "asked" /\ wire[r].call = "filter"
      /\ UNCHANGED <<task, open, written, pipe, dir, pc, at>>
  BY DEF Filter, FilterThrows, Asked, bvars
<1>2. CASE Filter(r)
  <2>1. Answer(r) /\ printed' = Logged(r)
    BY <1>2 DEF Filter
  <2>2. Has(r, "setLogger")
    BY <1>1, LoggerFirst
  <2>3. printed'[r] = printed[r] /\ printed' \in [Runs -> BOOLEAN]
    BY <2>1, <2>2 DEF Logged, TypeOK
  <2>4. Local(r)'
    BY <1>1, <2>1, <2>3, AnswerKeeps
  <2>5. TypeOK'
    BY <1>1, <2>1, <2>3, EndsType DEF TypeOK, bvars, Wires, Children
  <2> QED
    BY <2>4, <2>5 DEF Kept
<1>3. CASE FilterThrows(r)
  <2>1. Throw(r) /\ UNCHANGED served
    BY <1>3 DEF FilterThrows
  <2>2. Local(r)'
    BY <1>1, <2>1, ThrowKeeps
  <2>3. TypeOK'
    BY <1>1, <2>1, EndsType DEF TypeOK, bvars, Wires, Children
  <2> QED
    BY <2>2, <2>3 DEF Kept
<1> QED
  BY <1>2, <1>3

\* writeTo, from one suspension to the next.
LEMMA WritingKeeps ==
  ASSUME TypeOK, NEW r \in Runs, Local(r), UNCHANGED bvars,
         BeginWrite(r) \/ HandlersReturn(r) \/ BeginPart(r)
  PROVE  Kept(r)
<1>1. /\ child[r] \notin {"none", "gone"} /\ wire[r] = [call |-> "write", is |-> "asked"]
      /\ UNCHANGED <<task, wire, open, served, written, pipe, pc, at>>
  BY DEF BeginWrite, HandlersReturn, BeginPart, Asked, bvars, Local, Busy, Writing
<1>2. task[r] \in Tasks
  BY <1>1, AliveHasTask
<1>3. printed'[r] = printed[r] /\ printed' \in [Runs -> BOOLEAN]
  <2>1. Has(r, "setLogger")
    BY <1>1, LoggerFirst
  <2> QED
    BY SMTT(30), <2>1 DEF BeginWrite, HandlersReturn, BeginPart, Logged, TypeOK
<1>4. /\ child' \in Children /\ child'[r] \in Writing
      /\ child'[r] = "part" => written[r] < LastPart
  BY ZenonT(60) DEF BeginWrite, HandlersReturn, BeginPart, TypeOK, Children, Writing
<1>5. dir' \in [Tasks -> [Parts -> None .. Mixed]]
  <2>1. CASE BeginPart(r)
    <3>1. Torn(r) \in None .. Mixed
      BY GeneratorAssumption DEF Torn, None, Mixed, Runs
    <3>2. written[r] + 1 \in Parts
      BY <2>1, GeneratorAssumption DEF BeginPart, TypeOK, Parts
    <3> QED
      BY <1>2, <2>1, <3>1, <3>2 DEF BeginPart, TypeOK
  <2> QED
    BY <2>1 DEF BeginWrite, HandlersReturn, TypeOK
<1>6. TypeOK'
  BY SMTT(30), <1>1, <1>3, <1>4, <1>5 DEF TypeOK, bvars, Children
<1>7. NotYet(r)'
  BY <1>1, <1>4 DEF Local, NotYet, Quiet
<1>8. Busy(r)'
  BY <1>1, <1>4 DEF Local, Busy, Writing, Quiet
<1>9. InOrder(r)' /\ WrittenWhenAnswered(r)'
  BY <1>1, <1>4 DEF Local, InOrder, Upto, WrittenWhenAnswered
<1>10. Clean1(r)' /\ Piped(r)'
  BY <1>1, <1>3, <1>4 DEF Local, Busy, Clean1, Piped, NothingToFind, Writing
<1> QED
  BY <1>6, <1>7, <1>8, <1>9, <1>10 DEF Kept, Local

LEMMA EndPartKeeps ==
  ASSUME TypeOK, NEW r \in Runs, Local(r), EndPart(r), UNCHANGED bvars
  PROVE  Kept(r)
<1>1. /\ child[r] = "part" /\ wire[r] = [call |-> "write", is |-> "asked"] /\ written[r] < LastPart
      /\ UNCHANGED <<task, wire, open, served, printed, pipe, pc, at>>
  BY DEF EndPart, bvars, Local, Busy, Writing
<1>2. task[r] \in Tasks /\ pc[r] \in {"calling", "ok", "failed"}
  BY <1>1, AliveHasTask
<1>3. written[r] \in Nat /\ written[r] + 1 \in 0 .. LastPart /\ written[r] + 1 \in Parts
  BY SMTT(30), <1>1, GeneratorAssumption DEF TypeOK, Parts
<1>4. /\ child' \in Children /\ child'[r] = "between"
      /\ written' \in [Runs -> 0 .. LastPart] /\ written'[r] = written[r] + 1
  BY <1>3 DEF EndPart, TypeOK, Children
<1>5. dir' \in [Tasks -> [Parts -> None .. Mixed]]
  <2>1. r \in None .. Mixed /\ Mixed \in None .. Mixed
    BY GeneratorAssumption DEF Mixed, None, Runs
  <2> QED
    BY <1>2, <1>3, <2>1 DEF EndPart, TypeOK
<1>6. TypeOK'
  BY <1>1, <1>4, <1>5 DEF TypeOK, bvars, Children
<1>7. NotYet(r)' /\ Busy(r)'
  BY <1>1, <1>2, <1>4 DEF Local, NotYet, Busy, Early, Writing, Quiet
<1>8. InOrder(r)'
  BY <1>1, <1>4 DEF Local, InOrder, Upto
<1>9. WrittenWhenAnswered(r)'
  <2>1. ~(pc[r] = "calling" /\ at[r] > Len(Requests(task[r])) + 1)
    BY <1>1, GeneratorAssumption DEF Local, WrittenWhenAnswered, TypeOK
  <2> QED
    BY <1>1, <2>1 DEF WrittenWhenAnswered
<1>10. Clean1(r)' /\ Piped(r)'
  BY <1>1, <1>4 DEF Local, Clean1, Piped, NothingToFind
<1> QED
  BY <1>6, <1>7, <1>8, <1>9, <1>10 DEF Kept, Local

\* writeTo returns or throws.
LEMMA WriteEndsKeeps ==
  ASSUME TypeOK, NEW r \in Runs, Local(r), UNCHANGED bvars,
         HandlerThrows(r) \/ PartThrows(r) \/ EndWrite(r)
  PROVE  Kept(r)
<1>1. /\ child[r] \notin {"none", "gone"} /\ wire[r].is = "asked" /\ wire[r].call = "write"
      /\ UNCHANGED <<task, open, written, pipe, dir, pc, at>>
  BY DEF HandlerThrows, PartThrows, EndWrite, bvars, Local, Busy, Writing
<1>2. CASE EndWrite(r)
  <2>1. Answer(r) /\ UNCHANGED printed /\ written[r] = LastPart /\ child[r] # "index"
    BY <1>2 DEF EndWrite
  <2>2. Local(r)'
    BY <1>1, <2>1, AnswerKeeps
  <2>3. TypeOK'
    BY <1>1, <2>1, EndsType DEF TypeOK, bvars, Wires, Children
  <2> QED
    BY <2>2, <2>3 DEF Kept
<1>3. CASE HandlerThrows(r) \/ PartThrows(r)
  <2>1. Throw(r) /\ UNCHANGED served
    BY <1>3 DEF HandlerThrows, PartThrows
  <2>2. Local(r)'
    BY <1>1, <2>1, ThrowKeeps
  <2>3. TypeOK'
    BY <1>1, <2>1, EndsType DEF TypeOK, bvars, Wires, Children
  <2> QED
    BY <2>2, <2>3 DEF Kept
<1> QED
  BY <1>2, <1>3

LEMMA GoneKeeps ==
  ASSUME TypeOK, NEW r \in Runs, Local(r), UNCHANGED bvars,
         CloseIndex(r) \/ Notice(r) \/ Dies(r)
  PROVE  Kept(r)
<1>1. child[r] \notin {"none", "gone"} /\ UNCHANGED <<pc, at>>
  BY DEF CloseIndex, Notice, Dies, Asked, bvars
<1>2. CASE Vanish(r)
  <2>1. UNCHANGED <<task, open, written, dir>>
    BY <1>2 DEF Vanish
  <2>2. TypeOK'
    BY <1>2, <2>1, EndsType DEF TypeOK, bvars, Wires, Children, Pipes
  <2>3. Local(r)'
    BY <1>1, <1>2, VanishKeeps
  <2> QED
    BY <2>2, <2>3 DEF Kept
<1>3. CASE ~Vanish(r)
  <2>1. /\ child[r] # "index" /\ wire[r].is = "asked" /\ wire[r].call = "close"
        /\ Answer(r) /\ UNCHANGED <<task, open, written, printed, pipe, dir>>
    BY <1>3 DEF CloseIndex, Notice, Dies, Asked
  <2>2. Local(r)'
    BY <1>1, <2>1, AnswerKeeps
  <2>3. TypeOK'
    BY <2>1, EndsType DEF TypeOK, bvars, Wires, Children
  <2> QED
    BY <2>2, <2>3 DEF Kept
<1> QED
  BY <1>2, <1>3

\* A generator touches nothing of another run but the output directory.
LEMMA GeneratorSame ==
  ASSUME TypeOK, NEW r \in Runs, NEW s \in Runs, s # r, GeneratorNext(r), UNCHANGED bvars
  PROVE  Same(s)
<1> USE DEF TypeOK, bvars, Same
<1>1. CASE Store(r) \/ Fork(r) \/ IndexThrows(r) \/ ReadIncludes(r) \/ Filter(r) \/ FilterThrows(r)
  BY SMTT(30), <1>1 DEF Store, Fork, IndexThrows, ReadIncludes, Filter, FilterThrows, Answer, Throw, Logged
<1>2. CASE BeginWrite(r) \/ HandlersReturn(r) \/ HandlerThrows(r)
  BY SMTT(30), <1>2 DEF BeginWrite, HandlersReturn, HandlerThrows, Throw
<1>3. CASE BeginPart(r) \/ EndPart(r) \/ PartThrows(r) \/ EndWrite(r)
  BY SMTT(30), <1>3 DEF BeginPart, EndPart, PartThrows, EndWrite, Answer, Throw, Logged
<1>4. CASE CloseIndex(r) \/ Notice(r) \/ Dies(r)
  BY SMTT(30), <1>4 DEF CloseIndex, Notice, Dies, Answer, Vanish, Forget
<1>5. CASE CompilerStep(r) \/ CompilerDies(r)
  BY <1>5 DEF CompilerStep, CompilerPrints, CompilerExits, CompilerDies
<1> QED
  BY <1>1, <1>2, <1>3, <1>4, <1>5 DEF GeneratorNext, GeneratorStep

LEMMA GeneratorKeeps ==
  ASSUME TypeOK, \A s \in Runs : Local(s), NEW r \in Runs, GeneratorNext(r), UNCHANGED bvars
  PROVE  TypeOK' /\ \A s \in Runs : Local(s)'
<1>1. Kept(r)
  BY StoreKeeps, ForkKeeps, IndexThrowsKeeps, ReadIncludesKeeps, FilterKeeps, WritingKeeps, EndPartKeeps,
     WriteEndsKeeps, GoneKeeps, CompilerKeeps
  DEF GeneratorNext, GeneratorStep
<1>2. ASSUME NEW s \in Runs, s # r PROVE Local(s)'
  BY <1>2, GeneratorSame, SameKeeps
<1> QED
  BY <1>1, <1>2 DEF Kept

-----------------------------------------------------------------------------
(* A run comes and goes, and makes its calls.                                *)

LEMMA BeginKeeps ==
  ASSUME TypeOK, \A s \in Runs : Local(s), NEW r \in Runs, NEW t \in Tasks, Begin(r, t)
  PROVE  TypeOK' /\ \A s \in Runs : Local(s)'
<1>1. /\ task' = [task EXCEPT ![r] = t] /\ pc' = [pc EXCEPT ![r] = "look"] /\ pc[r] = "unborn"
      /\ UNCHANGED <<wire, open, child, served, written, printed, pipe, dir>>
      /\ UNCHANGED <<at, memo, file, openers, exe, image>>
  BY DEF Begin
<1>2. TypeOK'
  BY <1>1 DEF TypeOK
<1>3. task'[r] = t /\ pc'[r] = "look"
  BY <1>1 DEF TypeOK
<1>4. NotYet(r) /\ child[r] = "none" /\ wire[r] = Quiet
  BY <1>1 DEF Local, NotYet, Early
<1>5. NotYet(r)'
  BY <1>1, <1>3, <1>4, GeneratorAssumption DEF NotYet, Early
<1>6. Busy(r)' /\ InOrder(r)' /\ WrittenWhenAnswered(r)' /\ Clean1(r)' /\ Piped(r)'
  BY <1>1, <1>3, <1>4
  DEF Local, Busy, InOrder, WrittenWhenAnswered, Clean1, Piped, NothingToFind, Quiet, Writing
<1>7. ASSUME NEW s \in Runs, s # r PROVE Local(s)'
  <2>1. Same(s)
    BY <1>1, <1>7 DEF TypeOK, Same
  <2> QED
    BY <2>1, SameKeeps
<1> QED
  BY <1>2, <1>5, <1>6, <1>7 DEF Local

\* A run that is left, for good or for bad.
LEMMA LeaveKeeps ==
  ASSUME TypeOK, \A s \in Runs : Local(s), NEW r \in Runs, NEW how \in {"ok", "failed"},
         Active(r), how = "ok" => wire[r] = Quiet,
         Leave(r, how), UNCHANGED <<memo, file, openers>>
  PROVE  TypeOK' /\ \A s \in Runs : Local(s)'
<1>1. /\ pc' = [pc EXCEPT ![r] = how] /\ open' = [open EXCEPT ![r] = FALSE]
      /\ at' = [at EXCEPT ![r] = 1] /\ exe' = [exe EXCEPT ![r] = NoHome]
      /\ UNCHANGED <<task, child, served, written, dir, image>>
  BY DEF Leave
<1>2. \/ child[r] = "gone" /\ Forget(r)
      \/ child[r] # "gone" /\ UNCHANGED <<wire, printed, pipe>>
  BY DEF Leave
<1>3. wire' \in Wires /\ printed' \in [Runs -> BOOLEAN]
  BY <1>2 DEF Forget, TypeOK, Wires
<1>4. pipe' \in Pipes
  <2>1. NoPipe \in [compiler : {"off", "runs", "exited", "died"},
                    size : Nat, list : Nat, printed : Nat, held : Nat]
    BY DEF NoPipe
  <2> QED
    BY ZenonT(60), <1>2, <2>1 DEF Forget, TypeOK, Pipes
<1>5. TypeOK'
  BY <1>1, <1>3, <1>4 DEF TypeOK, Wires, Pipes
<1>6. pc'[r] = how /\ open'[r] = FALSE /\ at'[r] = 1 /\ task[r] # NoTask
  BY <1>1 DEF TypeOK, Local, NotYet, Active
<1>7. NotYet(r)'
  BY <1>1, <1>6 DEF NotYet, Early
<1>8. \/ wire'[r] = Quiet /\ printed'[r] = FALSE /\ child[r] = "gone"
      \/ wire'[r] = wire[r] /\ printed'[r] = printed[r] /\ pipe'[r] = pipe[r] /\ child[r] # "gone"
  BY <1>2 DEF Forget, TypeOK
<1>9. Busy(r)' /\ Clean1(r)' /\ Piped(r)'
  BY <1>1, <1>6, <1>8 DEF Local, Busy, Clean1, Piped, NothingToFind, Quiet, Writing
<1>10. InOrder(r)' /\ WrittenWhenAnswered(r)'
  <2>1. pc'[r] # "calling"
    BY <1>6
  <2>2. WrittenWhenAnswered(r)'
    BY <2>1 DEF WrittenWhenAnswered
  <2>3. CASE wire'[r] = Quiet
    BY <1>6, <2>1, <2>2, <2>3 DEF InOrder, Quiet
  <2>4. CASE wire'[r] = wire[r]
    <3>1. wire[r].is = "asked" /\ child[r] # "gone" =>
            \E i \in 1 .. Len(Calls(task[r])) :
              /\ wire[r].call = Calls(task[r])[i]
              /\ Len(served[r]) = i - 1 /\ \A j \in 1 .. i - 1 : served[r][j] = Calls(task[r])[j]
      BY DEF Local, InOrder, Upto
    <3>2. child' = child /\ task' = task /\ served' = served /\ at'[r] >= 1
      BY <1>1, <1>6
    <3> QED
      BY <2>1, <2>2, <2>4, <3>1, <3>2 DEF InOrder, Upto
  <2> QED
    BY <1>8, <2>3, <2>4
<1>11. ASSUME NEW s \in Runs, s # r PROVE Local(s)'
  <2>1. Same(s)
    BY <1>1, <1>2, <1>11 DEF TypeOK, Same, Forget
  <2> QED
    BY <2>1, SameKeeps
<1> QED
  BY <1>5, <1>7, <1>9, <1>10, <1>11 DEF Local

\* What happens to files and daemons before a generator is started.
LEMMA UnpackingKeeps ==
  ASSUME TypeOK, \A s \in Runs : Local(s), NEW r \in Runs,
         \/ LookUp(r) \/ Copied(r) \/ Memoize(r)
         \/ Unpack(r) /\ ~Running(exe[r])
  PROVE  TypeOK' /\ \A s \in Runs : Local(s)'
<1>1. /\ UNCHANGED <<gvars, at>> /\ pc[r] \in Early \ {"unborn"}
      /\ \E to \in Early \ {"unborn"} : pc' = [pc EXCEPT ![r] = to]
  BY DEF LookUp, Copied, Memoize, Unpack, Early
<1>2. task[r] \in Tasks
  BY <1>1 DEF TypeOK, Local, NotYet
<1>3. TypeOK'
  <2>1. CASE LookUp(r)
    <3>1. HomeOf[task[r]] \in Homes
      BY <1>2, BuildAssumption
    <3>2. pc' = [pc EXCEPT ![r] = "exec"] \/ pc' = [pc EXCEPT ![r] = "unpack"]
      BY <2>1 DEF LookUp
    <3>3. exe' = [exe EXCEPT ![r] = memo] \/ exe' = [exe EXCEPT ![r] = HomeOf[task[r]]]
      BY <2>1 DEF LookUp
    <3>4. UNCHANGED <<at, memo, file, openers, image>>
      BY <2>1 DEF LookUp
    <3>5. exe' \in [Runs -> Homes \cup {NoHome}]
      BY ZenonT(60), <3>1, <3>3 DEF TypeOK
    <3>6. pc' \in [Runs -> {"unborn", "look", "unpack", "copy", "memo", "exec", "calling", "ok", "failed"}]
      BY <3>2 DEF TypeOK
    <3> QED
      BY <1>1, <3>4, <3>5, <3>6 DEF TypeOK, gvars
  <2>2. CASE Copied(r)
    BY ZenonT(60), <1>1, <2>2 DEF TypeOK, gvars, Copied
  <2>3. CASE Memoize(r)
    BY SMTT(30), <1>1, <2>3 DEF TypeOK, gvars, Memoize
  <2>4. CASE Unpack(r) /\ ~Running(exe[r])
    <3>1. /\ pc' = [pc EXCEPT ![r] = "copy"]
          /\ file' = [file EXCEPT ![exe[r]] = "partial"]
          /\ openers' = [openers EXCEPT ![exe[r]] = Append(@, r)]
          /\ UNCHANGED <<memo, exe, image>>
      BY <2>4 DEF Unpack
    <3>2. openers' \in [Homes -> Seq(Runs)]
      <4>1. \A h \in Homes : Append(openers[h], r) \in Seq(Runs)
        BY DEF TypeOK
      <4> QED
        BY <3>1, <4>1 DEF TypeOK
    <3> QED
      BY <1>1, <3>1, <3>2 DEF TypeOK, gvars
  <2> QED
    BY <2>1, <2>2, <2>3, <2>4
<1>4. Local(r)'
  <2>1. pc'[r] \in Early \ {"unborn"}
    BY <1>1 DEF TypeOK
  <2>2. NotYet(r)'
    BY <1>1, <2>1 DEF gvars, Local, NotYet, Early
  <2>3. Busy(r)' /\ Clean1(r)' /\ Piped(r)'
    BY <1>1, <2>1 DEF gvars, Local, NotYet, Busy, Clean1, Piped, NothingToFind, Early, Quiet
  <2>4. InOrder(r)' /\ WrittenWhenAnswered(r)'
    BY <1>1, <2>1 DEF gvars, Local, NotYet, InOrder, WrittenWhenAnswered, Early, Quiet
  <2> QED
    BY <2>2, <2>3, <2>4 DEF Local
<1>5. ASSUME NEW s \in Runs, s # r PROVE Local(s)'
  <2>1. Same(s)
    BY <1>1, <1>5 DEF TypeOK, Same, gvars
  <2> QED
    BY <2>1, SameKeeps
<1> QED
  BY <1>3, <1>4, <1>5

LEMMA ExecKeeps ==
  ASSUME TypeOK, \A s \in Runs : Local(s), NEW r \in Runs,
         Exec(r), file[exe[r]] = "whole", ~Copying(exe[r])
  PROVE  TypeOK' /\ \A s \in Runs : Local(s)'
<1>1. /\ pc[r] = "exec" /\ pc' = [pc EXCEPT ![r] = "calling"]
      /\ child' = [child EXCEPT ![r] = "idle"] /\ open' = [open EXCEPT ![r] = TRUE]
      /\ image' = [image EXCEPT ![r] = exe[r]] /\ exe' = [exe EXCEPT ![r] = NoHome]
      /\ UNCHANGED <<task, wire, served, written, printed, pipe, dir, at, memo, file, openers>>
  BY DEF Exec
<1>2. TypeOK'
  BY <1>1 DEF TypeOK
<1>3. pc'[r] = "calling" /\ child'[r] = "idle" /\ open'[r] = TRUE
  BY <1>1 DEF TypeOK
<1>4. task[r] \in Tasks /\ wire[r] = Quiet /\ served[r] = <<>> /\ at[r] = 1
  BY <1>1 DEF TypeOK, Local, NotYet, Early
<1>5. NotYet(r)' /\ Busy(r)' /\ Clean1(r)' /\ Piped(r)'
  BY <1>1, <1>3, <1>4, GeneratorAssumption
  DEF Local, NotYet, Busy, Clean1, Piped, NothingToFind, Early, Writing, Quiet
<1>6. InOrder(r)'
  <2>1. Upto(r, at[r] - 1)'
    <3>1. at[r] - 1 = 0 /\ Len(<<>>) = 0
      BY <1>4
    <3> QED
      BY <1>1, <1>4, <3>1 DEF Upto
  <2> QED
    BY <1>1, <1>3, <1>4, <2>1 DEF InOrder, Quiet
<1>7. WrittenWhenAnswered(r)'
  <2>1. Len(Requests(task[r])) \in Nat
    BY <1>4, CallsLayout
  <2> QED
    BY <1>1, <1>4, <2>1 DEF WrittenWhenAnswered, Quiet
<1>8. ASSUME NEW s \in Runs, s # r PROVE Local(s)'
  <2>1. Same(s)
    BY <1>1, <1>8 DEF TypeOK, Same
  <2> QED
    BY <2>1, SameKeeps
<1> QED
  BY <1>2, <1>5, <1>6, <1>7, <1>8 DEF Local

LEMMA SendKeeps ==
  ASSUME TypeOK, \A s \in Runs : Local(s), NEW r \in Runs, Send(r)
  PROVE  TypeOK' /\ \A s \in Runs : Local(s)'
<1> DEFINE call == Calls(task[r])[at[r]]
<1>1. /\ pc[r] = "calling" /\ wire[r] = Quiet /\ at[r] <= Len(Calls(task[r]))
      /\ wire' = [wire EXCEPT ![r] = [call |-> call, is |-> "asked"]]
      /\ UNCHANGED <<task, open, child, served, written, printed, pipe, dir, bvars>>
  BY DEF Send
<1>2. task[r] \in Tasks
  BY <1>1, AliveHasTask
<1>3. Calls(task[r]) \in Seq(CallNames)
  BY <1>2, CallsLayout
<1>4. at[r] \in 1 .. Len(Calls(task[r])) /\ at[r] \in Nat
  BY <1>1, <1>3 DEF TypeOK, Local, InOrder
<1>5. call \in CallNames
  BY <1>3, <1>4
<1> HIDE DEF call
<1>6. TypeOK'
  BY <1>1, <1>5 DEF TypeOK, bvars
<1>7. wire'[r] = [call |-> call, is |-> "asked"]
  BY <1>1 DEF TypeOK
<1>8. NotYet(r)' /\ Busy(r)' /\ Clean1(r)' /\ Piped(r)'
  BY <1>1, <1>7 DEF bvars, Local, NotYet, Busy, Clean1, Piped, NothingToFind, Early, Writing, Quiet
<1>9. InOrder(r)'
  <2>1. child[r] # "gone" => Upto(r, at[r] - 1)
    BY <1>1 DEF Local, InOrder, Quiet
  <2>2. child' = child /\ task' = task /\ served' = served /\ at' = at /\ pc' = pc
    BY <1>1 DEF bvars
  <2>3. child[r] # "gone" =>
          Len(served[r]) = at[r] - 1 /\ \A j \in 1 .. at[r] - 1 : served[r][j] = Calls(task[r])[j]
    BY <2>1 DEF Upto
  <2>4. at[r] >= 1
    BY <1>4
  <2>5. wire'[r].is = "asked" /\ wire'[r].call = Calls(task[r])[at[r]]
    BY <1>7 DEF call
  <2>6. child'[r] # "gone" =>
          /\ Len(served'[r]) = at'[r] - 1
          /\ \A j \in 1 .. at'[r] - 1 : served'[r][j] = Calls(task'[r])[j]
    BY <2>2, <2>3
  <2>7. child'[r] # "gone" =>
          \E i \in 1 .. Len(Calls(task'[r])) : wire'[r].call = Calls(task'[r])[i] /\ Upto(r, i - 1)'
    <3> SUFFICES ASSUME child'[r] # "gone"
                 PROVE  \E i \in 1 .. Len(Calls(task'[r])) :
                          wire'[r].call = Calls(task'[r])[i] /\ Upto(r, i - 1)'
      OBVIOUS
    <3>1. at'[r] \in 1 .. Len(Calls(task'[r])) /\ wire'[r].call = Calls(task'[r])[at'[r]]
      BY <1>4, <2>2, <2>5
    <3> QED
      BY <2>6, <3>1 DEF Upto
  <2>8. at'[r] <= Len(Calls(task'[r])) /\ wire'[r].call = Calls(task'[r])[at'[r]] /\ at'[r] >= 1
    BY <1>4, <2>2, <2>4, <2>5
  <2>9. child'[r] # "gone" => Upto(r, IF wire[r].is = "answered" THEN at[r] ELSE at[r] - 1)'
    BY <2>5, <2>6 DEF Upto
  <2> QED
    BY <2>5, <2>7, <2>8, <2>9 DEF InOrder
<1>10. WrittenWhenAnswered(r)'
  BY <1>1, <1>7 DEF bvars, Local, WrittenWhenAnswered
<1>11. ASSUME NEW s \in Runs, s # r PROVE Local(s)'
  <2>1. Same(s)
    BY <1>1, <1>11 DEF TypeOK, Same, bvars
  <2> QED
    BY <2>1, SameKeeps
<1> QED
  BY <1>6, <1>8, <1>9, <1>10, <1>11 DEF Local

\* The next call: the last one was answered, or was a close that failed.
LEMMA GoOnKeeps ==
  ASSUME TypeOK, \A s \in Runs : Local(s), NEW r \in Runs, pc[r] = "calling",
         wire[r] # Quiet, wire[r].is = "answered" \/ wire[r].call = "close",
         wire[r].call = "close" \/ child[r] \notin Writing \cup {"index"},
         GoOn(r), UNCHANGED <<memo, file, openers>>
  PROVE  TypeOK' /\ \A s \in Runs : Local(s)'
<1>1. /\ wire' = [wire EXCEPT ![r] = Quiet] /\ at' = [at EXCEPT ![r] = @ + 1]
      /\ UNCHANGED <<task, open, child, served, written, printed, pipe, dir, pc, exe, image>>
  BY DEF GoOn
<1>2. TypeOK'
  <2>1. wire' \in Wires
    BY <1>1 DEF TypeOK, Wires
  <2>2. at' \in [Runs -> Nat]
    BY <1>1 DEF TypeOK
  <2> QED
    BY <1>1, <2>1, <2>2 DEF TypeOK, Wires
<1>3. wire'[r] = Quiet /\ at'[r] = at[r] + 1 /\ at[r] \in Nat
  BY <1>1 DEF TypeOK
<1>4. task[r] \in Tasks
  BY AliveHasTask
<1> DEFINE calls == Calls(task[r])
           n == Mappings[task[r]]
<1>5. /\ Len(calls) = 6 + n /\ Len(Requests(task[r])) = 4 + n /\ n \in Nat
      /\ calls[5 + n] = "write" /\ calls[6 + n] = "close"
      /\ \A i \in 1 .. 4 + n : calls[i] \notin {"write", "close"}
  BY <1>4, CallsLayout, NoWriteBefore
<1>6. wire[r] # Quiet /\ at[r] <= Len(calls) /\ wire[r].call = calls[at[r]] /\ at[r] >= 1
  BY DEF Local, InOrder, Quiet
<1>7. wire[r].call = "close" => at[r] = 6 + n
  <2> HIDE DEF calls, n
  <2>1. at[r] \in 1 .. 4 + n \/ at[r] = 5 + n \/ at[r] = 6 + n
    BY <1>3, <1>5, <1>6
  <2> QED
    BY <1>5, <1>6, <2>1
<1>8. NotYet(r)'
  BY <1>1, <1>3 DEF Local, NotYet, Early
<1>9. Busy(r)' /\ Piped(r)'
  BY <1>1, <1>3 DEF Local, Busy, Piped, NothingToFind, Quiet, Writing
<1>10. Clean1(r)'
  BY <1>1, <1>3 DEF Local, Clean1, Busy, Quiet, TypeOK
<1>11. InOrder(r)'
  <2>1. ASSUME child[r] # "gone", at[r] + 1 <= Len(calls)
        PROVE  Len(served[r]) = at[r] /\ \A j \in 1 .. at[r] : served[r][j] = calls[j]
    <3>1. wire[r].is = "answered"
      BY <1>3, <1>5, <1>7, <2>1
    <3>2. Upto(r, at[r])
      BY <1>6, <3>1, <2>1 DEF Local, InOrder
    <3> QED
      BY <3>2 DEF Upto
  <2>2. at[r] + 1 - 1 = at[r] /\ at[r] + 1 >= 1
    BY <1>3
  <2>3. child' = child /\ task' = task /\ served' = served /\ pc' = pc
    BY <1>1
  <2> QED
    BY <1>3, <2>1, <2>2, <2>3 DEF InOrder, Upto, Quiet
<1>12. WrittenWhenAnswered(r)'
  <2>1. ASSUME at[r] + 1 > 5 + n PROVE written[r] = LastPart
    <3> HIDE DEF calls, n
    <3>1. at[r] = 5 + n \/ at[r] = 6 + n
      BY <1>3, <1>5, <1>6, <2>1
    <3>2. CASE at[r] = 6 + n
      BY <1>5, <3>2 DEF Local, WrittenWhenAnswered
    <3>3. CASE at[r] = 5 + n
      <4>1. wire[r].call = "write" /\ wire[r].is = "answered"
        BY <1>5, <1>6, <3>3
      <4>2. wire[r] = [call |-> "write", is |-> "answered"]
        BY <4>1 DEF TypeOK, Quiet
      <4> QED
        BY <4>2 DEF Local, WrittenWhenAnswered
    <3> QED
      BY <3>1, <3>2, <3>3
  <2> HIDE DEF calls, n
  <2>2. ASSUME at[r] + 1 > Len(Requests(task[r])) + 1 PROVE written[r] = LastPart
    <3>1. at[r] + 1 > 5 + n
      BY <1>3, <1>5, <2>2
    <3> QED
      BY <2>1, <3>1
  <2> QED
    BY <1>1, <1>3, <2>2 DEF WrittenWhenAnswered, Quiet
<1>13. ASSUME NEW s \in Runs, s # r PROVE Local(s)'
  <2>1. Same(s)
    BY <1>1, <1>13 DEF TypeOK, Same
  <2> QED
    BY <2>1, SameKeeps
<1> QED
  BY <1>2, <1>8, <1>9, <1>10, <1>11, <1>12, <1>13 DEF Local

LEMMA TaskKeeps ==
  ASSUME TypeOK, \A s \in Runs : Local(s), NEW r \in Runs, TaskStep(r) \/ Abort(r)
  PROVE  TypeOK' /\ \A s \in Runs : Local(s)'
<1>1. CASE LookUp(r) \/ Copied(r) \/ Memoize(r) \/ (Unpack(r) /\ ~Running(exe[r]))
  BY <1>1, UnpackingKeeps
<1>2. CASE Unpack(r) /\ Running(exe[r])
  <2>1. Active(r) /\ Leave(r, "failed") /\ UNCHANGED <<memo, file, openers>>
    BY <1>2 DEF Unpack, Active
  <2> QED
    BY <2>1, LeaveKeeps
<1>3. CASE Exec(r) /\ file[exe[r]] = "whole" /\ ~Copying(exe[r])
  BY <1>3, ExecKeeps
<1>4. CASE Exec(r) /\ ~(file[exe[r]] = "whole" /\ ~Copying(exe[r]))
  <2>1. Active(r) /\ Leave(r, "failed") /\ UNCHANGED <<memo, file, openers>>
    BY <1>4 DEF Exec, Active
  <2> QED
    BY <2>1, LeaveKeeps
<1>5. CASE Send(r)
  BY <1>5, SendKeeps
<1>6. CASE Receive(r)
  <2>1. pc[r] = "calling" /\ wire[r].is = "answered" /\ GoOn(r) /\ UNCHANGED <<memo, file, openers>>
    BY <1>6 DEF Receive
  <2>2. wire[r] # Quiet /\ child[r] \notin Writing \cup {"index"}
    BY <2>1 DEF Local, Busy, Quiet
  <2> QED
    BY <2>1, <2>2, GoOnKeeps
<1>7. CASE CallFails(r)
  <2>1. pc[r] = "calling" /\ UNCHANGED <<memo, file, openers>>
    BY <1>7 DEF CallFails
  <2>2. CASE wire[r].call = "close"
    <3>1. GoOn(r) /\ wire[r] # Quiet
      BY <1>7, <2>2 DEF CallFails, Quiet
    <3> QED
      BY <2>1, <2>2, <3>1, GoOnKeeps
  <2>3. CASE wire[r].call # "close"
    <3>1. Leave(r, "failed") /\ Active(r)
      BY <1>7, <2>1, <2>3 DEF CallFails, Active
    <3> QED
      BY <2>1, <3>1, LeaveKeeps
  <2> QED
    BY <2>2, <2>3
<1>8. CASE Finish(r)
  <2>1. Active(r) /\ wire[r] = Quiet /\ Leave(r, "ok") /\ UNCHANGED <<memo, file, openers>>
    BY <1>8 DEF Finish, Active
  <2> QED
    BY <2>1, LeaveKeeps
<1>9. CASE Abort(r)
  <2>1. Active(r) /\ Leave(r, "failed") /\ UNCHANGED <<memo, file, openers>>
    BY <1>9 DEF Abort
  <2> QED
    BY <2>1, LeaveKeeps
<1> QED
  BY <1>1, <1>2, <1>3, <1>4, <1>5, <1>6, <1>7, <1>8, <1>9 DEF TaskStep

LEMMA CleanKeeps ==
  ASSUME TypeOK, \A s \in Runs : Local(s), (\E h \in Homes : Clean(h)) \/ NewDaemon
  PROVE  TypeOK' /\ \A s \in Runs : Local(s)'
<1>1. UNCHANGED <<task, wire, open, child, served, written, printed, pipe, pc, at>>
  BY DEF Clean, NewDaemon, gvars
<1>2. TypeOK'
  <2>1. <<>> \in Seq(Runs)
    OBVIOUS
  <2>2. CASE NewDaemon
    BY <1>1, <2>1, <2>2 DEF NewDaemon, gvars, TypeOK
  <2>3. ASSUME NEW h \in Homes, Clean(h) PROVE TypeOK'
    <3>1. file' \in [Homes -> {"absent", "partial", "whole"}] /\ openers' \in [Homes -> Seq(Runs)]
      BY <2>1, <2>3 DEF Clean, TypeOK
    <3>2. image' \in [Runs -> Homes \cup {NoHome}]
      BY <2>3 DEF Clean, TypeOK
    <3>3. dir' \in [Tasks -> [Parts -> None .. Mixed]]
      <4>1. None \in None .. Mixed
        BY GeneratorAssumption DEF None, Mixed
      <4> QED
        BY <2>3, <4>1 DEF Clean, TypeOK
    <3>4. UNCHANGED <<memo, exe>>
      BY <2>3 DEF Clean
    <3> QED
      BY <1>1, <3>1, <3>2, <3>3, <3>4 DEF TypeOK
  <2> QED
    BY <2>2, <2>3
<1>3. ASSUME NEW s \in Runs PROVE Local(s)'
  <2>1. Same(s)
    BY <1>1 DEF Same
  <2> QED
    BY <2>1, SameKeeps
<1> QED
  BY <1>2, <1>3

LEMMA StepKeepsLocal ==
  ASSUME TypeOK, \A s \in Runs : Local(s), [Next]_vars
  PROVE  TypeOK' /\ \A s \in Runs : Local(s)'
<1>1. ASSUME NEW r \in Runs, NEW t \in Tasks, Begin(r, t) PROVE TypeOK' /\ \A s \in Runs : Local(s)'
  BY <1>1, BeginKeeps
<1>2. ASSUME NEW r \in Runs, TaskStep(r) \/ Abort(r) PROVE TypeOK' /\ \A s \in Runs : Local(s)'
  BY <1>2, TaskKeeps
<1>3. ASSUME NEW r \in Runs, Generate(r) PROVE TypeOK' /\ \A s \in Runs : Local(s)'
  BY <1>3, GeneratorKeeps DEF Generate
<1>4. CASE (\E h \in Homes : Clean(h)) \/ NewDaemon
  BY <1>4, CleanKeeps
<1>5. CASE UNCHANGED vars
  <2>1. \A s \in Runs : Same(s)
    BY <1>5 DEF vars, gvars, bvars, Same
  <2>2. TypeOK'
    BY <1>5 DEF vars, gvars, bvars, TypeOK
  <2> QED
    BY <2>1, <2>2, SameKeeps
<1> QED
  BY <1>1, <1>2, <1>3, <1>4, <1>5 DEF Next

-----------------------------------------------------------------------------
(* What a step means to runs of the same task, and to a build.               *)

\* Nothing that a build sees.
Calm ==
  /\ UNCHANGED <<task, written, dir>>
  /\ \A s \in Runs : Status(s)' = Status(s) /\ (child'[s] = "part" => child[s] = "part")

\* A run is over.
Left(r, how) ==
  /\ UNCHANGED <<task, written, dir, child>>
  /\ Active(r) /\ pc' = [pc EXCEPT ![r] = how]
  /\ how = "failed" \/ (how = "ok" /\ written[r] = LastPart)

LEMMA TaskEffects ==
  ASSUME TypeOK, \A s \in Runs : Local(s), NEW r \in Runs, TaskStep(r) \/ Abort(r)
  PROVE  Calm \/ \E how \in {"ok", "failed"} : Left(r, how)
<1>1. CASE LookUp(r) \/ Copied(r) \/ Memoize(r) \/ (Unpack(r) /\ ~Running(exe[r]))
  <2>1. CASE LookUp(r)
    BY SMTT(30), <2>1 DEF LookUp, Calm, Status, Ended, gvars, TypeOK
  <2>2. CASE Copied(r)
    BY SMTT(30), <2>2 DEF Copied, Calm, Status, Ended, gvars, TypeOK
  <2>3. CASE Memoize(r)
    BY SMTT(30), <2>3 DEF Memoize, Calm, Status, Ended, gvars, TypeOK
  <2>4. CASE Unpack(r) /\ ~Running(exe[r])
    BY SMTT(30), <2>4 DEF Unpack, Calm, Status, Ended, gvars, TypeOK
  <2> QED
    BY <1>1, <2>1, <2>2, <2>3, <2>4
<1>2. CASE Exec(r) /\ file[exe[r]] = "whole" /\ ~Copying(exe[r])
  BY SMTT(30), <1>2 DEF Exec, Calm, Status, Ended, TypeOK
<1>3. CASE Send(r) \/ Receive(r) \/ (CallFails(r) /\ wire[r].call = "close")
  BY <1>3 DEF Send, Receive, CallFails, GoOn, Calm, Status, Ended, bvars
<1>4. CASE \/ Unpack(r) /\ Running(exe[r])
           \/ Exec(r) /\ ~(file[exe[r]] = "whole" /\ ~Copying(exe[r]))
           \/ CallFails(r) /\ wire[r].call # "close"
           \/ Abort(r)
  BY <1>4 DEF Unpack, Exec, CallFails, Abort, Leave, Left, Active
<1>5. CASE Finish(r)
  <2>1. pc[r] = "calling" /\ at[r] = Len(Calls(task[r])) + 1 /\ Leave(r, "ok")
    BY <1>5 DEF Finish
  <2>2. task[r] \in Tasks
    BY <2>1, AliveHasTask
  <2>3. at[r] > Len(Requests(task[r])) + 1
    BY SMTT(30), <2>1, <2>2, CallsLayout
  <2>4. written[r] = LastPart
    BY <2>1, <2>3 DEF Local, WrittenWhenAnswered
  <2> QED
    BY <2>1, <2>4 DEF Leave, Left, Active
<1> QED
  BY <1>1, <1>2, <1>3, <1>4, <1>5 DEF TaskStep

LEMMA GeneratorEffects ==
  ASSUME TypeOK, NEW r \in Runs, GeneratorNext(r), UNCHANGED bvars
  PROVE  Calm \/ BeginPart(r) \/ EndPart(r)
<1>1. \A s \in Runs : Status(s)' = Status(s)
  BY DEF bvars, Status, Ended
<1>2. ASSUME ~BeginPart(r), ~EndPart(r)
      PROVE  UNCHANGED <<task, written, dir>> /\ \A s \in Runs : child'[s] = "part" => child[s] = "part"
  <2>1. CASE Store(r) \/ Fork(r) \/ IndexThrows(r) \/ ReadIncludes(r) \/ Filter(r) \/ FilterThrows(r)
    BY SMTT(30), <2>1 DEF Store, Fork, IndexThrows, ReadIncludes, Filter, FilterThrows, Answer, Throw, TypeOK
  <2>2. CASE BeginWrite(r) \/ HandlersReturn(r) \/ HandlerThrows(r) \/ PartThrows(r) \/ EndWrite(r)
    BY SMTT(30), <2>2 DEF BeginWrite, HandlersReturn, HandlerThrows, PartThrows, EndWrite, Answer, Throw, TypeOK
  <2>3. CASE CloseIndex(r) \/ Notice(r) \/ Dies(r)
    BY <2>3 DEF CloseIndex, Notice, Dies, Answer, Vanish, TypeOK
  <2>4. CASE CompilerStep(r) \/ CompilerDies(r)
    BY <2>4 DEF CompilerStep, CompilerPrints, CompilerExits, CompilerDies
  <2> QED
    BY <1>2, <2>1, <2>2, <2>3, <2>4 DEF GeneratorNext, GeneratorStep
<1> QED
  BY <1>1, <1>2 DEF Calm

\* All steps there are.
LEMMA Effects ==
  ASSUME TypeOK, \A s \in Runs : Local(s), [Next]_vars
  PROVE  \/ Calm
         \/ \E r \in Runs, t \in Tasks : Begin(r, t)
         \/ \E r \in Runs, how \in {"ok", "failed"} : Left(r, how)
         \/ \E r \in Runs : (BeginPart(r) \/ EndPart(r)) /\ UNCHANGED bvars
         \/ \E h \in Homes : Clean(h)
<1>1. ASSUME NEW r \in Runs, TaskStep(r) \/ Abort(r)
      PROVE  Calm \/ \E how \in {"ok", "failed"} : Left(r, how)
  BY <1>1, TaskEffects
<1>2. ASSUME NEW r \in Runs, Generate(r)
      PROVE  Calm \/ ((BeginPart(r) \/ EndPart(r)) /\ UNCHANGED bvars)
  BY <1>2, GeneratorEffects DEF Generate
<1>3. ASSUME NewDaemon \/ UNCHANGED vars PROVE Calm
  BY <1>3 DEF NewDaemon, Calm, Status, Ended, vars, gvars, bvars
<1> QED
  BY <1>1, <1>2, <1>3 DEF Next

LEMMA StatusTells ==
  ASSUME TypeOK, NEW r \in Runs
  PROVE  /\ Active(r) <=> Status(r) = "running"
         /\ pc[r] = "failed" <=> Status(r) = "failed"
         /\ pc[r] = "unborn" <=> Status(r) = "idle"
BY DEF TypeOK, Active, Status, Ended

LEMMA PartNumber ==
  ASSUME TypeOK, NEW r \in Runs, written[r] < LastPart
  PROVE  written[r] \in Nat /\ written[r] + 1 \in Parts
<1>1. written[r] \in 0 .. LastPart /\ LastPart \in Nat
  BY GeneratorAssumption DEF TypeOK
<1> QED
  BY <1>1 DEF Parts

\* Who begins a part is at work; who ends one is, or has failed.
LEMMA WhoWrites ==
  ASSUME TypeOK, NEW r \in Runs, Local(r)
  PROVE  /\ BeginPart(r) => task[r] \in Tasks /\ Active(r) /\ written[r] < LastPart
         /\ EndPart(r) => task[r] \in Tasks /\ (Active(r) \/ pc[r] = "failed") /\ written[r] < LastPart
<1>1. ASSUME BeginPart(r) PROVE task[r] \in Tasks /\ Active(r) /\ written[r] < LastPart
  BY <1>1 DEF BeginPart, Local, NotYet, Active, TypeOK, Early
<1>2. ASSUME EndPart(r)
      PROVE  task[r] \in Tasks /\ (Active(r) \/ pc[r] = "failed") /\ written[r] < LastPart
  <2>1. child[r] = "part" /\ wire[r] # Quiet
    BY <1>2 DEF EndPart, Local, Busy, Writing, Quiet
  <2>2. task[r] \in Tasks /\ pc[r] \in {"calling", "ok", "failed"}
    BY <2>1, AliveHasTask
  <2> QED
    BY <2>1, <2>2 DEF Local, Busy, Active
<1> QED
  BY <1>1, <1>2

LEMMA StepKeepsOneAtATime ==
  ASSUME IInv, [Next]_vars
  PROVE  OneAtATime'
<1> USE DEF IInv
<1>1. TypeOK'
  BY StepKeepsLocal
<1>2. ASSUME UNCHANGED task, \A s \in Runs : Active(s)' => Active(s) PROVE OneAtATime'
  BY <1>2 DEF OneAtATime
<1>3. CASE Calm
  BY <1>1, <1>2, <1>3, StatusTells DEF Calm, Active, Status, Ended, TypeOK
<1>4. ASSUME NEW r \in Runs, NEW t \in Tasks, Begin(r, t) PROVE OneAtATime'
  <2>1. /\ task' = [task EXCEPT ![r] = t] /\ pc' = [pc EXCEPT ![r] = "look"]
        /\ \A s \in Runs : task[s] = t => ~Active(s)
    BY <1>4 DEF Begin
  <2>2. \A s \in Runs : s # r => task'[s] = task[s] /\ (Active(s)' <=> Active(s))
    BY <2>1 DEF Active, TypeOK
  <2>3. task'[r] = t
    BY <2>1 DEF TypeOK
  <2> QED
    BY <2>1, <2>2, <2>3 DEF OneAtATime
<1>5. ASSUME NEW r \in Runs, NEW how \in {"ok", "failed"}, Left(r, how) PROVE OneAtATime'
  BY <1>2, <1>5 DEF Left, Active, TypeOK
<1>6. ASSUME NEW r \in Runs, (BeginPart(r) \/ EndPart(r)) /\ UNCHANGED bvars PROVE OneAtATime'
  BY <1>2, <1>6 DEF BeginPart, EndPart, bvars, Active
<1>7. ASSUME NEW h \in Homes, Clean(h) PROVE OneAtATime'
  BY <1>2, <1>7 DEF Clean, Active
<1> QED
  BY <1>3, <1>4, <1>5, <1>6, <1>7, Effects

\* No failed run has the task of r.
Peaceful(r) == \A s \in Runs : task[s] = task[r] => pc[s] # "failed"
Own(r) ==
  /\ \A p \in 1 .. written[r] : dir[task[r]][p] = r
  /\ child[r] = "part" => dir[task[r]][written[r] + 1] = Torn(r)

LEMMA StepKeepsOwnParts ==
  ASSUME IInv, [Next]_vars
  PROVE  OwnParts'
<1> USE DEF IInv
<1>1. TypeOK' /\ OwnParts = \A r \in Runs : Active(r) /\ Peaceful(r) => Own(r)
  BY StepKeepsLocal DEF OwnParts, Peaceful, Own
<1>2. SUFFICES ASSUME NEW s \in Runs, Active(s)', Peaceful(s)' PROVE Own(s)'
  BY DEF OwnParts, Peaceful, Own
<1>3. CASE Calm
  <2>1. Active(s) /\ Peaceful(s)
    BY <1>1, <1>2, <1>3, StatusTells DEF Calm, Peaceful, TypeOK, Active, Status, Ended
  <2> QED
    BY <1>1, <1>3, <2>1 DEF Calm, Own
<1>4. ASSUME NEW r \in Runs, NEW t \in Tasks, Begin(r, t) PROVE Own(s)'
  <2>1. /\ task' = [task EXCEPT ![r] = t] /\ pc' = [pc EXCEPT ![r] = "look"] /\ pc[r] = "unborn"
        /\ UNCHANGED <<child, written, dir>>
    BY <1>4 DEF Begin
  <2>2. CASE s = r
    <3>1. written[r] = 0 /\ child[r] = "none"
      BY <2>1 DEF Local, NotYet, Early
    <3> QED
      BY <2>1, <2>2, <3>1 DEF Own
  <2>3. CASE s # r
    <3>1. task'[s] = task[s] /\ pc'[s] = pc[s]
      BY <2>1, <2>3 DEF TypeOK
    <3>2. task[s] # NoTask
      BY <1>2, <3>1 DEF Local, NotYet, Active
    <3>3. Active(s) /\ Peaceful(s)
      <4>1. task[r] = NoTask
        BY <2>1 DEF Local, NotYet
      <4>2. \A o \in Runs : o # r => task'[o] = task[o] /\ pc'[o] = pc[o]
        BY <2>1 DEF TypeOK
      <4> QED
        BY <1>2, <3>1, <3>2, <4>1, <4>2 DEF Peaceful, Active
    <3> QED
      BY <1>1, <2>1, <3>1, <3>3 DEF Own
  <2> QED
    BY <2>2, <2>3
<1>5. ASSUME NEW r \in Runs, NEW how \in {"ok", "failed"}, Left(r, how) PROVE Own(s)'
  <2>1. UNCHANGED <<task, written, dir, child>> /\ pc' = [pc EXCEPT ![r] = how] /\ Active(r)
    BY <1>5 DEF Left
  <2>2. Active(s) /\ Peaceful(s)
    BY <1>2, <2>1 DEF Active, Peaceful, TypeOK
  <2> QED
    BY <1>1, <2>1, <2>2 DEF Own
<1>6. ASSUME NEW r \in Runs, BeginPart(r), UNCHANGED bvars PROVE Own(s)'
  <2>1. /\ task[r] \in Tasks /\ Active(r) /\ written[r] < LastPart
        /\ child' = [child EXCEPT ![r] = "part"] /\ UNCHANGED <<task, written, pc>>
        /\ dir' = [dir EXCEPT ![task[r]][written[r] + 1] = Torn(r)]
    BY <1>6, WhoWrites DEF BeginPart, bvars
  <2>2. Active(s) /\ Peaceful(s)
    BY <1>2, <2>1 DEF Active, Peaceful
  <2>3. Own(s)
    BY <1>1, <2>2
  <2>4. written[r] \in Nat /\ written[r] + 1 \in Parts
    BY <2>1, PartNumber
  <2>5. CASE s = r
    <3>1. dir'[task[r]][written[r] + 1] = Torn(r)
      BY <2>1, <2>4 DEF TypeOK
    <3>2. \A p \in 1 .. written[r] : dir'[task[r]][p] = dir[task[r]][p]
      BY <2>1, <2>4 DEF TypeOK
    <3> QED
      BY <2>1, <2>3, <2>5, <3>1, <3>2 DEF Own
  <2>6. CASE s # r
    <3>1. task[s] # task[r]
      BY <2>1, <2>2, <2>6 DEF OneAtATime
    <3>2. dir'[task[s]] = dir[task[s]] /\ child'[s] = child[s]
      <4>1. task[s] \in Tasks
        BY <2>2 DEF Local, NotYet, Active, TypeOK
      <4> QED
        BY <2>1, <2>6, <3>1, <4>1 DEF TypeOK
    <3> QED
      BY <2>1, <2>3, <3>2 DEF Own
  <2> QED
    BY <2>5, <2>6
<1>7. ASSUME NEW r \in Runs, EndPart(r), UNCHANGED bvars PROVE Own(s)'
  <2>1. /\ task[r] \in Tasks /\ (Active(r) \/ pc[r] = "failed") /\ written[r] < LastPart
        /\ child[r] = "part" /\ child' = [child EXCEPT ![r] = "between"] /\ UNCHANGED <<task, pc>>
        /\ written' = [written EXCEPT ![r] = @ + 1]
        /\ dir' = [dir EXCEPT ![task[r]][written[r] + 1] = IF @ = Torn(r) THEN r ELSE Mixed]
    BY <1>7, WhoWrites DEF EndPart, bvars
  <2>2. Active(s) /\ Peaceful(s)
    BY <1>2, <2>1 DEF Active, Peaceful
  <2>3. Own(s)
    BY <1>1, <2>2
  <2>4. written[r] \in Nat /\ written[r] + 1 \in Parts
    BY <2>1, PartNumber
  <2>5. CASE s = r
    <3>1. dir'[task[r]][written[r] + 1] = r /\ written'[r] = written[r] + 1 /\ child'[r] = "between"
      BY <2>1, <2>3, <2>4, <2>5 DEF TypeOK, Own
    <3>2. \A p \in 1 .. written[r] : dir'[task[r]][p] = dir[task[r]][p]
      BY <2>1, <2>4 DEF TypeOK
    <3>3. \A p \in 1 .. written[r] + 1 : p \in 1 .. written[r] \/ p = written[r] + 1
      BY <2>4
    <3> QED
      BY <2>1, <2>3, <2>5, <3>1, <3>2, <3>3 DEF Own
  <2>6. CASE s # r
    <3>1. task[s] # task[r]
      BY <2>1, <2>2, <2>6 DEF OneAtATime, Peaceful
    <3>2. dir'[task[s]] = dir[task[s]] /\ child'[s] = child[s] /\ written'[s] = written[s]
      <4>1. task[s] \in Tasks
        BY <2>2 DEF Local, NotYet, Active, TypeOK
      <4> QED
        BY <2>1, <2>6, <3>1, <4>1 DEF TypeOK
    <3> QED
      BY <2>1, <2>3, <3>2 DEF Own
  <2> QED
    BY <2>5, <2>6
<1>8. ASSUME NEW h \in Homes, Clean(h) PROVE Own(s)'
  <2>1. /\ UNCHANGED <<task, written, child, pc>> /\ \A r \in Runs : Active(r) => HomeOf[task[r]] # h
        /\ dir' = [t \in Tasks |-> IF HomeOf[t] = h THEN [p \in Parts |-> None] ELSE dir[t]]
    BY <1>8 DEF Clean
  <2>2. Active(s) /\ Peaceful(s)
    BY <1>2, <2>1 DEF Active, Peaceful
  <2>3. task[s] \in Tasks
    BY <2>2 DEF Local, NotYet, Active, TypeOK
  <2>4. dir'[task[s]] = dir[task[s]]
    BY <2>1, <2>2, <2>3
  <2> QED
    BY <1>1, <2>1, <2>2, <2>4 DEF Own
<1> QED
  BY <1>3, <1>4, <1>5, <1>6, <1>7, <1>8, Effects

LEMMA StepInv == IInv /\ [Next]_vars => IInv'
<1> SUFFICES ASSUME IInv, [Next]_vars PROVE IInv'
  OBVIOUS
<1>1. TypeOK' /\ \A r \in Runs : Local(r)'
  BY StepKeepsLocal DEF IInv
<1>2. OneAtATime' /\ OwnParts'
  BY StepKeepsOneAtATime, StepKeepsOwnParts
<1> QED
  BY <1>1, <1>2 DEF IInv

LEMMA Invariance == Spec => []IInv
  BY InitInv, StepInv, PTL DEF Spec

-----------------------------------------------------------------------------
(* The promise.                                                              *)

\* What P!Write allows for one run.
MayBecome(s) ==
  \/ Output(s)' = Output(s)
  \/ Status(s) # "idle" /\ Output(s) = "no" /\ Output(s)' = "yes"
  \/ Status(s) # "idle" /\ P!Disturbed(s) /\ Output(s)' = "spoilt"

\* P!Disturbed, in terms of this module.
LEMMA DisturbedMeans ==
  ASSUME NEW s \in Runs
  PROVE  P!Disturbed(s) <=>
           \/ Status(s) # "running"
           \/ \E o \in Runs \ {s} : task[o] = task[s] /\ Status(o) = "failed"
BY DEF P!Disturbed, P!Rivals

LEMMA WriteImplements ==
  ASSUME \A s \in Runs : MayBecome(s) /\ Status(s)' = Status(s), UNCHANGED task
  PROVE  P!Write
<1>1. \A s \in Runs : Output(s)' \in {"no", "yes", "spoilt"}
  BY DEF Output
<1>2. [s \in Runs |-> Status(s)]' = [s \in Runs |-> Status(s)]
  OBVIOUS
<1> QED
  BY <1>1, <1>2 DEF P!Write, MayBecome

LEMMA BeginPartImplements ==
  ASSUME IInv, NEW r \in Runs, BeginPart(r), UNCHANGED bvars
  PROVE  P!Write
<1> USE DEF IInv
<1>1. /\ task[r] \in Tasks /\ Active(r) /\ written[r] < LastPart
      /\ written[r] \in Nat /\ written[r] + 1 \in Parts
      /\ UNCHANGED <<task, written, pc>>
      /\ dir' = [dir EXCEPT ![task[r]][written[r] + 1] = Torn(r)]
  BY WhoWrites, PartNumber DEF BeginPart, bvars
<1>2. dir'[task[r]][written[r] + 1] = Torn(r) /\ \A s \in Runs : Torn(r) # s
  BY <1>1, GeneratorAssumption DEF TypeOK, Torn, Runs
<1>3. \A t \in Tasks : t # task[r] => dir'[t] = dir[t]
  BY <1>1 DEF TypeOK
<1>4. ASSUME NEW s \in Runs PROVE MayBecome(s)
  <2>1. CASE task[s] = NoTask \/ written[s] < LastPart
    BY <1>1, <2>1 DEF MayBecome, Output
  <2>2. CASE task[s] \in Tasks /\ task[s] # task[r]
    BY <1>1, <1>3, <2>2 DEF MayBecome, Output
  <2>3. CASE task[s] = task[r] /\ ~(written[s] < LastPart)
    <3>1. Output(s)' = "spoilt"
      BY <1>1, <1>2, <2>3, GeneratorAssumption DEF Output
    <3>2. ~Active(s) /\ pc[s] # "unborn"
      BY <1>1, <2>3, GeneratorAssumption DEF OneAtATime, Local, NotYet
    <3>3. Status(s) # "running" /\ Status(s) # "idle"
      BY <3>2, StatusTells
    <3> QED
      BY <3>1, <3>3, DisturbedMeans DEF MayBecome
  <2> QED
    BY <2>1, <2>2, <2>3 DEF TypeOK
<1> QED
  BY <1>1, <1>4, WriteImplements DEF Status, Ended

LEMMA EndPartImplements ==
  ASSUME IInv, NEW r \in Runs, EndPart(r), UNCHANGED bvars
  PROVE  P!Write
<1> USE DEF IInv
<1>1. /\ task[r] \in Tasks /\ (Active(r) \/ pc[r] = "failed") /\ written[r] < LastPart
      /\ written[r] \in Nat /\ written[r] + 1 \in Parts /\ child[r] = "part"
      /\ UNCHANGED <<task, pc>> /\ written' = [written EXCEPT ![r] = @ + 1]
      /\ dir' = [dir EXCEPT ![task[r]][written[r] + 1] = IF @ = Torn(r) THEN r ELSE Mixed]
  BY WhoWrites, PartNumber DEF EndPart, bvars
<1>2. \A s \in Runs : Torn(r) # s /\ Mixed # s
  BY GeneratorAssumption DEF Torn, Mixed, Runs
<1>3. /\ \A t \in Tasks : t # task[r] => dir'[t] = dir[t]
      /\ dir'[task[r]][written[r] + 1] =
           IF dir[task[r]][written[r] + 1] = Torn(r) THEN r ELSE Mixed
      /\ \A p \in Parts : p # written[r] + 1 => dir'[task[r]][p] = dir[task[r]][p]
  BY <1>1 DEF TypeOK
<1>4. written'[r] = written[r] + 1 /\ \A s \in Runs : s # r => written'[s] = written[s]
  BY <1>1 DEF TypeOK
<1>5. MayBecome(r)
  <2>1. Output(r) = "no" /\ task[r] # NoTask
    BY <1>1, GeneratorAssumption DEF Output
  <2>2. Status(r) # "idle"
    BY <1>1, StatusTells DEF Active
  <2>3. CASE Active(r) /\ Peaceful(r)
    <3>1. Own(r)
      BY <2>3 DEF OwnParts, Peaceful, Own
    <3>2. Output(r)' # "spoilt"
      <4> SUFFICES ASSUME ~(written'[r] < LastPart), NEW p \in Parts PROVE dir'[task[r]][p] = r
        BY <1>1 DEF Output
      <4>1. p \in 1 .. written[r] \/ p = written[r] + 1
        BY <1>1, <1>4, GeneratorAssumption DEF Parts
      <4> QED
        BY <1>1, <1>3, <3>1, <4>1 DEF Own
    <3> QED
      BY <2>1, <2>2, <3>2 DEF MayBecome, Output
  <2>4. CASE ~(Active(r) /\ Peaceful(r))
    <3>1. P!Disturbed(r)
      <4>1. CASE ~Active(r)
        BY <4>1, StatusTells, DisturbedMeans
      <4>2. CASE Active(r) /\ ~Peaceful(r)
        <5>1. PICK o \in Runs : task[o] = task[r] /\ pc[o] = "failed"
          BY <4>2 DEF Peaceful
        <5>2. o # r /\ Status(o) = "failed"
          BY <4>2, <5>1, StatusTells DEF Active
        <5> QED
          BY <5>1, <5>2, DisturbedMeans
      <4> QED
        BY <2>4, <4>1, <4>2
    <3> QED
      BY <2>1, <2>2, <3>1 DEF MayBecome, Output
  <2> QED
    BY <2>3, <2>4
<1>6. ASSUME NEW s \in Runs, s # r PROVE MayBecome(s)
  <2>1. CASE task[s] = NoTask \/ written[s] < LastPart
    BY <1>1, <1>4, <1>6, <2>1 DEF MayBecome, Output
  <2>2. CASE task[s] \in Tasks /\ task[s] # task[r]
    BY <1>1, <1>3, <1>4, <1>6, <2>2 DEF MayBecome, Output
  <2>3. CASE task[s] = task[r] /\ ~(written[s] < LastPart)
    <3>1. Output(s)' = "spoilt"
      BY <1>1, <1>2, <1>3, <1>4, <1>6, <2>3, GeneratorAssumption DEF Output
    <3>2. P!Disturbed(s)
      <4>1. CASE ~Active(s)
        BY <4>1, StatusTells, DisturbedMeans
      <4>2. CASE Active(s)
        <5>1. pc[r] = "failed"
          BY <1>1, <1>6, <2>3, <4>2 DEF OneAtATime
        <5>2. Status(r) = "failed"
          BY <5>1, StatusTells
        <5> QED
          BY <1>6, <2>3, <5>2, DisturbedMeans
      <4> QED
        BY <4>1, <4>2
    <3>3. Status(s) # "idle"
      <4>1. pc[s] # "unborn"
        BY <1>1, <2>3, GeneratorAssumption DEF Local, NotYet
      <4> QED
        BY <4>1, StatusTells
    <3> QED
      BY <3>1, <3>2, <3>3 DEF MayBecome
  <2> QED
    BY <2>1, <2>2, <2>3 DEF TypeOK
<1>7. \A s \in Runs : MayBecome(s) /\ Status(s)' = Status(s)
  BY <1>1, <1>5, <1>6 DEF Status, Ended
<1> QED
  BY <1>1, <1>7, WriteImplements

LEMMA CleanImplements ==
  ASSUME IInv, NEW h \in Homes, Clean(h)
  PROVE  P!Write
<1> USE DEF IInv
<1>1. /\ UNCHANGED <<task, written, pc>> /\ \A r \in Runs : Active(r) => HomeOf[task[r]] # h
      /\ dir' = [t \in Tasks |-> IF HomeOf[t] = h THEN [p \in Parts |-> None] ELSE dir[t]]
  BY DEF Clean
<1>2. 1 \in Parts /\ \A s \in Runs : None # s
  BY GeneratorAssumption DEF Parts, Runs, None
<1>3. ASSUME NEW s \in Runs PROVE MayBecome(s)
  <2>1. CASE task[s] = NoTask \/ written[s] < LastPart
    BY <1>1, <2>1 DEF MayBecome, Output
  <2>2. CASE task[s] \in Tasks /\ HomeOf[task[s]] # h
    <3>1. dir'[task[s]] = dir[task[s]]
      BY <1>1, <2>2
    <3> QED
      BY <1>1, <2>2, <3>1 DEF MayBecome, Output
  <2>3. CASE task[s] \in Tasks /\ HomeOf[task[s]] = h /\ ~(written[s] < LastPart)
    <3>1. dir'[task[s]][1] = None
      BY <1>1, <1>2, <2>3
    <3>2. Output(s)' = "spoilt"
      BY <1>1, <1>2, <2>3, <3>1, GeneratorAssumption DEF Output
    <3>3. Status(s) # "running" /\ Status(s) # "idle"
      <4>1. ~Active(s) /\ pc[s] # "unborn"
        BY <1>1, <2>3, GeneratorAssumption DEF Local, NotYet
      <4> QED
        BY <4>1, StatusTells
    <3> QED
      BY <3>2, <3>3, DisturbedMeans DEF MayBecome
  <2> QED
    BY <2>1, <2>2, <2>3 DEF TypeOK
<1>4. \A s \in Runs : MayBecome(s) /\ Status(s)' = Status(s)
  BY <1>1, <1>3 DEF Status, Ended
<1> QED
  BY <1>1, <1>4, WriteImplements

LEMMA InitImplements == Init => P!Init
<1> SUFFICES ASSUME Init PROVE P!Init
  OBVIOUS
<1>1. \A r \in Runs : task[r] = NoTask /\ Status(r) = "idle" /\ Output(r) = "no"
  BY DEF Init, GeneratorInit, Status, Output
<1> QED
  BY <1>1 DEF P!Init, Init, GeneratorInit

LEMMA StepImplements == IInv /\ [Next]_vars => [P!Next]_(P!vars)
<1> SUFFICES ASSUME IInv, [Next]_vars PROVE P!Next \/ UNCHANGED P!vars
  OBVIOUS
<1> USE DEF IInv
<1>1. ASSUME Calm PROVE UNCHANGED P!vars
  <2>1. \A s \in Runs : Output(s)' = Output(s) /\ Status(s)' = Status(s)
    BY <1>1 DEF Calm, Output
  <2> QED
    BY <1>1, <2>1 DEF Calm, P!vars
<1>2. ASSUME NEW r \in Runs, NEW t \in Tasks, Begin(r, t) PROVE P!Start(r, t)
  <2>1. /\ pc[r] = "unborn" /\ pc' = [pc EXCEPT ![r] = "look"] /\ task' = [task EXCEPT ![r] = t]
        /\ \A s \in Runs : task[s] = t => ~Active(s)
        /\ UNCHANGED <<written, dir>>
    BY <1>2 DEF Begin
  <2>2. written[r] = 0 /\ 0 < LastPart /\ task[r] = NoTask
    BY <2>1, GeneratorAssumption DEF Local, NotYet, Early
  <2>3. Output(r) = "no" /\ Output(r)' = "no"
    BY <2>1, <2>2 DEF Output
  <2>4. \A s \in Runs : s # r => task'[s] = task[s] /\ pc'[s] = pc[s]
    BY <2>1 DEF TypeOK
  <2>5. \A s \in Runs : Output(s)' = Output(s)
    BY <2>1, <2>3, <2>4 DEF Output
  <2>6. \A s \in Runs : Status(s)' = IF s = r THEN "running" ELSE Status(s)
    BY <2>1, <2>4 DEF TypeOK, Status, Ended
  <2>7. Status(r) = "idle" /\ \A s \in Runs : task[s] = t => Status(s) # "running"
    BY <2>1, StatusTells
  <2> QED
    BY <2>1, <2>5, <2>6, <2>7 DEF P!Start
<1>3. ASSUME NEW r \in Runs, NEW how \in {"ok", "failed"}, Left(r, how)
      PROVE  P!Succeed(r) \/ P!Fail(r)
  <2>1. /\ UNCHANGED <<task, written, dir>> /\ Active(r) /\ pc' = [pc EXCEPT ![r] = how]
        /\ how = "failed" \/ (how = "ok" /\ written[r] = LastPart)
    BY <1>3 DEF Left
  <2>2. \A s \in Runs : Output(s)' = Output(s)
    BY <2>1 DEF Output
  <2>3. \A s \in Runs : Status(s)' = IF s = r THEN how ELSE Status(s)
    BY <2>1 DEF TypeOK, Status, Ended
  <2>4. Status(r) = "running"
    BY <2>1, StatusTells
  <2>5. how = "ok" => Output(r) # "no"
    BY <2>1, GeneratorAssumption DEF Output, Local, NotYet, Active
  <2>6. /\ [s \in Runs |-> Output(s)]' = [s \in Runs |-> Output(s)]
        /\ [s \in Runs |-> Status(s)]' = [[s \in Runs |-> Status(s)] EXCEPT ![r] = how]
    BY <2>2, <2>3
  <2>7. CASE how = "ok"
    BY <2>1, <2>4, <2>5, <2>6, <2>7 DEF P!Succeed
  <2>8. CASE how = "failed"
    BY <2>1, <2>4, <2>6, <2>8 DEF P!Fail
  <2> QED
    BY <2>7, <2>8
<1>4. ASSUME NEW r \in Runs, (BeginPart(r) \/ EndPart(r)) /\ UNCHANGED bvars PROVE P!Write
  BY <1>4, BeginPartImplements, EndPartImplements
<1>5. ASSUME NEW h \in Homes, Clean(h) PROVE P!Write
  BY <1>5, CleanImplements
<1> QED
  BY <1>1, <1>2, <1>3, <1>4, <1>5, Effects DEF P!Next

-----------------------------------------------------------------------------
(* Unpacking the executable: a second invariant, relative to IInv.          *)

Unpacking == {"unpack", "copy", "memo"}

\* A run makes the file of its own home, and is among those who opened it.
Opened ==
  \A r \in Runs :
    /\ pc[r] \in Unpacking => exe[r] = HomeOf[task[r]]
    /\ pc[r] = "copy" => r \in Range(openers[exe[r]])
    /\ pc[r] = "memo" => openers[exe[r]] # <<>>
    /\ pc[r] = "exec" => memo # NoHome /\ exe[r] \in Homes

\* Somebody relies on the file in h.
Referred(h) == memo = h \/ \E r \in Runs : pc[r] \in {"memo", "exec"} /\ exe[r] = h

\* What is relied on is in the making only by others, and whoever is still to
\* make it will not be the first.
Relied ==
  \A h \in Homes : Referred(h) =>
    /\ file[h] = "partial" => Len(openers[h]) > 1
    /\ (\E r \in Runs : pc[r] = "unpack" /\ exe[r] = h) => openers[h] # <<>>

\* Nothing that matters to the executable.
Elsewhere ==
  /\ UNCHANGED <<memo, file, openers>>
  /\ \A s \in Runs :
       \/ task'[s] = task[s] /\ pc'[s] = pc[s] /\ exe'[s] = exe[s]
       \/ pc'[s] \notin Unpacking \cup {"exec"}

LEMMA ElsewhereKeeps == ASSUME Opened, Relied, Elsewhere PROVE Opened' /\ Relied'
<1>1. Opened'
  BY DEF Opened, Elsewhere, Unpacking
<1>2. \A h \in Homes : Referred(h)' => Referred(h)
  BY DEF Referred, Elsewhere, Unpacking
<1>3. \A h \in Homes : (\E r \in Runs : pc'[r] = "unpack" /\ exe'[r] = h)
                         => \E r \in Runs : pc[r] = "unpack" /\ exe[r] = h
  BY DEF Elsewhere, Unpacking
<1> QED
  BY <1>1, <1>2, <1>3 DEF Relied, Elsewhere

LEMMA MostStepsAreElsewhere ==
  ASSUME TypeOK, NEW r \in Runs,
         \/ \E t \in Tasks : Begin(r, t)
         \/ Unpack(r) /\ Running(exe[r])
         \/ Exec(r) \/ Send(r) \/ Receive(r) \/ CallFails(r) \/ Finish(r) \/ Abort(r)
         \/ Generate(r)
  PROVE  Elsewhere
<1>1. CASE \E t \in Tasks : Begin(r, t)
  BY <1>1 DEF Begin, Elsewhere, Unpacking, TypeOK
<1>2. ASSUME NEW how \in {"ok", "failed"}, Leave(r, how), UNCHANGED <<memo, file, openers>>
      PROVE  Elsewhere
  BY <1>2 DEF Leave, Elsewhere, Unpacking, TypeOK
<1>3. CASE Unpack(r) /\ Running(exe[r])
  BY <1>2, <1>3 DEF Unpack
<1>4. CASE Exec(r)
  <2>1. CASE file[exe[r]] = "whole" /\ ~Copying(exe[r])
    BY SMTT(30), <1>4, <2>1 DEF Exec, Elsewhere, Unpacking, TypeOK
  <2> QED
    BY <1>2, <1>4, <2>1 DEF Exec
<1>5. CASE Send(r) \/ Receive(r) \/ (CallFails(r) /\ wire[r].call = "close")
  BY <1>5 DEF Send, Receive, CallFails, GoOn, Elsewhere, bvars
<1>6. CASE (CallFails(r) /\ wire[r].call # "close") \/ Finish(r) \/ Abort(r)
  BY <1>2, <1>6 DEF CallFails, Finish, Abort
<1>7. CASE Generate(r)
  <2>1. UNCHANGED <<task, bvars>>
    BY <1>7 DEF Generate, GeneratorNext, GeneratorStep, CompilerStep, Store, Fork, IndexThrows, ReadIncludes,
                Filter, FilterThrows, BeginWrite, HandlersReturn, HandlerThrows, BeginPart, EndPart,
                PartThrows, EndWrite, CloseIndex, Notice, Dies, Vanish, CompilerPrints,
                CompilerExits, CompilerDies
  <2> QED
    BY <2>1 DEF Elsewhere, bvars
<1> QED
  BY <1>1, <1>3, <1>4, <1>5, <1>6, <1>7

LEMMA LookUpKeepsFiles ==
  ASSUME IInv, Opened, Relied, NEW r \in Runs, LookUp(r)
  PROVE  Opened' /\ Relied'
<1>1. UNCHANGED <<task, memo, file, openers>> /\ TypeOK /\ pc[r] = "look"
  BY DEF LookUp, gvars, IInv
<1>2. task[r] \in Tasks
  BY <1>1 DEF IInv, Local, NotYet, TypeOK
<1>3. CASE memo # NoHome
  <2>1. pc' = [pc EXCEPT ![r] = "exec"] /\ exe' = [exe EXCEPT ![r] = memo]
    BY <1>3 DEF LookUp
  <2>2. \A h \in Homes : Referred(h)' => Referred(h)
    BY <1>1, <2>1 DEF Referred, TypeOK
  <2>3. Opened'
    BY <1>1, <1>3, <2>1 DEF Opened, Unpacking, TypeOK
  <2>4. Relied'
    BY <1>1, <2>1, <2>2 DEF Relied, TypeOK
  <2> QED
    BY <2>3, <2>4
<1>4. CASE memo = NoHome
  <2>1. pc' = [pc EXCEPT ![r] = "unpack"] /\ exe' = [exe EXCEPT ![r] = HomeOf[task[r]]]
    BY <1>4 DEF LookUp
  <2>2. \A h \in Homes : Referred(h)' => Referred(h) /\ openers[h] # <<>>
    <3> SUFFICES ASSUME NEW h \in Homes, Referred(h)' PROVE Referred(h) /\ openers[h] # <<>>
      OBVIOUS
    <3>1. PICK s \in Runs : pc'[s] \in {"memo", "exec"} /\ exe'[s] = h
      BY <1>1, <1>4, BuildAssumption DEF Referred
    <3>2. s # r /\ pc[s] \in {"memo", "exec"} /\ exe[s] = h
      BY <1>1, <2>1, <3>1 DEF TypeOK
    <3> QED
      BY <1>4, <3>2 DEF Opened, Referred
  <2>3. Opened'
    BY <1>1, <2>1 DEF Opened, Unpacking, TypeOK
  <2>4. Relied'
    BY <1>1, <2>2 DEF Relied
  <2> QED
    BY <2>3, <2>4
<1> QED
  BY <1>3, <1>4

LEMMA UnpackKeepsFiles ==
  ASSUME IInv, Opened, Relied, NEW r \in Runs, Unpack(r), ~Running(exe[r])
  PROVE  Opened' /\ Relied'
<1> DEFINE h == exe[r]
<1>1. /\ TypeOK /\ pc[r] = "unpack" /\ pc' = [pc EXCEPT ![r] = "copy"]
      /\ file' = [file EXCEPT ![h] = "partial"]
      /\ openers' = [openers EXCEPT ![h] = Append(@, r)]
      /\ UNCHANGED <<task, memo, exe>>
  BY DEF Unpack, gvars, IInv
<1>2. task[r] \in Tasks /\ h = HomeOf[task[r]] /\ h \in Homes
  BY <1>1, BuildAssumption DEF IInv, Local, NotYet, TypeOK, Opened, Unpacking
<1>3. openers[h] \in Seq(Runs) /\ openers'[h] = Append(openers[h], r) /\ file'[h] = "partial"
  BY <1>1, <1>2 DEF TypeOK
<1>4. /\ Len(openers'[h]) = Len(openers[h]) + 1 /\ Len(openers[h]) \in Nat
      /\ \A i \in 1 .. Len(openers[h]) : openers'[h][i] = openers[h][i]
      /\ openers'[h][Len(openers[h]) + 1] = r
  BY <1>3
<1>5. openers'[h] # <<>> /\ Range(openers[h]) \subseteq Range(openers'[h]) /\ r \in Range(openers'[h])
  <2>1. DOMAIN openers[h] = 1 .. Len(openers[h]) /\ DOMAIN openers'[h] = 1 .. Len(openers[h]) + 1
    BY <1>3, <1>4
  <2> QED
    BY <1>4, <2>1 DEF Range
<1>6. \A g \in Homes : g # h => openers'[g] = openers[g] /\ file'[g] = file[g]
  BY <1>1, <1>2 DEF TypeOK
<1>7. \A s \in Runs : s # r => pc'[s] = pc[s]
  BY <1>1 DEF TypeOK
<1>8. pc'[r] = "copy"
  BY <1>1 DEF TypeOK
<1>9. Opened'
  <2> SUFFICES ASSUME NEW s \in Runs
               PROVE  /\ pc'[s] \in Unpacking => exe'[s] = HomeOf[task'[s]]
                      /\ pc'[s] = "copy" => s \in Range(openers'[exe'[s]])
                      /\ pc'[s] = "memo" => openers'[exe'[s]] # <<>>
                      /\ pc'[s] = "exec" => memo' # NoHome /\ exe'[s] \in Homes
    BY DEF Opened
  <2>1. CASE s = r
    BY <1>1, <1>2, <1>5, <1>8, <2>1
  <2>2. CASE s # r /\ pc[s] \in Unpacking
    <3>1. exe[s] \in Homes
      <4>1. task[s] \in Tasks
        BY SMTT(30), <2>2 DEF IInv, Local, NotYet, TypeOK, Unpacking
      <4> QED
        BY <2>2, <4>1, BuildAssumption DEF Opened
    <3>2. exe[s] = h \/ openers'[exe[s]] = openers[exe[s]]
      BY <1>6, <3>1
    <3> QED
      BY <1>1, <1>5, <1>7, <2>2, <3>2 DEF Opened, Unpacking
  <2>3. CASE s # r /\ pc[s] \notin Unpacking
    BY <1>1, <1>7, <2>3 DEF Opened, Unpacking
  <2> QED
    BY <2>1, <2>2, <2>3
<1>10. Relied'
  <2> SUFFICES ASSUME NEW g \in Homes, Referred(g)'
               PROVE  /\ file'[g] = "partial" => Len(openers'[g]) > 1
                      /\ (\E s \in Runs : pc'[s] = "unpack" /\ exe'[s] = g) => openers'[g] # <<>>
    BY DEF Relied
  <2>1. Referred(g)
    BY <1>1, <1>7, <1>8 DEF Referred
  <2>2. (\E s \in Runs : pc'[s] = "unpack" /\ exe'[s] = g) => \E s \in Runs : pc[s] = "unpack" /\ exe[s] = g
    BY <1>1, <1>7, <1>8
  <2>3. CASE g = h
    <3>1. openers[h] # <<>>
      BY <1>1, <1>2, <2>1, <2>3 DEF Relied
    <3>2. Len(openers[h]) >= 1
      BY <1>3, <3>1
    <3> QED
      BY <1>4, <1>5, <2>3, <3>2
  <2>4. CASE g # h
    BY <1>6, <2>1, <2>2, <2>4 DEF Relied
  <2> QED
    BY <2>3, <2>4
<1> QED
  BY <1>9, <1>10

LEMMA CopiedKeepsFiles ==
  ASSUME IInv, Opened, Relied, NEW r \in Runs, Copied(r)
  PROVE  Opened' /\ Relied'
<1> DEFINE h == exe[r]
<1>1. /\ TypeOK /\ pc[r] = "copy" /\ pc' = [pc EXCEPT ![r] = "memo"]
      /\ file' = [file EXCEPT ![h] = IF Last(openers[h]) = r THEN "whole" ELSE @]
      /\ UNCHANGED <<task, memo, openers, exe>>
  BY DEF Copied, gvars, IInv
<1>2. task[r] \in Tasks /\ h \in Homes /\ r \in Range(openers[h])
  BY <1>1, BuildAssumption DEF IInv, Local, NotYet, TypeOK, Opened, Unpacking
<1>3. openers[h] \in Seq(Runs)
  BY <1>1, <1>2 DEF TypeOK
<1>4. PICK i \in 1 .. Len(openers[h]) : openers[h][i] = r
  BY <1>2, <1>3 DEF Range
<1>5. openers[h] # <<>> /\ (Last(openers[h]) # r => Len(openers[h]) > 1)
  BY <1>3, <1>4 DEF Last
<1>6. (\A s \in Runs : s # r => pc'[s] = pc[s]) /\ pc'[r] = "memo"
  BY <1>1 DEF TypeOK
<1>7. Opened'
  BY <1>1, <1>5, <1>6 DEF Opened, Unpacking
<1>8. Relied'
  <2> SUFFICES ASSUME NEW g \in Homes, Referred(g)'
               PROVE  /\ file'[g] = "partial" => Len(openers'[g]) > 1
                      /\ (\E s \in Runs : pc'[s] = "unpack" /\ exe'[s] = g) => openers'[g] # <<>>
    BY DEF Relied
  <2>1. (\E s \in Runs : pc'[s] = "unpack" /\ exe'[s] = g) => \E s \in Runs : pc[s] = "unpack" /\ exe[s] = g
    BY <1>1, <1>6
  <2>2. CASE g = h
    <3>1. file'[h] = "partial" => Last(openers[h]) # r
      BY <1>1, <1>2 DEF TypeOK
    <3> QED
      BY <1>1, <1>5, <2>2, <3>1
  <2>3. CASE g # h
    <3>1. Referred(g) /\ file'[g] = file[g]
      BY <1>1, <1>6, <2>3 DEF Referred, TypeOK
    <3> QED
      BY <1>1, <2>1, <3>1 DEF Relied
  <2> QED
    BY <2>2, <2>3
<1> QED
  BY <1>7, <1>8

LEMMA MemoizeKeepsFiles ==
  ASSUME IInv, Opened, Relied, NEW r \in Runs, Memoize(r)
  PROVE  Opened' /\ Relied'
<1>1. /\ TypeOK /\ pc[r] = "memo" /\ pc' = [pc EXCEPT ![r] = "exec"] /\ memo' = exe[r]
      /\ UNCHANGED <<task, file, openers, exe>>
  BY DEF Memoize, gvars, IInv
<1>2. exe[r] \in Homes /\ exe[r] # NoHome
  <2>1. task[r] \in Tasks
    BY <1>1 DEF IInv, Local, NotYet, TypeOK
  <2> QED
    BY <1>1, <2>1, BuildAssumption DEF Opened, Unpacking
<1>3. (\A s \in Runs : s # r => pc'[s] = pc[s]) /\ pc'[r] = "exec"
  BY <1>1 DEF TypeOK
<1>4. Opened'
  BY <1>1, <1>2, <1>3 DEF Opened, Unpacking
<1>5. \A h \in Homes : Referred(h)' => Referred(h)
  BY <1>1, <1>3 DEF Referred
<1>6. \A h \in Homes : (\E s \in Runs : pc'[s] = "unpack" /\ exe'[s] = h)
                         => \E s \in Runs : pc[s] = "unpack" /\ exe[s] = h
  BY <1>1, <1>3
<1>7. Relied'
  BY <1>1, <1>5, <1>6 DEF Relied
<1> QED
  BY <1>4, <1>7

LEMMA CleanKeepsFiles ==
  ASSUME IInv, Opened, Relied, NEW h \in Homes, Clean(h)
  PROVE  Opened' /\ Relied'
<1>1. /\ TypeOK /\ \A r \in Runs : Active(r) => HomeOf[task[r]] # h
      /\ file' = [file EXCEPT ![h] = "absent"] /\ openers' = [openers EXCEPT ![h] = <<>>]
      /\ UNCHANGED <<task, pc, memo, exe>>
  BY DEF Clean, IInv
<1>2. \A r \in Runs : pc[r] \in Unpacking => exe[r] # h /\ exe[r] \in Homes
  <2> SUFFICES ASSUME NEW r \in Runs, pc[r] \in Unpacking PROVE exe[r] # h /\ exe[r] \in Homes
    OBVIOUS
  <2>1. Active(r) /\ task[r] \in Tasks /\ exe[r] = HomeOf[task[r]]
    BY DEF Active, Unpacking, IInv, Local, NotYet, TypeOK, Opened
  <2> QED
    BY <1>1, <2>1, BuildAssumption
<1>3. file'[h] = "absent" /\ \A g \in Homes : g # h => file'[g] = file[g] /\ openers'[g] = openers[g]
  BY <1>1 DEF TypeOK
<1>4. Opened'
  BY <1>1, <1>2, <1>3 DEF Opened, Unpacking
<1>5. Relied'
  BY <1>1, <1>2, <1>3 DEF Relied, Referred, Unpacking
<1> QED
  BY <1>4, <1>5

LEMMA NewDaemonKeepsFiles ==
  ASSUME IInv, NewDaemon
  PROVE  Opened' /\ Relied'
<1>1. /\ \A r \in Runs : pc'[r] \notin Unpacking \cup {"exec"}
      /\ memo' = NoHome
  BY DEF NewDaemon, Active, Unpacking
<1>2. \A h \in Homes : ~Referred(h)'
  BY <1>1, BuildAssumption DEF Referred, Unpacking
<1> QED
  BY <1>1, <1>2 DEF Opened, Relied, Unpacking

LEMMA FilesInvariance == Spec => [](Opened /\ Relied)
<1>1. Init => Opened /\ Relied
  <2> SUFFICES ASSUME Init PROVE Opened /\ Relied
    OBVIOUS
  <2>1. memo = NoHome /\ \A r \in Runs : pc[r] = "unborn"
    BY DEF Init
  <2>2. \A h \in Homes : ~Referred(h)
    BY <2>1, BuildAssumption DEF Referred
  <2> QED
    BY <2>1, <2>2 DEF Opened, Relied, Unpacking
<1>2. IInv /\ Opened /\ Relied /\ [Next]_vars => (Opened /\ Relied)'
  <2> SUFFICES ASSUME IInv, Opened, Relied, [Next]_vars PROVE Opened' /\ Relied'
    OBVIOUS
  <2>1. TypeOK
    BY DEF IInv
  <2>2. ASSUME NEW r \in Runs, TaskStep(r) \/ Abort(r) \/ Generate(r) \/ \E t \in Tasks : Begin(r, t)
        PROVE  Opened' /\ Relied'
    <3>1. CASE LookUp(r)
      BY <3>1, LookUpKeepsFiles
    <3>2. CASE Unpack(r) /\ ~Running(exe[r])
      BY <3>2, UnpackKeepsFiles
    <3>3. CASE Copied(r)
      BY <3>3, CopiedKeepsFiles
    <3>4. CASE Memoize(r)
      BY <3>4, MemoizeKeepsFiles
    <3> QED
      BY <2>1, <2>2, <3>1, <3>2, <3>3, <3>4, MostStepsAreElsewhere, ElsewhereKeeps DEF TaskStep
  <2>3. ASSUME NEW h \in Homes, Clean(h) PROVE Opened' /\ Relied'
    BY <2>3, CleanKeepsFiles
  <2>4. CASE NewDaemon
    BY <2>4, NewDaemonKeepsFiles
  <2>5. CASE UNCHANGED vars
    BY <2>5, ElsewhereKeeps DEF vars, gvars, bvars, Elsewhere
  <2> QED
    BY <2>2, <2>3, <2>4, <2>5 DEF Next
<1> QED
  BY <1>1, <1>2, Invariance, PTL DEF Spec

-----------------------------------------------------------------------------
(* Theorems. *)

\* The variables of GradleBuild and Generator keep their types.
THEOREM BuildTypeCorrect == Spec => []TypeOK
<1>1. IInv => TypeOK
  BY DEF IInv
<1> QED
  BY <1>1, Invariance, PTL

\* Whatever goes wrong, and however many runs and daemons there are, a run that
\* succeeds has written its output, and only a generator that a failed run of
\* the same task left behind can disturb it (RunKrapperGenTask.execute).
THEOREM BuildsKeepTheirPromise == Spec => Promise
  BY InitImplements, Invariance, StepImplements, PTL DEF Spec, Promise, P!Spec

\* However much a compiler prints and whenever it is read, index finds the
\* directories that a compiler printed which was started and came to its end
\* (generateIncludes).
THEOREM IncludesAreFound == Spec => []DiscoveryFindsTheList
<1>1. IInv => DiscoveryFindsTheList
  BY DEF IInv, Local, Piped, DiscoveryFindsTheList
<1> QED
  BY <1>1, Invariance, PTL

\* No log line is ever mixed with the calls (App.runService, setLogger).
THEOREM LogsStayOffTheChannel == Spec => []ChannelStaysClean
<1>1. IInv => ChannelStaysClean
  BY DEF IInv, Local, Clean1, ChannelStaysClean
<1> QED
  BY <1>1, Invariance, PTL

\* However many mappings a task adds, writeTo runs with all of them, in their
\* order, also in a generator that its run has left (addMapping, writeTo).
THEOREM WriteComesLast == Spec => []WritesWhatWasAsked
<1>1. IInv => WritesWhatWasAsked
  <2> SUFFICES ASSUME IInv, NEW r \in Runs, child[r] \in Writing
               PROVE  served[r] = Requests(task[r])
    BY DEF WritesWhatWasAsked
  <2> DEFINE t == task[r]
             n == Mappings[t]
  <2>1. TypeOK /\ Local(r)
    BY DEF IInv
  <2>2. wire[r] = [call |-> "write", is |-> "asked"] /\ child[r] \notin {"none", "gone"}
    BY <2>1 DEF Local, Busy, Writing
  <2>3. t \in Tasks
    BY <2>1, <2>2, AliveHasTask
  <2>4. PICK i \in 1 .. Len(Calls(t)) :
          /\ Calls(t)[i] = "write" /\ Len(served[r]) = i - 1
          /\ \A j \in 1 .. i - 1 : served[r][j] = Calls(t)[j]
    BY <2>1, <2>2 DEF Local, InOrder, Upto
  <2>5. /\ Requests(t) \in Seq(CallNames) /\ Len(Requests(t)) = 4 + n /\ Len(Calls(t)) = 6 + n
        /\ n \in Nat /\ Calls(t)[6 + n] = "close"
        /\ \A j \in 1 .. 4 + n : Calls(t)[j] = Requests(t)[j] /\ Calls(t)[j] # "write"
    BY <2>3, CallsLayout, NoWriteBefore
  <2> HIDE DEF n
  <2>6. i = 5 + n
    <3>1. i \in 1 .. 4 + n \/ i = 5 + n \/ i = 6 + n
      BY <2>4, <2>5
    <3> QED
      BY <2>4, <2>5, <3>1
  <2>7. /\ Len(served[r]) = Len(Requests(t)) /\ served[r] \in Seq(CallNames)
        /\ \A j \in 1 .. Len(Requests(t)) : served[r][j] = Requests(t)[j]
    BY <2>1, <2>4, <2>5, <2>6 DEF TypeOK
  <2> HIDE DEF t
  <2>8. served[r] = Requests(t)
    BY <2>5, <2>7
  <2> QED
    BY <2>8 DEF t
<1> QED
  BY <1>1, Invariance, PTL

\* Whoever else unpacks the executable meanwhile, what getExeFile returned is a
\* part of a file only when several opened it (KrapperGenExecutable.getExeFile).
THEOREM UnpackingIsHarmlessAlone == Spec => []OneUnpackerIsHarmless
<1>1. IInv /\ Opened /\ Relied => OneUnpackerIsHarmless
  <2> SUFFICES ASSUME IInv, Opened, Relied, NEW r \in Runs, pc[r] = "exec", file[exe[r]] = "partial"
               PROVE  Len(openers[exe[r]]) > 1
    BY DEF OneUnpackerIsHarmless
  <2> QED
    BY DEF Opened, Relied, Referred
<1> QED
  BY <1>1, Invariance, FilesInvariance, PTL

=============================================================================
