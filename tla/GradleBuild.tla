------------------------------ MODULE GradleBuild ------------------------------
(***************************************************************************)
(* The plugin's side (RunKrapperGenTask.execute, KrapperExecution,         *)
(* KrapperGenExecutable): each run of a task gets the generator's          *)
(* executable, unpacked once for all tasks of a Gradle daemon, starts it,  *)
(* makes its calls one after the other, and closes the connection.  Tasks  *)
(* run at the same time, a build may be cancelled and a daemon replaced,   *)
(* and the generator of a run may outlive it.                              *)
(***************************************************************************)
EXTENDS Generator

CONSTANTS
  Homes,     \* build directories, each with a place for the executable
  NoHome,
  HomeOf,    \* the home of each task
  Mappings   \* how many mappings each task adds

ASSUME BuildAssumption ==
  /\ NoHome \notin Homes
  /\ HomeOf \in [Tasks -> Homes]
  /\ Mappings \in [Tasks -> Nat]

VARIABLES
  pc,       \* a run: unborn, look, unpack, copy, memo, exec, calling, ok, failed
  at,       \* the call it is at
  memo,     \* KrapperGenExecutable.libsFile
  file,     \* the executable in each home: absent, partial, whole
  openers,  \* who opened it for writing in this daemon, in this order
  exe,      \* the home whose executable a run is about to run
  image     \* the home whose executable file a generator is running from

bvars == <<pc, at, memo, file, openers, exe, image>>
vars == <<gvars, bvars>>

Active(r) == pc[r] \notin {"unborn", "ok", "failed"}
Ended(r) == pc[r] \in {"ok", "failed"}
Alive(r) == child[r] \notin {"none", "gone"}

\* Mutant of Calls: the logger is set when there is something to log to it for.
CallsLoggingLate(t) ==
  <<"setConfig", "index", "filter", "setLogger">> \o [i \in 1 .. Mappings[t] |-> "mapping"]
    \o <<"write", "close">>

\* What a task asks for before it asks for the output.
Requests(t) ==
  <<"setLogger", "setConfig", "index", "filter">> \o [i \in 1 .. Mappings[t] |-> "mapping"]

Calls(t) == Requests(t) \o <<"write", "close">>

Init ==
  /\ GeneratorInit
  /\ pc = [r \in Runs |-> "unborn"]
  /\ at = [r \in Runs |-> 1]
  /\ memo = NoHome
  /\ file = [h \in Homes |-> "absent"]
  /\ openers = [h \in Homes |-> <<>>]
  /\ exe = [r \in Runs |-> NoHome]
  /\ image = [r \in Runs |-> NoHome]

-----------------------------------------------------------------------------
(* getExeFile. *)

\* Gradle runs a task once at a time.
Begin(r, t) ==
  /\ pc[r] = "unborn" /\ \A s \in Runs : s < r => pc[s] # "unborn"
  /\ \A s \in Runs : task[s] = t => ~Active(s)
  /\ task' = [task EXCEPT ![r] = t]
  /\ pc' = [pc EXCEPT ![r] = "look"]
  /\ UNCHANGED <<wire, open, child, served, written, printed, pipe, dir>>
  /\ UNCHANGED <<at, memo, file, openers, exe, image>>

\* libsFile, or else the file of the task's own home is to be made.
LookUp(r) ==
  /\ pc[r] = "look"
  /\ IF memo # NoHome
       THEN pc' = [pc EXCEPT ![r] = "exec"] /\ exe' = [exe EXCEPT ![r] = memo]
       ELSE pc' = [pc EXCEPT ![r] = "unpack"] /\ exe' = [exe EXCEPT ![r] = HomeOf[task[r]]]
  /\ UNCHANGED <<gvars, at, memo, file, openers, image>>

Copying(h) == \E s \in Runs : pc[s] = "copy" /\ exe[s] = h
Running(h) == \E s \in Runs : Alive(s) /\ image[s] = h

\* An exception leaves the task, or it comes to its end; the connection is closed.
Leave(r, how) ==
  /\ pc' = [pc EXCEPT ![r] = how]
  /\ open' = [open EXCEPT ![r] = FALSE]
  /\ at' = [at EXCEPT ![r] = 1]
  /\ exe' = [exe EXCEPT ![r] = NoHome]
  /\ IF child[r] = "gone" THEN Forget(r) ELSE UNCHANGED <<wire, printed, pipe>>
  /\ UNCHANGED <<task, child, served, written, dir, image>>

\* Mutant of Unpack: the file is remembered before it is copied.
UnpackMemoizing(r) ==
  /\ pc[r] = "unpack" /\ ~Running(exe[r])
  /\ pc' = [pc EXCEPT ![r] = "copy"]
  /\ memo' = exe[r]
  /\ file' = [file EXCEPT ![exe[r]] = "partial"]
  /\ openers' = [openers EXCEPT ![exe[r]] = Append(@, r)]
  /\ UNCHANGED <<gvars, at, exe, image>>

\* exeFile.outputStream() truncates the file; one that is being run is busy.
Unpack(r) ==
  /\ pc[r] = "unpack"
  /\ IF Running(exe[r])
       THEN Leave(r, "failed") /\ UNCHANGED <<file, openers>>
       ELSE /\ pc' = [pc EXCEPT ![r] = "copy"]
            /\ file' = [file EXCEPT ![exe[r]] = "partial"]
            /\ openers' = [openers EXCEPT ![exe[r]] = Append(@, r)]
            /\ UNCHANGED <<gvars, at, exe, image>>
  /\ UNCHANGED memo

\* The copy is made and may be executed.  Whoever opened the file last fills it.
Copied(r) ==
  /\ pc[r] = "copy"
  /\ pc' = [pc EXCEPT ![r] = "memo"]
  /\ file' = [file EXCEPT ![exe[r]] = IF Last(openers[exe[r]]) = r THEN "whole" ELSE @]
  /\ UNCHANGED <<gvars, at, memo, openers, exe, image>>

Memoize(r) ==
  /\ pc[r] = "memo"
  /\ memo' = exe[r]
  /\ pc' = [pc EXCEPT ![r] = "exec"]
  /\ UNCHANGED <<gvars, at, file, openers, exe, image>>

-----------------------------------------------------------------------------
(* executeWithService. *)

\* A file that is not whole, or that somebody still writes, cannot be run.
Exec(r) ==
  /\ pc[r] = "exec"
  /\ IF file[exe[r]] = "whole" /\ ~Copying(exe[r])
       THEN /\ pc' = [pc EXCEPT ![r] = "calling"]
            /\ child' = [child EXCEPT ![r] = "idle"]
            /\ open' = [open EXCEPT ![r] = TRUE]
            /\ image' = [image EXCEPT ![r] = exe[r]]
            /\ exe' = [exe EXCEPT ![r] = NoHome]
            /\ UNCHANGED <<task, wire, served, written, printed, pipe, dir, at>>
       ELSE Leave(r, "failed")
  /\ UNCHANGED <<memo, file, openers>>

Send(r) ==
  /\ pc[r] = "calling" /\ wire[r] = Quiet /\ at[r] <= Len(Calls(task[r]))
  /\ wire' = [wire EXCEPT ![r] = [call |-> Calls(task[r])[at[r]], is |-> "asked"]]
  /\ UNCHANGED <<task, open, child, served, written, printed, pipe, dir, bvars>>

GoOn(r) ==
  /\ wire' = [wire EXCEPT ![r] = Quiet]
  /\ at' = [at EXCEPT ![r] = @ + 1]
  /\ UNCHANGED <<task, open, child, served, written, printed, pipe, dir>>
  /\ UNCHANGED <<pc, exe, image>>

\* Mutant of Receive: the next call does not wait for the answer.
ReceiveAtOnce(r) ==
  /\ pc[r] = "calling" /\ wire[r].is \in {"asked", "answered"}
  /\ GoOn(r)
  /\ UNCHANGED <<memo, file, openers>>

Receive(r) ==
  /\ pc[r] = "calling" /\ wire[r].is = "answered"
  /\ GoOn(r)
  /\ UNCHANGED <<memo, file, openers>>

\* Mutant of Failed: a generator that is gone is waited for.
FailedByAnswer(r) == wire[r].is = "failed"

\* The call failed, or there is nobody to answer it.
Failed(r) ==
  \/ wire[r].is = "failed"
  \/ wire[r].is = "asked" /\ child[r] = "gone"

\* Mutant of CallFails: what write throws is swallowed, too.
CallFailsUnseen(r) ==
  /\ pc[r] = "calling" /\ Failed(r)
  /\ IF wire[r].call \in {"write", "close"} THEN GoOn(r) ELSE Leave(r, "failed")
  /\ UNCHANGED <<memo, file, openers>>

\* An exception of close is swallowed.
CallFails(r) ==
  /\ pc[r] = "calling" /\ Failed(r)
  /\ IF wire[r].call = "close" THEN GoOn(r) ELSE Leave(r, "failed")
  /\ UNCHANGED <<memo, file, openers>>

Finish(r) ==
  /\ pc[r] = "calling" /\ wire[r] = Quiet /\ at[r] = Len(Calls(task[r])) + 1
  /\ Leave(r, "ok")
  /\ UNCHANGED <<memo, file, openers>>

-----------------------------------------------------------------------------
(* What happens to builds. *)

\* The build is cancelled, or the task itself throws: it cannot write the
\* executable, find a compiler, or something is not configured.
Abort(r) ==
  /\ Active(r)
  /\ Leave(r, "failed")
  /\ UNCHANGED <<memo, file, openers>>

\* A build directory is deleted, while no task of it runs.
Clean(h) ==
  /\ \A r \in Runs : Active(r) => HomeOf[task[r]] # h
  /\ file[h] # "absent"
  /\ file' = [file EXCEPT ![h] = "absent"]
  /\ openers' = [openers EXCEPT ![h] = <<>>]
  /\ image' = [r \in Runs |-> IF image[r] = h THEN NoHome ELSE image[r]]
  /\ dir' = [t \in Tasks |-> IF HomeOf[t] = h THEN [p \in Parts |-> None] ELSE dir[t]]
  /\ UNCHANGED <<task, wire, open, child, served, written, printed, pipe>>
  /\ UNCHANGED <<pc, at, memo, exe>>

\* Another daemon remembers nothing.
NewDaemon ==
  /\ \A r \in Runs : ~Active(r)
  /\ memo # NoHome
  /\ memo' = NoHome
  /\ openers' = [h \in Homes |-> <<>>]
  /\ UNCHANGED <<gvars, pc, at, file, exe, image>>

Generate(r) == GeneratorNext(r) /\ UNCHANGED bvars

TaskStep(r) ==
  \/ LookUp(r)
  \/ Unpack(r)
  \/ Copied(r)
  \/ Memoize(r)
  \/ Exec(r)
  \/ Send(r)
  \/ Receive(r)
  \/ CallFails(r)
  \/ Finish(r)

Next ==
  \/ \E r \in Runs, t \in Tasks : Begin(r, t)
  \/ \E r \in Runs : TaskStep(r)
  \/ \E r \in Runs : Generate(r)
  \/ \E r \in Runs : Abort(r)
  \/ \E h \in Homes : Clean(h)
  \/ NewDaemon

Spec == Init /\ [][Next]_vars

\* A task waits for its generator or the generator for the task, so that one of
\* the two goes on, or the compiler does; a handler of a mapping returns or
\* throws.  Nobody has to start, to abort, to clean or to die.
GoesOn(r) ==
  \/ TaskStep(r)
  \/ (GeneratorStep(r) \/ CompilerStep(r)) /\ UNCHANGED bvars

FairSpec == Spec /\ \A r \in Runs : WF_vars(GoesOn(r))

-----------------------------------------------------------------------------
(* Properties. *)

\* All variables have their types.
TypeOK ==
  /\ task \in [Runs -> Tasks \cup {NoTask}]
  /\ wire \in [Runs -> {Quiet} \cup [call : CallNames, is : {"asked", "answered", "failed"}]]
  /\ open \in [Runs -> BOOLEAN]
  /\ child \in [Runs -> {"none", "idle", "index", "mappings", "between", "part", "gone"}]
  /\ served \in [Runs -> Seq(CallNames)]
  /\ written \in [Runs -> 0 .. LastPart]
  /\ printed \in [Runs -> BOOLEAN]
  /\ pipe \in [Runs -> [compiler : {"off", "runs", "exited", "died"},
                        size : Nat, list : Nat, printed : Nat, held : Nat]]
  /\ dir \in [Tasks -> [Parts -> None .. Mixed]]
  /\ pc \in [Runs -> {"unborn", "look", "unpack", "copy", "memo", "exec", "calling", "ok", "failed"}]
  /\ at \in [Runs -> Nat]
  /\ memo \in Homes \cup {NoHome}
  /\ file \in [Homes -> {"absent", "partial", "whole"}]
  /\ openers \in [Homes -> Seq(Runs)]
  /\ exe \in [Runs -> Homes \cup {NoHome}]
  /\ image \in [Runs -> Homes \cup {NoHome}]

\* The compiler never started, died, or printed no list.
NothingToFind(r) ==
  \/ pipe[r] = NoPipe
  \/ pipe[r].compiler = "died"
  \/ pipe[r].compiler = "exited" /\ pipe[r].list = 0

\* The include directories are found whenever a compiler that was started prints
\* them and comes to its end (generateIncludes waits, then reads): index fails for
\* want of a list only when there was none, not because of when the pipe is read.
DiscoveryFindsTheList ==
  \A r \in Runs : wire[r] = [call |-> "index", is |-> "failed"] => NothingToFind(r)

\* The generator's standard output is the connection.  Its own text, log lines
\* before setLogger or the error listener's, is on it only when a call failed.
ChannelStaysClean == \A r \in Runs : printed[r] => wire[r].is = "failed"

Writing == {"mappings", "between", "part"}

\* The output is made with everything the task asked for: when writeTo runs,
\* the calls before it have been answered, all the mappings added.
WritesWhatWasAsked == \A r \in Runs : child[r] \in Writing => served[r] = Requests(task[r])

\* One run that unpacks the executable does not disturb another one that runs
\* it: what getExeFile returned is only part of a file when several opened it.
OneUnpackerIsHarmless ==
  \A r \in Runs : pc[r] = "exec" /\ file[exe[r]] = "partial" => Len(openers[exe[r]]) > 1

\* A run comes to its end, one way or the other, and no generator outlives it for
\* good, unless what the compiler prints does not fit into the pipe.
RunsEnd == \A r \in Runs : Active(r) ~> (Ended(r) /\ ~Alive(r)) \/ pipe[r].size > Capacity

\* A run, and its output, as the build sees them.
Status(r) ==
  IF pc[r] = "unborn" THEN "idle" ELSE IF Ended(r) THEN pc[r] ELSE "running"

Output(r) ==
  IF task[r] = NoTask \/ written[r] < LastPart THEN "no"
  ELSE IF \A p \in Parts : dir[task[r]][p] = r THEN "yes" ELSE "spoilt"

P == INSTANCE RunPromise WITH
  Jobs <- Tasks, NoJob <- NoTask,
  job <- task,
  status <- [r \in Runs |-> Status(r)],
  out <- [r \in Runs |-> Output(r)]

\* A run that succeeds has written its output directory, from the first file to
\* the last, and nobody else has written there since it began, unless an earlier
\* run of the same task failed and left its generator behind.
Promise == P!Spec

=============================================================================
