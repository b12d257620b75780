------------------------------ MODULE RunPromise ------------------------------
(***************************************************************************)
(* What the Gradle plugin promises to a build (KPlusPlusPlugin.kt): a run  *)
(* of a krapper task succeeds or fails, and when it succeeds, the output   *)
(* directory of the task was written by this run, from the first file to   *)
(* the last.  Only a run of the same task that failed may have left        *)
(* something behind that disturbs it.  How the output is made, by a        *)
(* generator process that is called over a pipe, is not said here:         *)
(* GradleBuild implements this.                                            *)
(***************************************************************************)
EXTENDS Naturals

CONSTANTS
  Runs,    \* runs of tasks
  Jobs,    \* the tasks, each with an output directory
  NoJob    \* of a run that is yet to come

VARIABLES
  job,     \* the task of each run
  status,  \* idle, running, ok, failed
  out      \* its output: no, yes, or spoilt after it was written

vars == <<job, status, out>>

Init ==
  /\ job = [r \in Runs |-> NoJob]
  /\ status = [r \in Runs |-> "idle"]
  /\ out = [r \in Runs |-> "no"]

Rivals(r) == {s \in Runs \ {r} : job[s] = job[r]}

\* The directory of r is not r's alone: r is over, or a failed run of the same
\* task may have left a generator that still writes.
Disturbed(r) == status[r] # "running" \/ \E s \in Rivals(r) : status[s] = "failed"

\* Gradle runs a task once at a time.
Start(r, j) ==
  /\ status[r] = "idle"
  /\ \A s \in Runs : job[s] = j => status[s] # "running"
  /\ job' = [job EXCEPT ![r] = j]
  /\ status' = [status EXCEPT ![r] = "running"]
  /\ UNCHANGED out

\* Files are written: a run's output is complete, or no longer what it wrote.
Write ==
  /\ out' \in [Runs -> {"no", "yes", "spoilt"}]
  /\ \A r \in Runs :
       \/ out'[r] = out[r]
       \/ status[r] # "idle" /\ out[r] = "no" /\ out'[r] = "yes"
       \/ status[r] # "idle" /\ Disturbed(r) /\ out'[r] = "spoilt"
  /\ UNCHANGED <<job, status>>

Succeed(r) ==
  /\ status[r] = "running" /\ out[r] # "no"
  /\ status' = [status EXCEPT ![r] = "ok"]
  /\ UNCHANGED <<job, out>>

Fail(r) ==
  /\ status[r] = "running"
  /\ status' = [status EXCEPT ![r] = "failed"]
  /\ UNCHANGED <<job, out>>

Next ==
  \/ \E r \in Runs, j \in Jobs : Start(r, j)
  \/ \E r \in Runs : Succeed(r) \/ Fail(r)
  \/ Write

Spec == Init /\ [][Next]_vars

=============================================================================
