------------------------------- MODULE Generator -------------------------------
(***************************************************************************)
(* The generator as a service (App.runService, KrapperServiceImpl,         *)
(* IndexedServiceImpl, generateIncludes, Process): a process of its own    *)
(* for each run of a task, which takes calls from its standard input and   *)
(* answers them on its standard output.  One thread does it all: it sees   *)
(* that the connection is closed only where a handler suspends, which it   *)
(* does at every log line and every request to a mapping, and while it     *)
(* waits for a compiler or writes a file it sees nothing.                  *)
(*                                                                         *)
(* To find the include directories it forks a compiler and waits for its   *)
(* end before it reads what the compiler printed into a pipe.              *)
(***************************************************************************)
EXTENDS Naturals, Sequences, SequencesExt

CONSTANTS
  MaxRuns,   \* bound: runs 1 .. MaxRuns
  Tasks,     \* the tasks, each with an output directory
  NoTask,
  Capacity,  \* how much a pipe holds
  MaxText,   \* bound: how much a compiler prints
  LastPart   \* writeTo makes the output in this many parts

ASSUME GeneratorAssumption ==
  /\ MaxRuns \in Nat
  /\ NoTask \notin Tasks
  /\ Capacity \in Nat /\ MaxText \in Nat
  /\ LastPart \in Nat \ {0}

Runs == 1 .. MaxRuns

\* A log line comes before each part: the header, the C++ code with the
\* cinterop definition, the library, the Kotlin files.
Parts == 1 .. LastPart

\* Who wrote a part: nobody, a run, a run that has not finished, or several at once.
None == 0
Torn(r) == MaxRuns + r
Mixed == 2 * MaxRuns + 1

CallNames == {"setLogger", "setConfig", "index", "filter", "mapping", "write", "close"}
Quiet == [call |-> "none", is |-> "quiet"]

\* A compiler that prints a text into a pipe that holds nothing yet: the list of
\* directories ends at the place `list` in it, or (0) the text has no list between
\* the two lines that generateIncludes knows.
NoPipe == [compiler |-> "off", size |-> 0, list |-> 0, printed |-> 0, held |-> 0]
Forked(n, l) == [compiler |-> "runs", size |-> n, list |-> l, printed |-> 0, held |-> 0]

VARIABLES
  task,     \* the task of each run: its output directory
  wire,     \* the call under way between a run and its generator
  open,     \* the connection: closed for good when the run is over
  child,    \* the generator: none, idle, index, mappings, between, part, gone
  served,   \* the calls it has answered
  written,  \* how many parts it has written
  printed,  \* whether it wrote text of its own onto the connection
  pipe,     \* the compiler it forked, and the pipe between them
  dir       \* the output directories

gvars == <<task, wire, open, child, served, written, printed, pipe, dir>>

GeneratorInit ==
  /\ task = [r \in Runs |-> NoTask]
  /\ wire = [r \in Runs |-> Quiet]
  /\ open = [r \in Runs |-> FALSE]
  /\ child = [r \in Runs |-> "none"]
  /\ served = [r \in Runs |-> <<>>]
  /\ written = [r \in Runs |-> 0]
  /\ printed = [r \in Runs |-> FALSE]
  /\ pipe = [r \in Runs |-> NoPipe]
  /\ dir = [t \in Tasks |-> [p \in Parts |-> None]]

-----------------------------------------------------------------------------
(* Answering. *)

Asked(r, c) == child[r] = "idle" /\ wire[r] = [call |-> c, is |-> "asked"]

Has(r, c) == c \in Range(served[r])

\* Log goes to standard output until setLogger has come: the connection.
Logged(r) == [printed EXCEPT ![r] = @ \/ ~Has(r, "setLogger")]

Answer(r) ==
  /\ wire' = [wire EXCEPT ![r].is = "answered"]
  /\ child' = [child EXCEPT ![r] = "idle"]
  /\ served' = [served EXCEPT ![r] = Append(@, wire[r].call)]

\* A handler throws: the error listener prints the exception onto the
\* connection, and the call fails.
Throw(r) ==
  /\ wire' = [wire EXCEPT ![r].is = "failed"]
  /\ child' = [child EXCEPT ![r] = "idle"]
  /\ printed' = [printed EXCEPT ![r] = TRUE]

\* setLogger, setConfig and addMapping only store what they are given.
Store(r) ==
  /\ \E c \in {"setLogger", "setConfig", "mapping"} : Asked(r, c)
  /\ Answer(r)
  /\ UNCHANGED <<task, open, written, printed, pipe, dir>>

-----------------------------------------------------------------------------
(* index: generateIncludes, in the constructor of IndexedServiceImpl. *)

\* Process.start.
Fork(r) ==
  /\ Asked(r, "index") /\ Has(r, "setConfig")
  /\ child' = [child EXCEPT ![r] = "index"]
  /\ \E n \in 1 .. MaxText : \E l \in 0 .. n : pipe' = [pipe EXCEPT ![r] = Forked(n, l)]
  /\ UNCHANGED <<task, wire, open, served, written, printed, dir>>

\* index throws before there is a compiler: there is no configuration, createIndex
\* gives null, or /tmp/clang_includes.c cannot be written.
IndexThrows(r) ==
  /\ Asked(r, "index")
  /\ Throw(r)
  /\ UNCHANGED <<task, open, served, written, pipe, dir>>

CompilerPrints(r) ==
  /\ pipe[r].compiler = "runs" /\ pipe[r].printed < pipe[r].size /\ pipe[r].held < Capacity
  /\ pipe' = [pipe EXCEPT ![r].printed = @ + 1, ![r].held = @ + 1]
  /\ UNCHANGED <<task, wire, open, child, served, written, printed, dir>>

CompilerExits(r) ==
  /\ pipe[r].compiler = "runs" /\ pipe[r].printed = pipe[r].size
  /\ pipe' = [pipe EXCEPT ![r].compiler = "exited"]
  /\ UNCHANGED <<task, wire, open, child, served, written, printed, dir>>

\* There is no such compiler, or it is killed.
CompilerDies(r) ==
  /\ pipe[r].compiler = "runs"
  /\ pipe' = [pipe EXCEPT ![r].compiler = "died"]
  /\ UNCHANGED <<task, wire, open, child, served, written, printed, dir>>

\* The list, to its end, is in what the pipe holds.
FoundIncludes(r) == pipe[r].list # 0 /\ pipe[r].held >= pipe[r].list

\* All that was in the pipe has been read; how the compiler ended is still known.
Emptied(r) == [NoPipe EXCEPT !.compiler = pipe[r].compiler, !.list = pipe[r].list]

\* Mutant of ReadIncludes: the pipe, whose reading does not block, is read at once.
ReadIncludesAtOnce(r) ==
  /\ child[r] = "index"
  /\ IF FoundIncludes(r)
       THEN Answer(r) /\ pipe' = [pipe EXCEPT ![r] = NoPipe] /\ UNCHANGED printed
       ELSE Throw(r) /\ pipe' = [pipe EXCEPT ![r] = Emptied(r)] /\ UNCHANGED served
  /\ UNCHANGED <<task, open, written, dir>>

\* Process.wait returns, then everything in the pipe is read.  The list is there,
\* or index throws.
ReadIncludes(r) ==
  /\ child[r] = "index" /\ pipe[r].compiler \in {"exited", "died"}
  /\ IF FoundIncludes(r)
       THEN Answer(r) /\ pipe' = [pipe EXCEPT ![r] = NoPipe] /\ UNCHANGED printed
       ELSE Throw(r) /\ pipe' = [pipe EXCEPT ![r] = Emptied(r)] /\ UNCHANGED served
  /\ UNCHANGED <<task, open, written, dir>>

-----------------------------------------------------------------------------
(* filterAndResolve. *)

\* It logs before it does anything, so it needs the connection.
Filter(r) ==
  /\ Asked(r, "filter") /\ open[r]
  /\ Answer(r)
  /\ printed' = Logged(r)
  /\ UNCHANGED <<task, open, written, pipe, dir>>

FilterThrows(r) ==
  /\ Asked(r, "filter")
  /\ Throw(r)
  /\ UNCHANGED <<task, open, served, written, pipe, dir>>

-----------------------------------------------------------------------------
(* writeTo. *)

\* With mappings, their handlers are asked first; they run in the build.
BeginWrite(r) ==
  /\ Asked(r, "write")
  /\ child' = [child EXCEPT ![r] = IF Has(r, "mapping") THEN "mappings" ELSE "between"]
  /\ UNCHANGED <<task, wire, open, served, written, printed, pipe, dir>>

HandlersReturn(r) ==
  /\ child[r] = "mappings" /\ open[r]
  /\ child' = [child EXCEPT ![r] = "between"]
  /\ UNCHANGED <<task, wire, open, served, written, printed, pipe, dir>>

HandlerThrows(r) ==
  /\ child[r] = "mappings" /\ open[r]
  /\ Throw(r)
  /\ UNCHANGED <<task, open, served, written, pipe, dir>>

\* The log line before a part is acknowledged, and the part begun.
BeginPart(r) ==
  /\ child[r] = "between" /\ open[r] /\ written[r] < LastPart
  /\ child' = [child EXCEPT ![r] = "part"]
  /\ printed' = Logged(r)
  /\ dir' = [dir EXCEPT ![task[r]][written[r] + 1] = Torn(r)]
  /\ UNCHANGED <<task, wire, open, served, written, pipe>>

\* Files that another run opened or deleted meanwhile are of several.
EndPart(r) ==
  /\ child[r] = "part"
  /\ child' = [child EXCEPT ![r] = "between"]
  /\ written' = [written EXCEPT ![r] = @ + 1]
  /\ dir' = [dir EXCEPT ![task[r]][written[r] + 1] = IF @ = Torn(r) THEN r ELSE Mixed]
  /\ UNCHANGED <<task, wire, open, served, printed, pipe>>

\* A writer throws, a file cannot be opened, the compiler fails.
PartThrows(r) ==
  /\ child[r] = "part"
  /\ Throw(r)
  /\ UNCHANGED <<task, open, served, written, pipe, dir>>

EndWrite(r) ==
  /\ child[r] = "between" /\ open[r] /\ written[r] = LastPart
  /\ Answer(r)
  /\ UNCHANGED <<task, open, written, printed, pipe, dir>>

-----------------------------------------------------------------------------
(* The end of a generator. *)

\* A connection that nobody holds any more is forgotten.
Forget(r) ==
  /\ wire' = [wire EXCEPT ![r] = Quiet]
  /\ printed' = [printed EXCEPT ![r] = FALSE]
  /\ pipe' = [pipe EXCEPT ![r] = NoPipe]

\* The process is gone with all that it remembered.
Vanish(r) ==
  /\ child' = [child EXCEPT ![r] = "gone"]
  /\ served' = [served EXCEPT ![r] = <<>>]
  /\ IF open[r] THEN UNCHANGED <<wire, printed, pipe>> ELSE Forget(r)
  /\ UNCHANGED <<task, open, written, dir>>

\* close disposes of the index, and then, clearing the scope, of the same index
\* again, which may be the end of the process.
CloseIndex(r) ==
  /\ Asked(r, "close")
  /\ \/ Answer(r) /\ UNCHANGED <<task, open, written, printed, pipe, dir>>
     \/ Vanish(r)

\* connection.onClose: the process exits where its thread is free to see it.
Notice(r) ==
  /\ ~open[r]
  /\ child[r] \in {"idle", "mappings", "between"}
  /\ Vanish(r)

\* The process crashes or is killed: by its user, or by the kill that another
\* generator sends, after it has waited, to a process number that is free again.
Dies(r) ==
  /\ child[r] \notin {"none", "gone"}
  /\ Vanish(r)

\* What the generator does by itself, and what may go wrong in it.
GeneratorStep(r) ==
  \/ Store(r)
  \/ Fork(r)
  \/ IndexThrows(r)
  \/ ReadIncludes(r)
  \/ Filter(r)
  \/ FilterThrows(r)
  \/ BeginWrite(r)
  \/ HandlersReturn(r)
  \/ HandlerThrows(r)
  \/ BeginPart(r)
  \/ EndPart(r)
  \/ PartThrows(r)
  \/ EndWrite(r)
  \/ CloseIndex(r)
  \/ Notice(r)

CompilerStep(r) == CompilerPrints(r) \/ CompilerExits(r)

GeneratorNext(r) == GeneratorStep(r) \/ CompilerStep(r) \/ CompilerDies(r) \/ Dies(r)

=============================================================================
