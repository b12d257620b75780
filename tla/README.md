# A verification of kplusplus

kplusplus makes C++ libraries usable from Kotlin/Native.  Its generator,
`krapper_gen`, parses C++ headers with libclang, decides what can be wrapped,
lets the user's build script change what was found, and writes a C header, C++
glue code, a cinterop definition and Kotlin classes.  A Gradle plugin starts the
generator as a child process and talks to it over a pipe.

This directory holds TLA+ models of the generator, the TLC configurations that
check them on small instances, and proofs about them that TLAPS has checked.

File names below are short; the generator's sources are under
`src/krapper_gen/src/nativeMain/kotlin/com/monkopedia/krapper/generator/` and
`src/krapper_gen/src/commonMain/kotlin/`, the plugin's under
`src/plugin/src/main/kotlin/`.  `PROJECT.json` has, for each definition, the
lines it translates.

## 1. The system

A run goes through three stages (`README.md` of the repository, lines 46-73):
parse, resolve, output; mappings are applied between the last two.

    headers --parseHeader--> Wrapped* tree --filter, resolveAll--> Resolved* tree
                                                   |                   |
                                              (libclang)      mappings (in the client)
                                                                       |
    output directory <--HeaderWriter, CppWriter, compiler, KotlinWriter-'

| Component | State it keeps | Operations | What is hard about it |
|---|---|---|---|
| Parsing (`Parsing.kt`, `model/WrappedElement.kt`) | a global table of elements by USR; children lists and parent pointers | `parseHeader`, `mapAll`, `map`, `addChild`, merge | one declaration is met several times, in several places, in any order |
| Resolver (`Resolver.kt`, `model/WrappedClass.kt`, `WrappedMethod.kt`) | classes known, classes resolved, names in progress, a cache of mapped types | `resolveAll`, `map`, `canResolve`, `include`, `resolve` | mutual recursion over cyclic references; caching of answers that rest on unfinished work; exceptions swallowed halfway |
| Mapping engine (`IndexedServiceImpl.kt`, `ResolvedElement.kt`, `ResolvedClass.kt`) | the resolved tree, the mappings | `filterAndResolve`, `addMapping`, `writeTo` (`executeMappings`, `applyResult`), `close` | a snapshot of the tree is walked while results edit the tree; elements are looked up by equality; parent pointers are not serialized; `addChild` can throw after `removeChild` |
| Mapping client (`Mapping.kt`) | the tree a request carried, the results so far | `mapElement`; `remove`, `replaceWith`, `add` | an edit deep down must become one result about the current element; the copies it makes move parent pointers |
| Output (`codegen/*.kt`, `builders/CodeGenerator.kt`) | the files of the output directory | `writeTo`'s end, the writers, `CppCompiler` | several files must agree; writers fail piecemeal under a policy; the directory outlives runs that fail or are killed |
| Naming (`NameHandler.kt`, `Scope.kt`, `ImportBlock.kt`) | names given out | `uniqueCName`, `allocateName`, `selectName` | uniqueness across overloads, operators, fields; a limit on suffixes |
| Service and session (`KrapperServiceImpl.kt`, `App.kt`, `KrapperExecution.kt`, `KPlusPlusPlugin.kt`) | the configuration; the connection; the child process | `setConfig`, `index`, calls on the indexed service, `close` | calls back into the client while a call is under way; a process that dies; errors of `close` are swallowed |
| Executable cache (`KrapperGenExecutable.kt`) | one unpacked binary for all tasks | `getExeFile` | two tasks of one build |
| Include discovery (`generateIncludes`, `Process.kt`) | two pipes and a child | fork, wait, read, kill | waits before it reads |
| Types, signatures, operators (`model/type/*`, `Signature.kt`, `Operators.kt`) | none | conversions | pure functions |
| Filters (`FilterDefinition.kt`, `FilterDsl.kt`) | none | predicates | pure functions |
| Builders (`builders/*`) | a text under construction | blocks, symbols | layout only |
| Command line, Gradle extension | none of their own | configuration | - |

Interactions.  The plugin's task calls the service over the pipe, in order:
`setLogger`, `setConfig`, `index`, `filterAndResolve`, `addMapping` for each
mapping, `writeTo`, `close`.  During `writeTo` the service calls each mapping
back, with a serialized copy of the tree below the element's parent; the mapping
answers with a list of results, which carry serialized elements.  Nothing is
shared between the two processes.  Within the generator everything runs on one
thread, in coroutines that only suspend at these calls.  Between runs only the
output directory lives on.

What makes each component correct:

* parsing: every visible declaration is found, once, where it belongs; nothing
  hidden is; elements never nest in a circle;
* resolver: "resolving ensures references from the wrapped instances exist"; no
  class is lost to a cycle or to the order of visits; each policy keeps its
  promise; resolving ends;
* engine: the tree stays a forest whose parent pointers and siblings are
  consistent; an edit does what it says, for good; the loop ends;
* client: what is sent back is what the handler asked for, and finite;
* output: the directory is the output of one run; what Kotlin calls is declared
  and compiled; one failure costs one thing;
* naming: different things get different names;
* session: a task that succeeds has written its output; nothing waits for ever.

## 2. The modules

| Module | Models | Checked by | Proved about in |
|---|---|---|---|
| `ResolvedTree` | `ResolvedElement`: objects, children lists, parent pointers, equality, `addChild`, `removeChild`, decoding a received element | with its users | `MappingEngineProofs` |
| `MappingEngine` | the indexed service and `executeMappings`/`applyResult` | `engine`, `engine_removal_lost` | `MappingEngineProofs` |
| `MappingScope` | `Mapping.kt`, the client | `scope`, `scope_second_call` | `MappingScopeProofs` |
| `Resolver` | `resolveAll` and the recursion below it | `resolver`, `resolver_policies`, `resolver_include_dangles` | `ResolverProofs` |
| `Parsing` | `parseHeader`, `mapAll`, `map`, the merge | `parsing`, `parsing_out_of_line` | `ParsingProofs` |
| `Output` | the end of `writeTo`, the writers, the compiler, the directory | `output` | `OutputProofs` |
| `RunPromise` | what the plugin promises a build: the abstract specification | `build` | `GradleBuildProofs` |
| `Generator` | the generator as a service: its calls, its end, the compiler it forks | `build` | `GradleBuildProofs` |
| `GradleBuild` | the task, the executable for all tasks, builds and daemons; extends `Generator`, implements `RunPromise` | `build` | `GradleBuildProofs` |
| `Naming` | `NameHandler`, `Scope`, `ImportBlock` | `naming` | `NamingProofs` |

`InductionLemmas` holds induction over numbers and the existence of what a
recursive function defines, in a form that the proofs can cite: about sets and
functions, not about predicates and operators.

The `MC*` modules extend them and give TLC the values that a `.cfg` cannot
express.  Definitions that begin with a comment "Mutant of ..." are changed
versions of the definition named; they are not part of the model.  Each was
written as a plausible mistake in the code, and exists to show that a property
notices it.

### ResolvedTree and MappingEngine

An element is an object with an identity (a number), since `parent` pointers and
children lists refer to objects, and a key, since `indexOf`, `contains` and
`remove` go by `equals`: two classes are equal when their data is, all other
elements only when they are the same object (`Equal`).  `tree.kids` is the
children list, `tree.up` the transient parent pointer.  `Decode` is what
deserializing an element yields: new objects with null parents.

An action of `MappingEngine` is what the service does between two points where
it can be interrupted: `FilterAndResolve`, `AddMapping`, `WriteTo`, `Skip` (the
filter rejects), `Ask` (a request is sent), `Answer` or `HandlerThrows`, one
action per kind of result (`RemoveChildResult`, `ReplaceParent`, ...),
`Applied` (the loop goes on), `Close`.  `applyResult`'s order of calls
(remove, then add) and the exception of `addChild` between them are in
`AddNew`.  Filters and handlers answer anything: that covers every mapping a
user can write.

### MappingScope

The client's side of one mapping object over several requests.  `MapElement`
decodes a request and clears the results of the last one; `Remove`,
`ReplaceWith` and `Add` are the handler's calls, on any object that it can
reach; each frame of the recursion of `replaceWith` is a step (`ClimbOn`),
because the parent pointers it follows are changed by the frames before it.

### Resolver

The recursion map -> canResolve -> include -> resolve -> map is an explicit
stack of two kinds of frames.  State is the code's: `classes`,
`resolved`, `inProgress` (`otherResolved`, the marks), `cache`
(`mappingCache`) and what the resolver has found by name.  A class is its base,
a class that is nested in it and one method with a return type and arguments, of
which some have defaults; a type is a class, plain or behind a pointer, an
unresolvable or a native one.  `Asks` is the list of types that resolving a class
maps, in order, each with the class it is for: `WrappedClass.resolve` calls
`resolve` on its child classes directly, with no look at marks or cache, so the
questions of a nested class are asked in the frame of the outer one.  A nested
class is selected by `findClasses` too, and then has a frame of its own.

### Parsing

`program` is what the headers declare: kinds, semantic parents, hidden members.
The walk (`OpenHeader`, `Visit`, `Leave`) may write a declaration wherever C++
lets it be written (`Writable`): in what it belongs to, again there for a
namespace or a forward declaration, out of line in an enclosing namespace or at
the top of the file, and all that in every header.  A declaration is hidden
when `map` has no element for it: because of its access, because it is an
`operator new` or `delete`, or because its kind is not among those that `map`
lists (an `extern "C"` block, a union, a partial specialization, an enumeration,
a function template).  `mapAll` does not look inside of those.  `Mapped`, `Hangs`
and `AddChild` are `map`'s table and access test, `mapAll`'s conditions in their
order, and `addChild`.  `Merge` is the `reduceRight` over the headers' trees,
with the `require` of `addAllChildren`.

### Output

The state is the directory, file by file: absent, left by an earlier run,
truncated, or written by this run with what it declares, defines or calls.  The
text of a file is generated before `fopen(path, "w")` truncates it, so `Open`
comes after the writer has had its say (`Escapes`), and a crash between `Open`
and `Write` leaves an empty file.  `Kotlin` files are deleted one by one before
the first is written.  The results of `fclose` and of `remove` are ignored in the
code, so a file may lose text when it is closed (`WriteLoses`), and an old file
may stay (`DeleteFails`), while the run goes on.  `policy` decides whether what a writer throws at
(`fault`) ends the run or costs a piece (`Piece`, `Field`, `Property`).  In Kotlin only methods have a
policy of their own: what goes wrong in the companion object of a class, like a
missing base, costs the class (`ClassFails`).
`Leave` forgets everything but the directory, so that the next `Start` is that
of a new process with other classes.

### Generator and GradleBuild

One behaviour is the life of several runs of tasks (`pc`), each with a generator
process of its own (`child`) and a connection between them.  `wire[r]` is the
call under way; there is never more than one, since the task waits for each
answer, and the service's calls back into the task (log lines, requests to
mappings) happen inside of one.  `Send` and `Receive` are the task's side of
each call in `Calls`; `Store`, `Fork`, `Filter`, `BeginWrite` and so on are the
generator's.

What makes it worth checking is what the two can see of each other.  The
generator has one thread.  It sees that its connection is closed (`Notice`,
`onClose`) only where a handler suspends, at a log line or a request to a
mapping, so a generator whose run was cancelled goes on with the part of the
output it is at; `writeTo` is a sequence of parts with a log line before each
(`BeginPart`, `EndPart`).  `dir` says who wrote each part of an output
directory, `Torn` a run that is not done with it and `Mixed` several at once.
The task sees that its generator is gone as a failed call (`Failed`).  `close`
may end the process (`CloseIndex`: the index is disposed of twice), and a
generator may vanish at any point (`Dies`): a crash, a signal, or the deferred
`kill` of another generator, which is sent after `wait`, to a process number
that may be somebody else's by then.

`Fork`, `CompilerPrints`, `CompilerExits`, `CompilerDies` and `ReadIncludes` are
`generateIncludes`: the text is a number of pieces with the list's end at one of
them, and the pipe holds `Capacity` of them.  Reading is one step because the
generator only reads after the compiler's end.  A text may have no list at all
(`list` is 0): `generateIncludes` looks for two literal lines.  `IndexThrows` is
what stops `index` before there is a compiler: no configuration, no index from
libclang, a `/tmp/clang_includes.c` that cannot be written.

`LookUp`, `Unpack`, `Copied` and `Memoize` are `getExeFile`, one step for each
thing another task can see: `libsFile` read, the file truncated, filled, the
memo set.  Whoever opened a file last fills it (`openers`); a file that is run
cannot be opened for writing, one that is open cannot be run.  `Clean` deletes a
build directory, `NewDaemon` forgets the memo, `Abort` is a cancelled build or
an exception of the task itself (no compiler found, something not configured).

What is assumed of what is not in the repository: Gradle runs a task once at a
time; ksrpc fails a pending call when the other process is gone, and `onClose`
is called when the connection is closed; the operating system's rules for files
that are executed.  When a process is gone and its connection closed, the model
forgets both (`Forget`), to keep the state small.  Runs are born in the order of
their numbers.

`RunPromise` knows runs, tasks, a status and whether a run's output is complete,
and nothing of processes.  `GradleBuild!P` maps to it: `status` is `pc` with
the stages in between called running, and the output of a run is complete
(`Output`) when all parts in the directory are its own.

### Naming

The three places where names are made different from each other, one after the
other as in a run of the generator: `resolve`, `write`, `import`.  A name of the
first two is a number of underscores and a rest, because the code makes room by
putting underscores before it, and because `_` before `a` is the same as a
wanted `_a`; a name of the third is a sequence of words.  Which names are wanted
is arbitrary.  A method that resolving makes (`sizeOf`, `alignOf`) is a new
object at each attempt to resolve its class, a parsed one is the same
(`IsObject`); names that a failed attempt took stay taken.  Names of getters and
setters are not compared with anything (`AccessorName`), which
`MethodNamesDiffer` therefore excepts.  `LocalsDiffer` compares a variable with
those that were in scope when it was named; a name that is taken in an outer
scope after an inner one was left is not compared with those of the inner one.
The only word that a variable cannot be called is `object`, as in the code.

## 3. The runs

All runs finish within three minutes with two workers.  TLC's deadlock check is
on in all but those of `MappingScope`, where the client waits for requests that
need not come, `build`, where all runs may be over and the directories clean
(and where a compiler that prints too much is stuck for good, see 6), and
`naming`, where the generator may have stopped over its imports.

| Run | Instance | What it shows |
|---|---|---|
| `engine` | up to 3 elements, 5 objects, 2 mappings, 2 results in an answer | the four invariants, the two action properties and `RunEnds` |
| `engine_removal_lost` | the same, 1 result, 4 objects | a removal of a top-level element has no effect (see 6) |
| `scope` | one call on 4 elements; two calls on 3; two requests of 3 elements with a call each | an edit at any depth is one exact result; results are finite trees; what was read does not change; results belong to the request; calls return |
| `scope_second_call` | two calls on 3 elements | see 6 |
| `resolver` | 3 classes, 3 references and nested classes in all, 2 per method; IGNORE_MISSING with all classes selected, INCLUDE_MISSING with one | nothing is lost to cycles or order, a class that is not nested is resolved once, marks are taken back |
| `resolver_policies` | 2 classes, 2 references, all four policies, one or two classes selected | each policy's promise; resolving ends |
| `resolver_include_dangles` | 3 classes, INCLUDE_MISSING | see 6 |
| `parsing` | 4 declarations, 2 headers, 6 cursors | nesting is finite, nothing is missed that has an element, things hang in their place, hidden ones stay out, and which headers merge |
| `parsing_out_of_line` | 3 declarations | see 6 |
| `output` | 3 classes, 1 function, one fault a run (a writer that throws, a file that loses text, or a `remove` that fails), any number of runs | the directory is this run's but for what `fclose` and `remove` failed on; calls are defined; failures cost what they must; methods are inherited; the library comes first |
| `build` | 2 runs, 2 tasks of one project, one of them with a mapping; 2 parts of output; a pipe that holds 1 of 2 pieces | `Promise`: `GradleBuild` implements `RunPromise`; a list that was printed is found; nothing gets between the calls; the output is made with all mappings; a lone unpacker harms nobody; runs end |
| `naming` | 2 classes of 3 members, 2 attempts; 3 scopes of 2 variables; files of up to 4 of 16 imports, 2 numbers | names of methods, variables and imports differ, names stay, and the generator stops over imports only when it must |

The type invariants (`TypeOK` of each module) are part of what the proofs below
establish for all constants; that of `Resolver` is checked by a run too, since
its mutant is a plausible bug: a mapping cached by name and not by type.

Why these bounds are enough to be interesting:

* engine: three elements make a grandparent, a parent and a child, which every
  kind of result distinguishes, or two siblings, which equality confuses; two
  further objects allow a received element with a child, or two additions; two
  mappings of two results let a result apply to what an earlier one removed;
* scope: four elements put the edited element two levels below the current one
  (climbing takes two frames) or give it a sibling; two calls suffice for the
  first to disturb the second; two requests for what one leaves behind;
* resolver: three classes and three references allow a cycle with something
  outside of it that enters at each of its classes, self references, the same
  class by value and by pointer, and a nested class in a cycle with its outer one
  or with a third.  A class has one nested class at most, which has none itself
  and is resolved before the method.  Under INCLUDE_MISSING one selected class
  leaves two to be included;
* parsing: four declarations nest a method in a class in a class or in a
  namespace, with one beside them; one of them is hidden at most (`OneHidden`): what is in it
  is left out with it; six cursors allow a definition out of line
  and a repetition in the second header;
* output: three classes make a chain of two base classes or a missing base in
  the middle; runs are not bounded.  One thing goes wrong in a run (`OneFault`):
  files that lose text or stay do so each for itself, and what a writer that
  throws leaves out does not depend on them.  The proofs have no such bound;
* build: two runs are two tasks at once, that share the executable, or one task
  twice, whose first generator may still be there; two parts make a part that is
  written, one that is being written and one to come, for each of the two; the
  code has four.  A pipe of one piece and a text of two are less than, as much
  as, and more than the pipe holds;
* naming: two wanted names with and without an underscore let an underscore run
  into another name; three scopes let a scope be left and entered again below
  one that stays; the imports are chosen so that a package or a number makes one
  name look like another.  The code tries five numbers, here two, so that they
  run out with four imports.

Fairness.  `MappingEngine!FairSpec`: the loop is straight-line code, so an
enabled step of it is taken, and a call to a handler returns or throws; nobody
is obliged to call `writeTo` or anything else.  `MappingScope!FairSpec`: a frame
of `replaceWith` that was entered goes on.  `Resolver!FairSpec`: the recursion
goes on.  These are single threads that do not wait for anything.  `Parsing`,
`Output` and `Naming` state no liveness: parsing ends because the headers do, a
run of the output may be killed, and naming is asked by others.
`GradleBuild!FairSpec`: for each run, the task, its generator or its compiler
takes a step as long as one of them can (`GoesOn`).  That is weak fairness of
the three together, which is enough because they wait for each other: a task for
an answer, a generator for a compiler.  A handler of a mapping is assumed to
return or throw.  Nobody has to begin, to abort, to clean or to crash.

## 4. The proofs

TLAPS checks the following for every value of the constants, under the
assumptions named in the modules (`MaxElementsAssumption`, `BoundsAssumption`,
`ScopeBoundsAssumption`, `ResolverAssumption`, `ParsingAssumption`, `OutputAssumption`, `GeneratorAssumption`,
`BuildAssumption`, `NamingAssumption`, `DigitsAssumption`, `WordsAssumption`:
bounds are natural numbers, there is at least one part, names are of their kinds,
no two numbers that `selectName` tries are the same and no package is called
like one).  The
bounds are therefore no restriction there: they may be as large as one likes.

**MappingEngineProofs.**  The inductive invariant `IInv` is `TypeOK` together
with `TreeInv`: the tree is a forest in which children have larger numbers than
their parents below `next`, pointers agree with the lists (except below a
received root), and no siblings are equal.  `TypeOK` alone is not inductive,
since a result is applied to whatever `tree.up` names.  The lemmas show that
each operation on the tree keeps `TreeInv` (`RemoveChildKeeps`, `DecodeKeeps`,
`AddChildKeeps`, `AddNewKeeps`); `StepInv` has a step for each action.  From it:

* `EngineTypeCorrect`, `ElementsFormAForest`, `ChildrenKnowTheirParent`,
  `SiblingsStayDifferent`: conjuncts of `IInv`.  That siblings differ rests on
  the test in `addChild`, that there are no cycles on the fact that a received
  element is new.
* `RemovedForGood`: no step attaches an element that was detached.  The lemma
  `ResultsBringOnlyTheNew` says that a result adds no element to a children list
  but the one it brought.
* `EditsOfLiveElements`: removing a nested element that is in the tree, or
  replacing it, does exactly that.  `FirstEqualIsTheElement`: because siblings
  differ, `remove`, which goes by equality, removes the element meant.
* `LiveElementsAreRequested`: needs a second invariant, `Asked`: the request was
  made from the tree as it is.

**MappingScopeProofs.**  Theorems about handlers that make any number of calls
in trees of any size.  Two things make `IInv` inductive: every parent pointer
names an object made before the next one (`MadeBefore`), so that the frames of
`replaceWith` climb through objects that exist, and a call that climbs has no
result yet (`Answers`).  `ClimbKeeps` is one frame, `ReportAnswers` one result.

* `ScopeTypeCorrect`, `ResultsAreAnswers`: conjuncts, or nearly.
* `WhatWasReadStays`: a copy is always made at the next free object, so every
  children list that there was before the call is as it was (`KidsStay`, which
  each lemma about an action proves beside the invariant).  Parent pointers do
  move, and that is why a second call is lost (see 6).
* `ResultsCanBeSent`: an element of the request lists elements with larger
  numbers, of the request, an object made since lists what was made before it
  (`Aged`).  So no element is below itself, however the handler called.
* `OneEditIsDone`: needs what a frame of `replaceWith` has in its hand.
  `Halfway` says that the copy it has made reads, at any depth, like the element
  it was copied from with exactly the edit (`Edited`), and that the way up from
  there is still the request's.  `CopyReads` shows that one more frame keeps
  that; `BelowByLevels` unrolls the recursion of `Below`, after which the proofs
  speak of it as the smallest set that is closed (`BelowIsLeast`).

**ResolverProofs.**  Six theorems about any number of classes, any references
among them, cycles included, and every policy.  The stack is the recursion, so
the invariants speak of it, and build on one another.

* `MarksGoWithTheirCalls` (invariant `IInv`): calls of `map` and of `resolve`
  alternate (`IsStack`), what the innermost call returned is an answer to the
  call that asked (`Fits`), and every mark is `Held` by a call of `map` that
  waits for a class, or has just got its answer.
* `MethodsAreKept` (`OInv`): under OPAQUE_MISSING no answer is `Remove`, `Throw`
  or null, so `resolve` reaches its end, and the class that it returns is the one
  the call below it asked for (`Linked`).
* `ResolverTypeCorrect` (`SInv`): the calls under way are a chain (`IsChain`):
  each call of `map` is for the type that the `resolve` below it asks for at this
  point of its list, and each `resolve` for the class that the `map` below it is
  about.  `AskFacts` says what that list holds (each question has its `Reason`),
  by induction over the arguments.
* `WhatIsMissingThrows` (`TInv`): as long as nothing is thrown, every mapping in
  the cache, every answer a waiting `resolve` has got, and every reference of a
  class that was made is `Known`: resolved to something, or marked as being
  resolved, which is the answer that closes a cycle.  `KnownGrows` says that
  nothing known is forgotten: a mark is taken back when its class is recorded.  At the end
  there are no marks (`IInv`), and known is resolved.
* `NothingIsLost` (`LInv`): no class that the reference definition `Resolvable`
  keeps is ever cached as `Remove`, recorded empty, or answered null.
  `ResolvableUnroll` is what that needs of the definition: the rounds that take
  classes away end in a set in which each class is supported by the others
  (`RoundsEnd`, by induction over the rounds: each makes the set smaller or
  leaves it as it is).  `NestedFor` says the same of a nested class whose
  questions its outer class asks: it is not given up while it is supported.  Under
  THROW_MISSING the theorem follows from `TInv`.
* `ResolvesOnce` (`NInv`), for classes that are not nested in another (`Alone`):
  `resolve` is under way at most once for such a class
  (`Apart`, because of the marks; `AskedAdds`: all that is asked about it is asked
  in its own frame), and if it is `Opened` a second time it is
  `Dead`: its base class is missing and cached so.  It fails each time at that
  first question, before anything would be added to it a second time.  A class
  that is not dead is recorded after its first time, and `canResolve` does not
  ask for it again.  A nested class is prepared by its outer class as well, each
  time that one is resolved (see 6).  INCLUDE_MISSING is excepted as in the
  property: `includeMissing` may resolve a class a second time (see 8).

`BInv` says which policies throw and which look elsewhere.  The lemmas are in
three layers: about sequences of calls (`ChainPush`, `ChainPop`, ...); what each
action does to the calls and the cache (`Deciding`, `Decided`, `AskingOn`,
`Answering`, `Searching`, ...), stated once; and for each invariant one lemma per
action, which uses those and does not look into the action again.  TLC checked
each of these invariants on the instances of the runs, under each policy, before
it was proved.

**ParsingProofs.**  `ParsingNests`: `TypeOK` and `NestingIsFinite` together are
inductive.  A child is always around its parent (`Within`) because a cursor can
only be written where C++ lets it be (`WritableIsWithin`), and a merge only
moves what hangs below a translation unit (`MergeNests`).  `Within` is stated as
membership in every set closed under semantic parents, so that no recursion
needs to be reasoned about.  `ParentsComeFirst` draws the consequence: numbers
decrease along parent pointers, so climbing them ends.

`TreeShowsTheHeaders` is a second inductive invariant, which explains the tree
by the history of the walk: `WalkInv` says where cursors can have been, `TreeInv`
that each children list holds what was met there and may be listed, that parent
pointers name an element that lists their owner, and how far a merge has come.
From it:

* `SharedHeadersFail`: a merge compares what two headers show at their top.
* `InPlaceHangsThere`: what was only met where it belongs has one place.
* `NothingIsMissed`, `TheHiddenStaysOut`: what is found is a set closed under
  children lists; induction over the number of steps from the root shows that it
  is all that was met and that `map` has an element for, with all that it is in,
  and, for what is written in place, no more.  What `map` has no element for is
  not covered by these theorems or by `InPlaceHangsThere`: it is lost, with all
  that is inside (see 6).

**OutputProofs.**  For any number of classes, functions and runs.
`DirectoryIsThisRuns` and `KotlinFollowsTheLibrary`, about which files there
are: the invariant `DirInv` says how far a run has come: the files before `file` are as
they must be at the end, and until the directory is cleaned nothing in it that
is Kotlin is of this run.  The two properties are not inductive without it.  "As
they must be" allows for the two calls whose result the code ignores: a file of
this run may have lost text when it was closed, and an old Kotlin file whose
`remove` failed in this run may still be there.  Nothing else may: no file of a
run before, no empty file of a run that was killed.
`GoOnKeeps` is the heart: between a file and the next one only files lie that
are not wanted and not there, because the directory was emptied before.  It
holds for any contents, faults and policies.

`CallsHaveADefinition`, `FailuresCostThemselves`, `MethodsComeDown` and
`OutputTypeCorrect` are about what the files say that lost no text.
`FailuresCostThemselves` says under LOG what a failure costs: in C and C++ the
thing itself, in Kotlin a method itself, and the whole class when it is its
companion object or when a base is missing; a method is in the file of its class
exactly when neither holds and it did not fail.  `MethodsComeDown` is about
methods; the fields of a base do not come down (see 6).  Their invariant `CInv` is
short: a file of this run says what its generator makes of the input, and that
generator has not thrown.  The work is in what generators make, which the model
computes by recursion: `BasesExist` and `BasesAre` (the chain of base classes,
by induction from the first class on), `FlattenIs`, `InOrderIs`, and from them
`ModuleIs` (a C or C++ file holds exactly what the writer came to) and
`KotlinClassIs`.  `InOrder` chooses the ordered sequence, and is not the
community modules' `SetToSortSeq`, because that rests on TLC's `SortSeq`, of
which the provers have no definition; `OrderExists` shows that there is one to
choose.

**GradleBuildProofs.**  `BuildsKeepTheirPromise`: `Spec => Promise`, the
refinement, for any number of runs, tasks, homes, mappings and parts.
`InitImplements` and `StepImplements` are its two halves.  The invariant `IInv`
says for each run by itself (`Local`) how far it and its generator have come
together: the generator has answered the first calls of the task, in their
order, and no others (`InOrder`, with `Upto`), what it is busy with is what it
was asked for (`Busy`), and who has got past `write` has written everything
(`WrittenWhenAnswered`).  For runs of the same task it says that only one is at
work (`OneAtATime`) and that, unless one of them failed, the parts that it has
written are its own (`OwnParts`).  None of this is in the properties, and none
of them is inductive without it: `Finish` looks at the number of calls, not at
the directory.  `Effects` lists what a step can do that a build sees, so that
`StepImplements` need not go through all actions.  From the same invariant:

* `WriteComesLast`: `InOrder` at the call of `write`; `NoWriteBefore` says which
  call that is, for any number of mappings.
* `LogsStayOffTheChannel`: `LoggerFirst`, an answered call means that
  `setLogger` was answered before.
* `IncludesAreFound`: if `index` failed, then no compiler was started, or it
  died, or it ended without printing a list (`NothingToFind`).  While nobody
  reads, what the pipe holds is what was printed (`Piped`), so a compiler that
  came to its end fit into the pipe, and its list is read when there is one.
* `UnpackingIsHarmlessAlone` needs a second invariant: whoever is to make the
  file that somebody relies on will not be the first who opened it (`Relied`),
  which holds because a run that makes a file made its look at `libsFile` before
  anybody had made one (`Opened`).

**NamingProofs.**  `MethodsAreToldApart`, `NothingIsHidden`,
`ImportsAreToldApart`, `NamesAreForGood`.  For methods the invariant is that
every name given to one is among `allNames` (`GivenAreUsed`), so that a new one
differs from all.  For variables and imports the property is its own
strengthening; `FreeIsFree` and `CandidateType` say what the search for a free
name finds.  `ImportsStopLate` is a counting argument: when all that is tried for
a name is taken, then by different imports, since the candidates differ
(`DigitsAssumption`).

## 5. What is only model-checked

* Liveness: `RunEnds`, `CallsReturn`, `ResolvingEnds`, `RunsEnd`.  TLAPS as installed has
  no ENABLED.

Every other property of the passing runs is a theorem as well.

## 6. What the code does not keep

Each of these is a run that TLC refutes.

* **A mapping cannot remove a class** (`engine_removal_lost`).  `applyResult`
  goes through `element.parent?.`, which is null for a top-level element.  The
  repository's README says mappings can remove.
* **A second edit is lost** (`scope_second_call`).  The first edit rebuilds the
  parent and thereby points the children's parents at the copy.  The second
  climbs through the copy, never meets the current element, and returns without
  a result.
* **References dangle under INCLUDE_MISSING** (`resolver_include_dangles`).  The
  cached mapping of a type outlives the class that turned out empty.
* **A method loses its class** (`parsing_out_of_line`).  A definition at the top
  level of a file is added to the translation unit, although `mapAll` means to
  keep methods out of namespaces that their class is in.  The parent pointer
  then names the translation unit, so that resolving finds no class for the
  method.

Seen on the way, without a run of their own:

* **A file may be cut short, or an old one stay, in a run that succeeds.**
  `File.writeText` looks at what `fputs` returns and not at `fclose`, where a full
  disk shows for a short text, and `File.delete` ignores what `remove` returns
  (`File.kt:97-107`).  `OutputIsThisRuns` and its kin except these files.
* **A nested class is resolved twice**, by itself, since `findClasses` selects
  it, and as a child of its outer class (`WrappedClass.kt:125-132`), so that
  `modifyMethodsIfNeeded` adds `sizeOf` and `alignOf` to it twice.
  `ResolvedOnce` is about the others.
* **What `map` has no element for is lost with all that is inside**
  (`WrappedElement.kt:91,193-201,290`): an `extern "C"` block, for one, hides the
  functions and classes declared in it.  `NothingMissed` excepts it.
* **A companion object that fails costs its class.**  Under LOG, a class whose
  `sizeOf` or `alignOf` is not there (a mapping can remove them), or whose
  destructor has no name, has a Kotlin file without the class
  (`KotlinWriter.kt:231-316`); methods are skipped one by one.
* `add` on an element that is neither the current one nor its parent has the
  body of `replaceWith`: the element is replaced, not added to (`Mapping.kt:145`).
* A Kotlin class gets its own properties a second time, and never those of the
  topmost class above it: for each class above, `handleSuperClassesRecursive`
  walks the fields of the class below that one (`KotlinWriter.kt:210`).
  `Inherited` is so in the model; `MethodsAreInherited` is about methods only and
  does not notice.
* A handler is shown the parent in place of an element that an earlier mapping
  removed (the index is -1).
* `replaceWith` and `remove` on an element that is not below the current one
  climb to a root without a parent and do nothing.
* Headers that share a top-level declaration cannot be indexed in one request
  (`SharingFails` says exactly when), which is why the repository's example uses
  one header that includes the others.
* Under LOG a thing that the C++ writer fails at is still declared in the header
  and called from Kotlin, while a function that the Kotlin writer fails at ends
  the run.
* A compiler that prints more than a pipe holds and the generator that waits for
  it wait for each other for good, and the build with them; `RunsEnd` excepts
  this case.  A search path that long is unlikely, not impossible.
* A generator that a cancelled run leaves behind writes at least to the end of
  its part, while the next run of the task may be writing the same files
  (`Disturbed` in `RunPromise`).
* Two tasks that unpack the executable at once can make each other fail, and so
  can a build directory that was cleaned while the daemon remembers its file: the
  run fails, it never succeeds wrongly.
* A field `x` and a method `x_get` of one class want the same C name and get it.
* Two Kotlin classes whose names differ only in dots and underscores share a
  file.

## 7. What is not modelled

* Text: what a declaration, a cast, a name or a Kotlin class looks like; the
  builders.
* `Namer.uniqify`, which hands a name through unchanged and which nothing calls.
* Templates, fields of wrapped classes, `canAssign`, enumerations, functions in
  namespaces while resolving.  Only classes and methods are needed for the
  recursion's hazards.
* A second request in one process, for which the table of elements is not
  empty: each run of a task has a process of its own and makes one request.
* Calls that overlap (`addMapping` while `writeTo` is suspended): the task makes
  one call after the other, and `WritesWhatWasAsked` says that it waits.
* `ping`, `getConfig` and `quit` of the service, which the plugin does not call,
  and what `debug` logs besides.
* The callback router and the pointers that Kotlin holds at run time.
* The repository's C and C++ files.  The program is written in Kotlin, under
  `src/krapper_gen` and `src/plugin`; the C++ headers under `src/example` are
  the library (V8) that the example wraps, those under `src/krapper_gen` are the
  test library that the tests parse and a generated file of libclang stubs
  (`prebuilt/nativeInteropStubs/c/clangstubs.c`).  They hold declarations and
  generated marshalling without state of the program's own, so there is nothing
  in them to model.
* Build files.

## 8. Plan

Built so far, in this order, the most important behaviour first: the tree and
the engine with its proofs; the client with its proofs; the resolver with its proofs; parsing with its proofs;
the output with its proofs; naming with its proofs; the session, the executable
and the include list with their abstract specification and its proof.  What
remains, in order:

1. Composition of `MappingEngine` and `MappingScope`: a request of the one is
   the start of the other, and the results of the other are applied by the one;
   an abstract specification of an edit that both together implement.
2. `Resolver` with fields, namespace functions and templates; duplicates under
   INCLUDE_MISSING; `Output` with the properties of base classes.
3. `Parsing` with a second request over the same table.
4. Proofs: of what 1 to 3 add.
