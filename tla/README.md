# A TLA+ model of Ekam

Ekam is a build system that finds out by itself what to build. It has no build
files: every source file is tagged, rules are triggered by tags, the actions the
rules make produce more files with more tags, and so on until nothing is left to
do. In continuous mode it then watches the sources and repairs what a change
invalidates. This directory models the parts of Ekam where that is hard, checks
them with TLC on small instances, and proves, with TLAPS, what should hold in all
instances: of most parts, all the safety properties that the runs check.

## The system: an inventory

All of Ekam runs in one thread around an event loop. Concurrency comes from the
outside: subprocesses, the file system, sockets, signals, and other Ekam
processes in the same directory. Inside, it comes from the order of callbacks:
anything may be canceled, by destroying the object that waits for it, while its
callback is queued.

| component | source | state | operations | what is hard |
|---|---|---|---|---|
| Driver and ActionDriver: the build graph | `ekam/Driver.*` | pending queue, active list, completed map; tables of tags, triggers, dependencies and made actions; per action its state, queued callback, outputs, tags, rules | source file added, changed, removed; an action looks up a tag, provides a file, provides a rule, passes, fails, ends | a change resets actions, which takes their outputs away, which resets and deletes more actions, while pointers to all of them sit in the tables and on the stack |
| Source watcher | `ekam/ekam.cpp` 130-332 | a tree of watchers, one per file or directory, each with a watch and a callback | modified, deleted, rescan | events arrive late and in batches; a watcher may be removed from inside its own callback |
| Instance locks | `ekam/ekam.cpp` 336-410 | two lock files, the verdict in one of them | take the lock, wait for the other instance, start, idle | several processes, crashes, a verdict read at the wrong moment |
| Event manager | `os/EpollEventManager.*` | callback queue, epoll watches, inotify watches, table of waited-for processes | run later, wait for an fd, a process, a file | signals that coalesce, batches of events whose handlers cancel each other |
| Event group | `os/EventGroup.*` | count of pending events, the queued end | wrap an event, call `noMoreEvents()` | an event added after the count reached zero |
| Promises | `base/Promise.h` | chains of futures | fulfil, cancel, throw | cancellation from a callback, exceptions nobody hears of |
| Subprocess, streams, sockets | `os/*` | handles | start, kill, read, write | the exit of a process that nobody waits for |
| Row table | `base/Table.h` | rows with a deleted flag, up to three indexes | add, erase, find, search, refresh | rows erased through one index and met through another |
| Plugin actions | `ekam/ExecPluginActionFactory.*` | the lines a rule has written, its known files | the commands of the rule protocol | the rule's claims, the end of its output, its exit code |
| C++ actions | `ekam/CppActionFactory.*` | the objects collected for a link | collect, wait, link | a transitive closure whose elements are found one by one |
| Dashboards | `ekam/*Dashboard.*` | tasks and their states, clients | begin task, set state, output, attach, detach | clients that come and go, or do not read |
| Language server | `ekam/ekam-langserve.c++` | dirty set, tasks and diagnostics per file | dashboard events, editor events, publish | files that become dirty again while they are published |
| Interceptor | `ekam/rules/intercept.c` | one pair of streams and a cache per rule process | open, stat, ... | threads that share the streams |
| Disk files, tags, hashes, debug log, owned pointers | `os/DiskFile.*`, `ekam/Tag.*`, `base/*` | none of their own | pure functions or plain I/O | nothing a model would show |
| Rules, editor plugins | `ekam/rules`, `qtcreator`, `vscode` | none in the build | scripts and clients | outside the build's process |

How they interact: the source watcher (or, in a single build, the scan of the
source tree) calls `Driver::addSourceFile()` and `removeSourceFile()`. The driver
asks each `ActionFactory` for actions and starts them on an `EventGroup` of the
event manager. An action calls back through its `BuildContext`, which is its
`ActionDriver`. The event group tells the driver when the action has nothing left
to wait for. Whenever something has happened the driver starts actions from the
queue, and tells the `ActivityObserver` (the instance locks) when the first one
starts and when none is left. Everything the driver does is shown on a dashboard.

The correctness of each part, in a line:

* the driver: after any history of changes the build is the one that the current
  sources call for, nothing in it refers to what is gone, and it comes to an end;
* the watcher: when events have been handled, the driver's source files are those
  on disk;
* the locks: one process builds at a time, and a process that waited for it
  returns its verdict;
* the event manager and the event group: every event waited for is delivered once
  unless canceled, never after, and the end is never told early;
* the table: an indexed table behaves as the set of its live rows;
* the dashboards: a client sees the current tasks, whenever it came.

## Modules, and what they compose

Each run is of one question that the code has to answer; there are twelve, listed
with their instances in the sections below. `EXTENDS` is how modules compose here:
a module that is extended has no steps of its own to which the other adds.

| modules | of | run | theorems |
|---|---|---|---|
| `Driver`, `MCDriver` | the build graph | `driver_cycle`, `driver_learn` | `DriverProofs` |
| `EkamLocks` | processes in one directory | `locks` | `ProcessProofs` |
| `ProcessExit` | SIGCHLD and subprocesses | `process` | `ProcessProofs` |
| `PluginAction` | a run of a rule, its streams, its reader, the event group | `plugin` | `PluginActionProofs` |
| `Inotify`, extended by `SourceWatcher`, `MCSourceWatcher` | file system, kernel and event manager; the watchers of sources | `watcher` | `WatcherProofs` |
| `Promise`, extended by `EventLoop`, `MCEventLoop` | promises; the epoll loop that calls them | `promise`, `promise_errors` | `ProcessProofs` |
| `RowList`, implemented by `Table` | what an indexed table promises; how it keeps it | `table` | `WatcherProofs` |
| `ConsoleDashboard`, extended by `Dashboards`, `MCDashboards` | one terminal; the mux, the network dashboard and its clients | `dashboards` | `DashboardsProofs` |
| `LangServe`, `MCLangServe` | the language server | `langserve` | `LangServeProofs` |
| `Intercept`, `MCIntercept` | the library in a rule's processes, and Ekam's end of its pipes | `intercept` | `InterceptProofs` |

Two modules are shared. `Sublists` is what a loop that calls `erase()` on a vector,
or that copies the elements to keep, leaves of it; `Inotify`, `Promise`, `RowList`,
`Table`, `ConsoleDashboard` and `LangServe` use it. `SequenceLemmas` has what is proved about
it once, and about sequences defined element by element.

The pieces meet as follows. `PluginAction` takes from the promises of `EventLoop`
that a chain tells its last link once; `EventLoop` leaves its two other sources of
events, signals and files, to `ProcessExit` and `Inotify`. `Driver` takes from
`PluginAction` that an action ends, by itself or by a reset, and what it provides
then; `Dashboards` takes from `Driver` how the states of an action follow on each
other; `LangServe` takes from `Dashboards` the order of the messages of a task.

What is left to do, in the order of its worth: the cascade of resets one call at a
time, as a machine with a stack that refines the atomic one of `Driver`; liveness of
the build (it ends when sources stop changing, if the wishes of the actions allow
it); the closure of `CppActionFactory` over `findProvider()`.

## Driver

`Driver.tla` has one action per handler and per call an action makes through its
`BuildContext`. Because the process is single-threaded, a handler runs to its end
before another starts. Only `returned()` and `addSourceFile()` are split, at the
calls of `registerProvider()`, one per tag of each file, because each call resets
actions and makes new ones; `call` holds what is left of the handler, and nothing
else is enabled until it has been done.

| code | model |
|---|---|
| `pendingActions`, `activeActions`, `completedActionPtrs` | sets of the same names. `isRunning` is membership of `activeActions` |
| `ActionDriver` addresses | `Acts`, a pool: an id is used again once its action is freed, so a pointer that outlives its action would be seen to point at another |
| `tagTable`, `dependencyTable`, `triggers`, `actionTriggersTable` | sets of records of the same names |
| `Provision*` | creator and file; the creator of a source file is `Root` (a null pointer) |
| `ActionFactory*` | a built-in name, or the action that provided it. `addActionType()` has one caller, `CommandReader::eof()` of the plugin actions (`ExecPluginActionFactory.cpp` 287-289), once in a run, at the end of the output |
| the `deps` of `returned()` | `call.shield`, computed once, before the first registration, as in the code |
| `choosePreferredProvider()` | `ChoosePreferredProvider`, the best rank. `Rank` stands for the number of directory levels that are shared; files that tie are told apart by the order of rows in the code, and in the model any may be chosen |
| `reset()` and the two `resetDependentActions()` | `ResetCascade`, the set of actions the recursion reaches, and `Deleted`, those among them that lose their reason to be. The order of the calls does not change either set |
| `startSomeActions()` | `StartSomeActions`, the end of every handler |
| `asyncCallbackOp` | `"start"` or `"done"` while a callback is queued, which a reset cancels |
| `assert(!currentlyExecutingReturned)` | the action `Abort`: the process stops there |

Abstracted: the order of the queue and of rows (so the model allows every order);
contents and hashes (a changed file is `AddSourceFile` again); the wishes of
actions, which are the constants `Looks`, `Makes` and `Learns` (what an action of
some kind on some file *may* do, in any order and any number of times).

Left out: the links `install()` makes in the output directories; the dashboard
tasks; exceptions out of a callback. The last never reach the driver:
`threwException()` is called by `EventGroup` around plain runnables only, and the
driver's callbacks are promise callbacks, whose exceptions `Promise.h` (588-618)
passes to the next promise of the chain.

### Properties

* `OneOwner`: each action is in exactly the container that its state and its
  queued callback say, and one that is queued again holds nothing of an earlier
  run. This is what the assertions of `start()` demand.
* `NoDanglingRows`: no row, and nothing on the stack of `registerProvider()`,
  refers to a provision, an action or a factory that is gone.
* `FreshChoice`: every lookup is answered as it would be if it were asked now,
  except where the better answer was itself built from the action that asked.
* `TriggeredExactlyOnce`: a factory has made exactly one action for each of its
  tags that a file carries, in whatever order tags and factories came.
* `NoSelfReset`: no tag that an action registers resets the action itself by way
  of what it was built from, at any distance. This is the rule that keeps mutually
  dependent actions from rebuilding each other for ever, and it has to hold
  through cascades too.
* `NoIdleSlot`: between handlers nothing waits while a slot is free.
* `ReportIsCurrent`: between handlers the observer's last word is the state of
  the build.
* `AssertionHolds`: `reset()` never reaches the action whose `returned()` is on
  the stack, as `Driver.cpp` 429 asserts. It holds as long as no rule is learned
  (checked in `driver_cycle`, and proved), and fails otherwise, see below.

### Runs

| run | instance | shows |
|---|---|---|
| `driver_cycle` | 3 actions, sources `lib`, `app`, `alt`, 2 slots | two actions that would like to be built from each other, ties, and a file that triggers nothing; `OneOwner`, `FreshChoice`, `NoIdleSlot`, `ReportIsCurrent`, `NoSelfReset`, `AssertionHolds` |
| `driver_learn` | 4 actions, sources `lib`, `tool`, one output that may be gone before its action ends, 2 slots | a rule learned and unlearned around the files it acts on, and chains of three; `NoDanglingRows`, `TriggeredExactlyOnce` |

The bounds: the pool of actions is as large as the instance can use at once
(deadlock is checked, so a pool that was too small would show); two slots make
actions run at the same time and wait; in `driver_cycle` the action of `alt`
also makes a header, so that what an action looks up may have a better provider, a
tying one, and one it made itself; three sources are the least with all of these.
A chain of source, generated file and output, one of whose links is made by a
learned rule, is the least in which a cascade both queues and deletes. A run of an action gives
a file the same tag at most once (the code would register it twice). The actions
of the pool are interchangeable, and TLC uses that symmetry; no run with symmetry
checks liveness.

### What the code does otherwise

* *Tags of deleted outputs.* `returned()` drops the outputs that
  no longer exist from `provisions`, but not from the parallel `providedTags`
  (`Driver.cpp` 385-400). The outputs after a dropped one are registered with the
  tags of their predecessors, though the manual says of `provide <filename> <tag>`
  that the file has that tag (`README.md` 260). `Returned` models it as it is.
* *A rule that uses what its actions make.*
  `getTransitiveDependencies()` follows provisions but not factories. An action
  made by a learned rule does not count the learn action among its dependencies;
  if it provides a tag that the learn action looked up, the learn action is reset,
  its rule goes, and with it the action whose `returned()` is on the stack, which
  `reset()` asserts cannot happen (`Driver.cpp` 429). With `AssertionHolds` added
  to `driver_learn`, and a rule that looks up `lnk`, TLC shows it.

Two hazards are out of sight here. `reset()` and `resetDependentActions()` collect
the actions to delete and use each while others are being deleted (`Driver.cpp`
494): in the model a cascade is one step. And `install()` keeps a pointer to a
provision's file, which a second `provide` of that name replaces (`Driver.cpp` 210):
installations are left out.

### Proofs

`DriverProofs.tla` proves, in this order, `TypeCorrect`, the invariant and what
follows from it, `AnswersAreFresh` (`FreshChoice`) and `ActionsMatchTriggers`
(`TriggeredExactlyOnce`), for every pool of actions, every set of files, tags
and rules, every rank, every number of slots and every wish of the actions, from
`DriverAssumption` alone (which `Driver.tla` declares and TLC evaluates in every
run).

The inductive invariant is `IInv == TypeOK /\ OneOwner /\ NoDanglingRows`. Neither
of the last two is inductive alone: that a row's action is alive depends on which
containers a reset takes it from, and that an action holds nothing of an earlier
run depends on the rows that were removed with it. The argument has three layers:

1. *Closures.* `Closure` is the least closed set, by definition an intersection.
   It contains its seed, is closed, and is contained in every closed set that
   contains the seed. Everything known about cascades and dependencies comes from
   these three facts, so no induction is needed.
2. *The reset.* `CascadeKeeps`: if the rows are live and `R` is closed under
   `ResetCascade`, what remains after `R` is cleared and `Deleted(R, P)` is
   removed is live. The cases are the four tables; each uses that `R` is closed
   under one of the two edges.
3. *The handlers.* One lemma per handler, each in terms of what it adds to the
   tables after the reset.

`BuildDoesNotChaseItself` (that is, `NoSelfReset`) needs one more idea. The shield
is computed once, when `returned()` begins, but the dependencies of the action may
change while its tags are registered, since each registration resets actions and
makes new ones. `ShieldCovers` says that the shield goes on covering them: a reset
only takes rows away, and every new row belongs to a fresh action that the
registering action triggered, never to one it was built from. With that, the
actions outside its dependencies are closed under the edges of a reset (an edge
into a dependency would make its source a dependency too), so a cascade that
starts outside stays outside. `AssertionHoldsWithoutRules` has the same argument:
the edges of learned rules are the only ones that `getTransitiveDependencies()`
does not follow.

`SlotsAreUsed` and `ReportedAsIs` follow from what each handler leaves to
`startSomeActions()`; the latter from the strengthening that while something is
active, the report is `"building"`.

`AnswersAreFresh` has to show that the exception in `FreshChoice` lasts: an old
answer may stay because the better one was built from the action that asked, and
the step after that must not take this excuse away. `DependenciesLast` says so: if a
cascade `R` spares an action, it spares everything that one was built from (the
actions outside `R` are closed under the edges of the dependencies) and the rows in
between, so `getTransitiveDependencies()` of a spared action only grows. The step
that could break the property is the registration of a row that answers some lookup
better. Whoever asked is reset unless it is in the shield, and `ShieldIsUsed`, the
converse of `ShieldCovers`, says that the shield holds nothing else than what the
registering action still depends on: that is the excuse.

`ActionsMatchTriggers` counts. `TriggeredExactlyOnce` speaks of the files and rules
that are there; it is inductive only as `Matched`, of all of them, since a reset
takes away both the actions and what they are counted against. Three lemmas carry
it: `ResetMatches` (a cascade deletes all the actions of a file and a rule or none,
and with all of them the file's tags or the rule's triggers), `FireMatches` (a new
row adds one to both sides, by `FS_AddElement`) and `RescanMatches` (a new rule had
no actions, and now has one per wanted tag: a bijection). Each registration must be
of something new, which is `LeftIsNew`; that holds because an action provides a file
once (`FilesOnce`, which `provideInternal()` looks for and `returned()` keeps as it
filters out the deleted files), and a rule is registered after the files of its
action. The counts are finite although the pool of actions need not be.

No liveness of the driver is stated yet, so its runs assume no fairness.

## EkamLocks

Any number of Ekam processes in one directory, each of which starts, builds or
waits for another, and ends or is killed, any number of times. The two files are
flocked; the second holds verdicts, and outlives everybody.

| code | model |
|---|---|
| `tryTakeMainLock()`, `main()` 529-544 | `Open`, `TakeMainLock`, `GiveUp` (continuous mode), `Wait` |
| `waitForOther()`, `hasFailures()` | `TakeShared`, then `ReadVerdict` with the end of the process; the uncaught `logic_error` is `status = "threw"` |
| `startingAction()` | `StartingAction` asks for the lock, `TakeExclusive` has it |
| `idle()` | `Idle`, which writes at the descriptor's offset (`Write`); `IdleAlready` when nothing was running |
| the end of `main()`, a signal | `EndProcess`, `Crash`; the kernel takes the locks back (`Leave`) |

`contents` counts in verdicts, not bytes: `"pass"` and `"fail"` are both four bytes
long, and only the first is read. `firstOf` and `since` are history.

Left out: file systems without locks, on which the code warns and goes on with
none (`noLocking`). The lock files are opened close-on-exec
(`O_CLOEXEC`), so between `fork()`
and `exec()` a child holds them too; that window is left out as well.

* `VerdictIsStill`: one process builds at a time, and none while another reads.
* `FirstByte`: the byte that is read is the verdict of the last build that was the
  first of its process.
* `ToldOfBuild`: who asked while such a build was under way is told how it, or a
  later one, ended, unless the process was killed.
* `NobodyWaitsForEver`: who waits for another's build returns, and a build that
  waits for readers begins, whoever crashes.

| run | instance | shows |
|---|---|---|
| `locks` | 2 processes, 2 builds in a continuous run, fair | `VerdictIsStill`, `FirstByte`, `ToldOfBuild`, `NobodyWaitsForEver` |

Either process may build, wait, be killed and start again, so each meets the
files of a process that is gone; two builds in a run are the least in which a
verdict is not the first. A third process adds one that comes in between; the
proofs cover it, for the safety properties.

*Fairness.* Each process goes on (weak fairness of its steps), and every build
ends: the rule of a build is a process that ends or is killed. `flock()` is
strongly fair: a released lock goes to the processes that wait for it, so one that
keeps waiting is not passed over each time. No process has to start, and any may
crash.

*What the code does otherwise.* In continuous mode the verdict of the second and
every later build is written behind the first, because `idle()` never seeks
(`ekam.cpp` 392), and nobody reads it: a process that waits then returns the
verdict of the first build of the other, though the message it gives is "Waiting for build to complete..." (540). And a process that comes before the first
action of the other's build starts, or after that build was killed, finds the
active lock free and the file empty, and dies of an exception (`ekam.cpp` 371): in
the model it ends with the status `"threw"`.

*Proofs* (the first half of `ProcessProofs.tla`, for any number of processes and
builds; it extends `ProcessExit` too, which is why names that both modules would have
begin with `Locks` here). The invariant `LocksInv` adds to `LocksTypeOK` and `FirstByte` who holds which lock in which place of
the program (`LocksHeld`), that a process at offset 0 has the verdict of an
earlier process before it and one further on has written the first itself
(`WriterPlace`), and what `since` says of the build that is under way
(`SeenSince`). It yields `VerdictIsNeverWrittenUnderAReader`, `ReadsTheFirstByte`
and `WaiterIsToldOfBuild`. Liveness is checked by TLC only.

## ProcessExit

How the event loop learns that a process has ended, and what a `Subprocess` that
is told too late, or destroyed too early, does about it.

| code | model |
|---|---|
| the kernel: `fork()`, zombies, SIGCHLD (pending or not) | `process`, `owner`, `sigchld`; `Exit`, `Stray`, `FreePids` |
| `Subprocess::start()`, `onProcessExit()` | `Start` |
| `~Subprocess()` with `~ProcessExitHandler()` | `Destroy` (`EraseHandler`, `Kill`) |
| the callback in `start()` | `RunCallback`, some time after the promise was fulfilled |
| `SignalHandler::handle()` | `HandleSignal` |
| `handleProcessExit()`, one turn of its loop | `Reap`, `ReapStray` (which returns), `ReapNone` |
| `Epoller::handleEvent()` with no watches left | `End` |

The loop of `handleProcessExit()` is not atomic, because processes end while it
runs; nothing else of Ekam does. A stray is a child no `Subprocess` started: an
orphan that Ekam inherits as the init of a container, or a child from before
`exec`.

* `HandlersAreOwners` (a theorem; no run checks it alone): each handler is for the process its `Subprocess` started,
  not reaped yet, and the signalfd is watched exactly while there is one.
* `KillsOnlyItsOwn`: a destroyed `Subprocess` kills or reaps nobody else's process.
* `EndsClean`: when the loop ends, `main()` finds no zombie but strays, and nobody
  waits.
* `ExitOfOwnIsTold`: who waits for a process that has ended is told, or canceled,
  if there never is a stray.

| run | instance | shows |
|---|---|---|
| `process` | 4 ids, 3 subprocesses, strays, fair | `EndsClean`, `KillsOnlyItsOwn`, `ExitOfOwnIsTold` |

With three subprocesses, one may be told, one reaped and one end meanwhile. An id
is given again as soon as it is free, except while a callback that will tell of
its last process is queued (`FreePids`): the kernel gives all other ids first, and
the callbacks that are queued run before the loop does anything else. Without this
bound `~Subprocess()` may kill a stranger. The loop stops in the end, so deadlock
is not checked.

*Fairness.* The loop goes on: queued callbacks run, a readable signalfd is read,
`handleProcessExit()` returns. No process has to end.

*What the code does otherwise.* `handleProcessExit()` returns, rather than going
on, when it meets a stray (`EpollEventManager.cpp` 381). The SIGCHLD it has read
may have been the only one for several processes, which nobody is told of then
until another process ends: with strays, `ExitIsTold` fails in this model.

*Proofs* (the second half of `ProcessProofs.tla`). `HandlersAreOwners` becomes inductive with what
a `Subprocess` remembers between the reaping and the callback (`Remembered`: its
`pid` is of a process that is gone), from which `KillsOnlyItsOwn` follows; with
`AllWaitedFor` and `Ended`, `EndsClean` follows. Liveness is checked by TLC only.

## PluginAction

A run of an action that starts a rule: what the rule's process and its three
streams do, what the reader of its commands makes of them, and how the action
learns that it is over. The `EventGroup` counts what the action waits for, and the
callbacks that are queued for it. When the count reaches zero it queues a call of
`noMoreEvents()`, which belongs to the group, not to the run: it is not canceled
with the run, and the next run may have begun when it comes.

| code | model |
|---|---|
| the rule's process, and processes it leaves behind | `rule`, `code`, `open`, `pipe`, `text`; `Say`, `Complain`, `Close`, `Exit` in any order |
| `onProcessExit()`, `readAll()`, `Logger::run()` | `exit`, `reader`, `log`: what each of the three chains of promises has come to |
| `asyncCallbacks`, as far as they concern the action | `queue`. An event is waited for only when it is empty, as `handleEvent()` does it |
| `PendingEvent`, `RunnableWrapper` | `eventCount`; `Counted` takes it down, and queues `noMoreEvents` at zero |
| the final `when()` of `PluginDerivedAction::start()` | `Joined`, `JoinedCallback` |
| `passed()`, `failed()`, `queueDoneCallback()` | `Verdict`, and `"done"` in the queue |
| `returned()`, `reset()` | `Returned`, `Reset`, both with `Release`, what destroying `runningAction` does |
| `knownFiles`, `cache`, `provisions` | `known`, `cache`, `provisions`; provisions whose `File` was replaced in `knownFiles` are in `dangling` |
| `eof()` | `Eof`: `provided` and `learned` |

Abstracted: a chain of promises is one callback, at its last link, since no event
comes between the links and a verdict is always queued before the next line. Lines
are read whole. Commands of the same effect are one: an invalid one fails as a
`provide` of an unknown file does; `verb`, `silent`, `trigger` and `noteInput` only
set what `eof()` passes on. Left out: `fork()` failing is taken to go on, though
its exception goes to a promise that has been released; pipes that are full, on
which Ekam would block in `writeAll()`; the links of `install`.

* `HeardWhileRunning`: nothing of a run is heard before it runs, or after its
  verdict; so `ensureRunning()` and `failed()` never throw.
* `EndIsNotEarly`: `noMoreEvents()` ends a run only when nothing of it is left to
  wait for, whatever an earlier run has left in the queue.
* `DoneAsAsked`: an action that is done, and whose reader came to the end, has had
  exit code 0 and has provided what the rule asked for.
* `NothingOutlives`: a verdict is on its way exactly once; a run that is over has
  no process, no event and no callback.
* `Returns`: when the rule ends, the run does.

| run | instance | shows |
|---|---|---|
| `plugin` | the trigger and one file, 3 commands, 2 runs, fair | all five |

Three commands are the least in which a file is made known, provided, and made
known again, or a verdict stands between two commands; two runs, the least in which
one run's `noMoreEvents` meets the next. The action stops in the end, so deadlock
is not checked.

*Fairness.* The event loop goes on. The rule ends, and closes its streams, or what
it has left behind does: an action whose rule does not end does not end either.

*What the code does otherwise.*

* *A provided file that is looked up again.* `findInput` and `newOutput` replace the
  `File` in `knownFiles` (`ExecPluginActionFactory.cpp` 169), which keys what was
  provided of it: the tags of a file that a rule looks up again after it has
  provided it are lost, or attached to whatever is at that address then.
  `DoneAsAsked` leaves out those files (`dangling`).
* *Answers nobody reads.* If the rule has closed its standard input, the answer to
  its question throws (`EPIPE`) out of the reader, and nobody hears of it: the
  promise library passes exceptions to the next promise, never to
  `threwException()`. The action is done, with `learned` false: what the rule
  asked to provide, and its triggers, are lost. `EventGroup.h` 42-43 says of
  `noMoreEvents()` that no exception was thrown.
* *Passing early.* `passed` ends the run in the next callback, before the reader
  comes to the end of the output. What such a rule asked to provide, before or
  after, is lost, since only `eof()` passes it on.

*Proofs* (`PluginActionProofs.tla`, for any files, commands and runs). None of the
five properties is inductive: a count says nothing of the queue, nor the queue of
the count. `Phase` says of each of the five phases of an action (idle, starting,
going, deciding, over) what the queue may hold, what the chains are, and, while it
goes on, that the count is what is waited for plus what is queued. Each callback
takes a phase to a phase; `PhaseOfCallback` does it for the three that leave the
action waiting. `TypeCorrect`, `NotHeardTooLate`, `EndOnTime` and `NothingIsLeft`
follow from `Phase` alone. `ProvidedWhatWasAsked` needs a second invariant,
`Account`: until the reader has come to the end, each file that the rule has asked
for is kept by the reader, or its line is still to come, in the pipe or among the
lines that were read; after that it is provided, and the stream is closed. The
lemmas `Pending...` say what writing, cutting and joining sequences of lines does
to that. `Returns` is left to TLC.

## Inotify and SourceWatcher

Continuous mode: other processes change files, the kernel queues events, the
`InotifyHandler` flags watchers, and their callbacks list directories again and
tell the driver. `Inotify.tla` has the file system, the kernel and the event
manager's part; `SourceWatcher.tla` extends it with the `Watcher`s of `ekam.cpp`.

| code | model |
|---|---|
| files | `type`, and `stamp`, which tells each content and each directory from those before it of the same name |
| watch descriptors of the kernel | `wds`, what each was made for; `watched`, those that are still there. A number is not given twice |
| `watchByNameMap`, `watchMap` | `watchByName`; the two change together |
| `FileWatcherImpl` and its `Watcher` | `watcher[p]`, at most one for a path: descriptor, name in it (none for the directory itself), the two flags, and the state of the promise (`asyncOp`) |
| `children` of each `DirectoryWatcher` | the watchers of the paths in it; while it is listed, `left` and `kept` of the frame |
| the C++ stack of a callback | `stack`, one frame per function; each system call is a step, and files may change between any two |
| `handle()` of the buffer that was read | `Read`, then `HandleEvent` for each event; no callback in between, as the comment there explains |
| `~WatchedDirectory()`, `deleteSelfIfEmpty()` | `Keep`, part of each step that destroys watchers |
| an exception out of a callback | `Throw`: the lists on the stack go, the promise fails. If that promise has been released the exception goes to freed memory, and whether the program lives is left open |
| `driver->addSourceFile()`, `removeSourceFile()` | `source`, the content at the time |

Abstracted: the several events of one write or creation are one; `readdir()` of a
whole directory is one call, and so are the `stat()` and the
`inotify_add_watch()` of `watchFile()`. Left out: hard and symbolic links, files
moved into the tree, what happens to files after they were moved away, and the
overflow of the kernel's queue.

* `SourcesAreFiles`: at rest (no event unread, no callback queued) the driver's
  sources are the files that are there, with their last content; and all there is is
  watched, by a descriptor that the kernel has and that is the right directory's.
* `WatchersAreTold`: at any time, a callback is queued once for each watcher whose
  promise is fulfilled, and for none that was destroyed or whose promise was released;
  each watcher's descriptor is that of the directory it is for; and a descriptor in
  the maps is that of its path, and some watcher uses it.
* `ComesToRest`: when files stop changing, so does Ekam.

| run | instance | shows |
|---|---|---|
| `watcher` | a file in a directory, and a path that is a file or a directory; 3 changes, fair | all three |

Three changes are the least in which a file goes, comes back and is written, or
one change overtakes the events of a removal; they may fall between any two system
calls of a callback. In `watcher` a directory that Ekam has watched does not come
back under its name, and what was in a directory that is gone is left out of
`SourcesAreFiles`: in both cases it does not hold, see below. The system is at rest
in the end, so deadlock is not checked.

*Fairness.* Ekam goes on while it has something to do (weak fairness of all its
steps as one, for it has one thread). Files need not change.

*What the code does otherwise.*

* *A directory that comes back.* The comment in
  `DirectoryWatcher::modified()` counts on `isDeleted()` of a child that was told
  of its deletion. But the callback of a watcher always ends with
  `waitForEvent()`, which sets `asyncOp` again. A directory made again between the
  child's callback and the parent's keeps a watcher that watches nothing. A plain
  file does not suffer: its watch is by name in the parent, whose descriptor lives.
  With `"mkdir again"` in `Operations`, which no run has, TLC finds that
  `SourcesAreFiles` is violated with 3 changes.
* *A removed watch is removed again.* The kernel removes the watch of a directory
  that is gone; if its last watcher goes before `IN_IGNORED` is read, the destructor
  calls `inotify_rm_watch()` again, whose failure is thrown
  (`EpollEventManager.cpp` 524) where the line after it means to log, and
  `std::terminate()` is called. Removing a whole tree at once can do it. The model
  goes on as `terminated`, and the properties speak of what lives.
* *A directory that goes between `readdir()` and `stat()`.* `isDirectory()` is false
  then, so the parent takes it for a file, and replaces the `DirectoryWatcher`
  without `reallyDeleted()`. The files that were in it stay sources. Without the
  condition on the parent, `SourcesAreFiles` fails in the instance of `watcher`.

* *A stale event after a directory's.* With 4 changes TLC finds `SourcesAreFiles` violated
  in the instance of `watcher` too. A path is a directory when `stat()` is called, a
  file when `DirectoryWatcher::created()` calls `addSourceFile()` (`ekam.cpp` 230-233),
  which takes the file's content, and a directory again before `modified()` lists it:
  the driver goes on with the content of a file for what is a directory. The bound of
  the run is 3 changes for this reason.
* *A new directory that goes while it is listed.* The listing of a directory lists the
  new ones in it before it returns (`created()` calls `modified()`). If one of these is
  moved away meanwhile, and a file takes its name, `stat()` of what was in it gives
  `ENOTDIR`, which `DiskFile.cpp` (78-91) throws, through all the listings, out of the
  callback of the directory that was there before. Its promise fails, its watcher never
  waits again, and nothing in it is heard of from then on. Where a name may be a
  directory with a file in it and then a file, TLC finds this with 4 changes (`mkdir`,
  `create`, `rename`, `create`).

*Proofs* (`WatcherProofs.tla`, for any finite tree of paths, any kinds of files at them,
all operations, `"mkdir again"` too, and any number of changes). The tree is assumed to be
one: no set of paths has all its parents in itself and not the root. Paths under a
path are those that are in every set that has it and is closed under `Children`
(`Closed`), which says what recursion would and can be reasoned about. `WatchersAreTold`
is not inductive: a callback ends in functions that take it for granted that their
watcher is there. The invariant, `WatcherInv`, says what the stack can be:

* it is in order (`InOrder`): at the bottom is `waitForEvent()`, or the scan of the
  source directory that `main()` starts; any other function was called by
  `waitForEvent()` for the same path, or by the listing of the directory that it is in,
  so the paths on the stack go up the tree;
* what runs is alive (`Alive`): but for a child's that is about to be made, the watcher
  of each frame is there, and the one whose callback runs is not queued again. A step
  destroys watchers of paths under the one on top only, and no path is under itself,
  so the functions below go on with theirs (`CallersAreAlive`);
* beside the stack, each watcher has a descriptor that was made for the directory of
  its name (`Known`), and a watcher that is queued has a change to tell
  (`ChangesAreSaid`).

That a queue is left right when some of those in it are destroyed
(`KeepFewer`, by `Sublist`), and that the maps are when the last watcher of a descriptor
goes, are lemmas for all steps that destroy watchers: listing a directory,
its removal, an exception. `SourceWatcherInvariant` and `WatchersStayTold` follow.

`SourcesAreFiles` does not hold for all that `Inotify` can do, as was said above, so its
theorem has a condition. The three histories that violate it (a directory that comes
back, the stale event, the new directory that goes) have in common that a directory
comes and goes, or goes and comes, under one name while Ekam runs. `DirectoriesLast`
says of a step that this does not begin: for any set of paths, `Lasting`, a directory at
one of them is not removed, though it may be made, and at the others none is made, though
those that were there from the start may go, with all that is in them.
`SourcesStayFiles` is `WatcherSpec /\ [][DirectoriesLast]_watcherVars =>
[]SourcesAreFiles`. Files are made, written, removed and moved at any
moment, may take the place of a directory that is gone, and directories that are removed
under a callback still throw out of it, destroy watchers, or end the program; the tree and
the number of changes are any. The condition is on the environment alone: what Ekam does
changes no file. `DirectoryWatcher` and `FileWatcher` cannot meet it themselves, so it
says for which changes of a source tree the watchers are right.

What is wrong while things are on their way is put right later, and the invariant
`SourceInv` says for each thing by what. Unless the program is terminated:

* `TreeIsRight`, `KernelIsRight`: what is there is in a directory; a descriptor for a
  directory that is there is for this one, watched, and the one in the maps and in the
  watchers; and `IN_DELETE_SELF` is only on its way for a directory that is gone;
* `KindsAreRight`, `PromisesAreRight`: a watcher is in a `DirectoryWatcher`, and its kind
  can be wrong only in the ways that the next event tells; a promise that was released or
  has failed is that of a path that is gone for good, or of the callback that runs;
* `FramesAreRight`, `OldAreUp`: what is being made is of the kind that `stat()` said, as
  far as that lasts, and the initial scan comes to each directory that was there from
  the start. It is the one part that no event would repeat;
* `ListsAreRight`: a path in a directory that is there and watched has the watcher it should
  have, or none if it is not there; or the listing that is on the stack has it right
  and will make it so; or its directory is going to be listed, for a callback of
  the directory is queued or runs, or an event of this name is ahead (`ToList`);
* `SourcesAreRight`: a watched file is known to the driver with its content, or its callback
  is queued or runs, or its event is ahead; and the driver knows nothing that has
  no watcher, but for what is left of directories that are gone.

At rest nothing is ahead (`AtRestIsQuiet`), and `SourceInv` gives the property
(`SourceInvIsEnough`); that every directory has its `DirectoryWatcher` then is an induction
down the tree (`DirectoriesAreUp`), which `InotifyAssumption` gives for a set of paths that
would be without. Each step keeps `SourceInv`: `WatcherInitHasSources` and one lemma
`...KeepsSources` for each action, and for each call that throws. A change of a
file breaks `ListsAreRight` or `SourcesAreRight` for its path only, and
`ChangeIsHeard` shows that its event is then ahead and that the directory's watcher has the
descriptor that it is for. `TreeAfterChange`, `KernelAfterChange`, `RestAfterChange`,
`ListsAfterChange` and `SourcesAfterChange` do the parts one by one.
`ThrowIs` is the heart of the exceptions: in a callback the only directory on the stack
that can be gone is the callback's own, so the promise that fails is that of a path
that is gone, and the new children that are destroyed are its.

`ComesToRest` is liveness and is left to TLC, as is `SourcesAreFiles` where directories do
not last: the run `watcher` has such changes too, up to its bounds.

Two failures were not taken up: system calls that
fail for want of resources in a callback (`ekam.cpp` 148), whose exception takes the
new children with it as `Throw` has it for a file that is gone; and the overflow of
the kernel's queue (`EpollEventManager.cpp` 808), after which
`IN_Q_OVERFLOW` is logged as an unknown descriptor, and nothing is listed again.

## Promise and EventLoop

What everything above runs on: promises, and the loop that calls their callbacks
and waits for files to be ready. `Promise.tla` says what each call makes of the
memory, as operators; `EventLoop.tla` has the epoll part, and the steps. The program
is any program: it builds promises, enters the loop, and acts in callbacks only.

| code | model |
|---|---|
| `PromiseState`, `PromiseFulfiller`, `DependentPromiseFulfiller` | a record of `mem.promises`; `owner` is who holds the `Promise`: a variable, the `params` of another, or the stack |
| `setListener()`, `addDependency()`, `dependencyDone()`, `readyLater()` | the operators of these names; `When` is `ExecutorWhen...operator()` |
| `ready()`, `error()` | `CallFirst` up to the call of the program's function, then the program's steps, then `ReturnValue`, `ReturnPromise`, `Throw`; `ForceError` when there is no exception handler |
| `WeakLink` | `frame.linked`: the promise whose callback runs still exists |
| `fulfill(Promise)`, chaining | `FulfillWith`: the new promise takes the place of the old one |
| `~PendingRunnable()` and the other destructors | `Delete`; `DestroyTree` of promises with all that they own, which leave their slots (`Vacate`) |
| `asyncCallbacks` | `mem.asyncCallbacks` |
| `Epoller::Watch`, `watchesNeedingUpdate`, `watchCount` | fields of `epoll`, the watches as functions on the descriptors; registration with the kernel is put off until the loop waits (`UpdateNext`, a watch at a time) |
| `IoWatcherImpl`, its two `Fulfiller`s | `epoll.fulfiller`, with the slots `EPOLLIN` and `EPOLLOUT` of a watch; `Settle` is `ready()` and `abandon()` |
| `Epoller::handleEvent()` | `HandleEvent`, with any events the kernel may report, or `NoMoreEvents` |

Abstracted: the values of promises; assignment and moves between variables of the
program; which variable of a program holds a promise. An id is used again as soon
as its promise is gone, smallest first, so that a pointer that was left would be
seen. One `IoWatcher` for each descriptor. Left out: system calls that fail, and
the two other users of epoll (`ProcessExit`, `Inotify`). Of the program is asked
that it does not call `onWritable()` twice, and that no callback returns a promise
that waits for its own.

* `CountsAreRight`: a fulfiller counts what it still waits for, knows whether some
  of that failed, and is queued, once, exactly when all has come and it was not
  called, whatever the program drops, chains or fulfils in between.
* `WatchesAreRight`: a watch has the events that somebody waits for, is due for an
  update exactly when epoll has others, and the count that ends the loop is of the
  watches that epoll has.
* `NothingIsForgotten`: when the loop returns no promise waits.
* `LoopReturns`: with files that become ready, it does return.
* `ErrorsArePassedOn`: who waits for several promises gets the failure of the one
  that failed; violated.

| run | instance | shows |
|---|---|---|
| `promise` | 4 promises, each waiting for 2 at most, 1 descriptor, 7 acts of the program, fair | the first four |
| `promise_errors` | 3 promises, 3 acts | `ErrorsArePassedOn` is violated |

Four promises are the least with a chain whose middle one is replaced by another
while the last waits, and seven acts the least that reach it by way of a file and
a dropped promise. The loop ends, so deadlock is not checked.

*Fairness.* Callbacks return, and of the files somebody waits for one becomes ready
(`LoopFairness` is weak fairness of `Onward`; `CanGoOn` spells out when it is enabled,
and TLC has found it equal to `ENABLED` in all states with up to 5 acts). The
program stops by the bound on its acts: one whose callbacks make further callbacks
for ever would keep this loop from ever looking at a file.

*What the code does otherwise.*

* *The failure that is passed on* (`promise_errors`), in `PROJECT.json`.
* *A callback that drops its own promise, then throws.* `ready()` moves what it needs
  to the stack, since the promise may be deleted meanwhile (the comment at
  `Promise.h` 700), but the `catch` of `CallAndFulfillFunctor` (598-600, 614-616)
  stores the exception in a callback that may be gone. `ActionDriver::start()` has
  such a callback (`Driver.cpp` 158-162). `ThrowUnlinked` leaves open whether the
  exception is lost or the program ends.
* *Waiting to write.* `onWritable()` asks whether somebody waits to *read*
  (`EpollEventManager.cpp` 423): it refuses while somebody does, and would silently
  take the place of another writer.
* *Smaller.* The copy constructor of `MaybeException` tests an uninitialized flag
  (`Promise.h` 196, 273); assigning an empty promise dereferences a null pointer
  (795-799); the loop over `chainedPromise` (819-822) never runs, as nothing sets it.
  And since promises keep every exception of their callbacks, the
  `threwException()` of an `EventGroup` never hears of one.

*Proofs* (`ProcessProofs.tla`, for any number of promises, of those that one waits for,
of descriptors and of acts). The inductive invariant `LoopInv` (`EventLoopInvariant`)
says of the memory, by `MInv(m, R, X, K)`: owners and listeners are a forest, and the
stack owns those in `K` (`Owned`); each fulfiller counts what is open (`Counted`); a
promise is fulfilled, or is queued, or waits for a file, or for others, and is at one of
these stages only (`Staged`); who is queued is queued once (`QueueAgrees`); and no
promise waits for itself (`Grounded`). Calls leave this for a while: `R` are those that
are being fulfilled, as the one whose callback runs, and `X` those whose listener has
not been told yet, so that `Fulfill`, `SetListener`, `When` and `FulfillWith` can each
be shown a part at a time. Of epoll, `EInv` says what `WatchesAreRight` does, and
`Linked` that a promise and its slot know each other. There is one lemma for each
operator on the memory or on epoll, with what it returns (`Told`, `Fulfills`, `Begins`,
`Waits`, `Pops`, `Deletes`, `HandsOver`, `Vacates`, `Registers`...), and one for each
action.

`Grounded` is what takes thought. It is stated of sets, since a chain has no bounded
length: each set of promises, unless it is empty, has one that waits for none of the set.
`When` keeps it, as nobody waits for what is new. `FulfillWith` keeps it as the promise
that a callback returns does not own the one it takes the place of: all that
it waits for, it owns, so a tree cuts every circle. And it is what
`NothingStaysForgotten` rests on: were a promise left when the loop ends, with nothing
queued and nothing registered, then among those that are left one would wait only
for fulfilled ones, and by `Counted` it would be queued. `CountsStayRight` and
`WatchesStayRight` are parts of `LoopInv`. The ownership tree of `DestroyTree` is the
least set that is closed, so no induction is needed to follow it; the loop of `when()`
over its arguments is a function on the naturals, which `SequenceLemmas` has the
induction for. `LoopReturns` is left to TLC.

## RowList and Table

`RowList` is what `base/Table.h` promises: a list of rows, from which rows are
erased by a value of some column. `Table` is how: a vector with erased rows in it,
an index per column that is cleaned only now and then, and `refresh()`.

| code | model |
|---|---|
| `rows`, `Row::deleted`, `deletedCount` | `rows`, `deletedCount` |
| `unordered_multimap`, `unordered_map` of a column | `index[c]`, a set of entries, each a value and a location |
| `add()`, `handleInsertResult()` | `Add`: in a unique column the new row takes the entry, and the old row is marked |
| `erase()` | `Erase`, which marks, and erases the entries of its own column only; or, when enough is marked, `Refresh` |
| `SearchIterator`, `has()`; `find()` | `Search`; `Find`, which may meet any entry of a value first |
| `RowIterator` | `LiveRows` |

* `ImplementsRowList`: with `list` as `LiveRows`, the table is a `RowList`, also in
  what `erase()` returns. (`RowList` is checked as a `PROPERTY`.)
* `SearchesAreRight`: each column finds exactly the live rows of a value, and so does
  `find()` in a unique column.

The run `table` has an indexed and a unique column, as the table of a
`WatchedDirectory` has, two values, and at most five rows in the vector. `refresh()`
is thought of at 2 erased rows instead of 16, which is the least at which a refresh
and an erase without one both occur with rows before and after. A full vector only
stops `Add`.

*What the code does otherwise*, and Ekam does not meet: `find()` of an indexed
column gives up when the first entry it meets is of an erased row
(`Table.h` 210), though a live one may follow, as `Find` shows; the driver always
erases an action's rows by the column it then looks in. And rows that `add()`
replaces are marked but not counted (`Table.h` 324-330), so that `size()` counts
them; no row of Ekam's tables is replaced.

*Proofs* (in `WatcherProofs.tla`, beside those of the watchers that such tables hold; for any columns, values, number of rows and threshold of
`refresh()`). The inductive invariant has four parts beside the types: each entry of
an index is of a row that has its value, erased or not (`EntriesAreTrue`); each live
row has its entry in every index (`LiveAreEntered`); a value has one entry in a
unique column (`UniqueEntries`); and no more rows are counted as erased than are
(`DeletedAreCounted`), so that an erase of nothing never refreshes. `TableInvariant` says
that these last, and `SearchesFindTheRows` follows. `TableImplementsRowList` is the
refinement, a step at a time: `add()` is `Add` of the list, since the rows it marks are
those that clash; `erase()` is `Erase`, whether it marks or refreshes, since a refresh
keeps the places of the rows that are left (`SublistOfSublist`). What `Sublist` leaves
is defined by the places of what is kept, not one element after the other, so these
facts need counting and no induction over the vector.

That what is erased does not stay for ever (`Table.h` 229) is not a property here: it
holds only as long as no row is replaced, since those that are do not count towards a
refresh.

## ConsoleDashboard and Dashboards

What is seen of a build: each state and line of a task goes to Ekam's own console
and, through the mux, to the network clients that have connected by then; a client
makes a console of the messages. `ConsoleDashboard.tla` is one console, as operators
on a record; `Dashboards.tla` puts the driver's calls, the mux, the sockets and the
clients around it.

| code | model |
|---|---|
| `ConsoleDashboard::TaskImpl`, `runningTasks`, `runningTasksLineCount` | a console's `st` and `out`, `running`, `lineCount` |
| the terminal | `onScreen`, how many lines of the list it shows; `shown`, what was printed of each task; `eaten` and `left`, what went wrong with clearing |
| `MuxDashboard::TaskImpl` | `mux[t]` |
| `Connector`, attaching to the tasks that there are | `Accept`, then `AttachNext` for each of `attaching`, in any order, and `Join` |
| `ConnectedProtoDashboard`, `WriteBuffer`, `doAccept()` | `stream`, `registered`, `fired`, `joining`, `acceptOp` |
| a handler that writes to several clients, and is held up by each | `todo`, of each client; nothing of the loop is enabled until all are empty |
| the loop of `dumpErrors()` over the failed actions | `DumpErrors`, then `ReportFailure` for each of `dumping` |
| the socket, the client's loop | `pipe`, `gone`; `Read` |
| the driver's calls, as `Driver` makes them | `Begin`, `Start`, `Log`, `Returned`, `Reset`, `DumpErrors`, `End` |

Abstracted: text is a sequence of lines; `PASSED` is `DONE`; the order of tasks and
connections in hash maps is any. Left out: how `LogFormatter` wraps and colours
lines; status lines that are too long for the terminal; `SimpleDashboard`.

* `ConsolesAreRight`: a console has printed, when it shows a task as done or failed,
  exactly what the last run has logged; lists exactly the tasks that run; and moving
  up over the list reaches neither the log nor too little.
* `ClientsAgree`: when it has read what is on its way, a client shows every task in
  its state, with all of its last run's log, or the mark of what the mux cut off,
  whenever it came.
* `ClientsComeAndGo`: a connection that breaks is detached, if it broke after its
  construction, and who waits to be accepted is, whoever died before.

The run `dashboards` has two tasks, one silent, one client that comes twice, an
output limit of two lines, a socket that holds two messages, terminals of four
and five rows, six calls of the driver and one debug message. Six calls let a task run, be
blocked, run again and end around both visits of the client, with the limit
reached; four and five rows are the last height with no room for a task, and the
first with room. The bounds stop the driver, so deadlock is not checked.

*Fairness.* Ekam goes on, and a client that stays connected reads. A client that
does not read would hold up all of Ekam, see below.

*What the code does otherwise.*

* *Clients that do not read.* Only the listening socket is made non-blocking
  (`Socket.cpp` 93); a socket from `accept()` blocks, so `write()` stops the event
  loop until the client reads, and the branch for `EAGAIN`
  (`ProtoDashboard.cpp` 146), with its position that is counted in bytes and in words
  (137), is never reached.
* *A client that dies while its dashboard is constructed*, before `onDisconnect()`,
  is not detached; every later message goes to it and is dropped.
* *Other errors of `accept()`* (`AcceptFails`) break `acceptOp`, and no client is
  accepted again, without a word.
* *Small terminals.* With four rows or less the line `...(more)...` is not counted
  and stays on the screen; `ScreenIsKept` leaves that out. The width left for a noun
  that is too long is computed two columns short, and wraps; on very narrow
  terminals `LogFormatter` may make no progress.

*Proofs* (`DashboardsProofs.tla`, for any tasks, clients, heights and limits). A
console is `Drawn` when it lists the tasks that run, once each, what is on the screen
is that list as far as it fits, and a task that is done has printed the log of its last
run; each of the calls `BeginConsoleTask`, `AddOutput`, `SetState` and `EndConsoleTask`
leaves a console drawn. That gives `ConsolesStayRight`, for Ekam's console and for
every client's, since what a client reads is a sequence of such calls.

`ClientsStayAgreed` is about what is under way. `Eventually(c)` is the console that `c`
will have when it has read all that is in the socket and in the handler's hand, and
`ClientsFollow`, the heart of the invariant `DInv`, says that it has of each task what
the mux has: `MuxIsRight` says in turn what the mux has kept of the log. Passing a
message on, or reading it, does not change `Eventually`; a message that the mux sends
changes it as the driver's call has changed Ekam's own console; and attaching makes of
a console that does not know a task one that has it in the mux's state. A client whose
stream is closed is told nothing more, and `ConnectionsAreRight` says when that is.
`DeadStayNoticed` is an action property: a failing write closes the stream and queues
the callback in one step. The two liveness properties of `ClientsComeAndGo`,
`DeadAreDetached` and `WaitingAreAccepted`, are checked by TLC only.

## LangServe

`ekam-langserve` connects to Ekam's network dashboard, turns the lines of logs that
begin with a file into diagnostics, and publishes, file by file, what has changed.

| code | model |
|---|---|
| `Task` | `diagnostics`, `leftoverLog`, `addNotesToBack` |
| `SourceFile`, `DiagnosticEntry` | `entries`, over all files, with `refcount`, `stale`, `notes` |
| the iterators in a `Task`; `Task::clearDiagnostics()` | `Pointers`, how many of them are at a diagnostic (`Count`), and `Release`, which takes those of a task away at once |
| `SourceFileSet` | `files`, the names that were looked up |
| `DirtySet`, `updateLoop()` | `dirty`, `isShutdown`, `loop` |
| `Task::update()` | `Begin`, `Start`, `Attached`, `End`, `Delete`, `LogPart`, `LogLine`, one for each kind of message |
| `didChange()`, the editor | `DidChange`; `published` |
| the loop of `LanguageServerMain::run()` | `Connect`, `ReadHeader`, `Disconnect`, `Closed` |

Abstracted: a line is the pieces that it came in, the first of which decides what
it names and whether it is a note; severities, and positions in a line, are part of
the piece. A chunk ends at most one line. Left out: JSON-RPC; that a name that was
looked up before the file was made is not looked up again.

* `DiagnosticsAreRight`: a diagnostic is kept exactly as long as tasks point at it,
  and a task points at what its last run has logged. Two kinds of run are excepted,
  see below.
* `EditorIsCurrent`: when the loop waits, the editor shows what there is, and
  nothing that an edit has made stale. Files with a diagnostic that came back are
  excepted from the first half, see below.
* `NothingIsLeftBehind`: without a connection the editor shows nothing.
* `ChangesArePublished`: what is dirty is published at last, and a lost connection
  is wound up.

The run `langserve` has two tasks; lines that name one file by two names, another
file, and none; five messages, one edit and two connections. Two tasks can report
the same diagnostic, five messages let one end while the other keeps it, and with
the second connection something could be left of the first. The bounds stop it, so
deadlock is not checked.

*Fairness.* What is ready runs, and the editor takes what it is sent.

*What the code does otherwise.*

* *A stale diagnostic that is reported again* becomes fresh in `add()`, but its file
  is not marked dirty: the editor does not show it until something else changes
  (`revived`).
* *Parts of lines.* A line that a run has not ended is put before the first line of
  the next run, since `leftoverLog` is not cleared (`spoiled`).
* *Attaching to a task that runs.* The mux sends the log before the state
  `RUNNING`, which clears it (`spoiled`).
* *Two names of one file.* The second lookup finds the path in `filesByPath`, and
  `insert()` throws out of the server (`died`). So does a connection that is lost
  before the header has come.
* *Notes* of a diagnostic that two tasks report appear twice if their lines
  interleave.

*Proofs* (`LangServeProofs.tla`, for any tasks, names, files and lines, and any number
of messages, edits and connections). `SInv` has, beside the types, four things that the
properties need of each other. The refcounts are the numbers of pointers (`Counted`):
the pointers are pairs of a task and a place, so that a report adds one pair to one set,
and `Release` takes the pairs of a task out of all. The diagnostics of a task are those
of the lines of its last run (`ReportsAreOfTheLastRun`), a `Sublist` of all its lines,
which a new line extends or leaves (`SublistOfAppended`). A file that is not dirty is
shown as it is (`Drawn`), at all times and not only when the loop waits; each operation
that changes what a file has to show marks it dirty (`Noticed`), but for a stale
diagnostic that comes back. And the loop sleeps or has ended only with nothing dirty,
and while there is a connection it runs (`LoopIsRight`). From these follow
`DiagnosticsStayRight`, `EditorStaysCurrent` and `NothingStaysBehind`. `ChangesArePublished`
is liveness, and checked by TLC only.

## Intercept

The library that a rule's processes load. Their calls of `open()`, `stat()` and
others ask Ekam which file a name stands for, over one pair of pipes; the threads of
a process share two `FILE` streams and a cache of one answer.

| code | model |
|---|---|
| `init_pthreads()`, `dynamic_pthread_once` | `TestPointer`, `StorePointer`, `CallOnce`: nothing guards the pointer, so the steps interleave |
| `fake_pthread_once()`, `init_streams_once()` | `FakeOnce`, `InitStreams` |
| `canonicalizePath()` | `CanonicalizePath`, a recursive function over the parts of a path |
| `remap_file()` | `LookInCache` to `CacheResult`, split where another thread may come between |
| `flockfile()` of the two streams | `callLock`, `returnLock` |
| `WRAP`, and the functions written out | `Open`, `OpenAt`, `Exec`, `Rename`, `Access`, `Wrapped`: which paths a call has remapped, and for what; `RealCall`, what becomes of it |
| `CommandReader::consume()` at the other end | `Consume`, `Answer`, `Remember` |

Abstracted: a path is its kind (the branch it takes) and its parts. Left out: the
way round the interceptor for a sanitizer's symbolizer, the filter for `statx()`,
and the last check of `access()`. The two ends of a pipe keep the order; a process
reads all there is in one `fgets()`.

* `StreamsOpenedOnce`: however the first threads interleave, the streams are opened
  once, and before anyone uses them.
* `AnswersAreRight`: each call gets the answer to its own question; a file has one
  name, whatever path leads to it (`IsNormal` is the reference for
  `canonicalizePath()`, read off the path as a whole); and no call that modifies a
  file is let through to the source tree.
* `CacheIsCurrent`: the cached answer is what Ekam would answer now.
* `CallsReturn`: every call returns, unless the process ends.

The run `intercept` has two threads of one process: one makes any of twenty calls,
which take every branch of `remap_file()`, over and over; the other reads and writes
the name both use. The threads need not make calls, so deadlock is not checked.

*Fairness.* Ekam reads what it is sent. A thread is strongly fair: a lock that is
free again and again is taken in the end.

*What the code does otherwise.*

* *The first calls of two threads.* A thread may replace `dynamic_pthread_once`
  while another is inside the library's `pthread_once()`; the replacement then finds
  the initialization begun and asserts (121). The process ends; it does not go on
  half set up, as `StreamsOpenedOnce` shows. And where the library's
  `pthread_mutex_unlock` is missing no fallback is set (162-163).
* *Several processes.* The locks are of a process, the pipes are shared with its
  children: answers may go to the wrong process, though the comment at 602-603 has
  the hand-over "so that we know that responses will be received in the correct
  order". With two processes instead of threads, `AnswersAreRight` fails. The run
  has one.
* *Slashes at the end* of a path are kept, which the comments at 361-371 would have
  removed; `readlink()` returns `EINVAL` as a length; a file created through
  `/ekam-provider` (`newProvider`) is not implemented, and fails the action.

*Proofs* (`InterceptProofs.tla`, for any threads in any number of processes that
share the pipes). `IInv` says who holds which lock in which place (`LocksHeld`), and
that while the once is under way at most one thread is in it, by whichever of the
two functions it got there, and that nobody is past it (`SetUp`). It yields
`StreamsAreOpenedOnce`, and `StreamsAreExclusive`: a thread that has locked the return
stream is the only one to take an answer.

Which answer that is takes a second invariant, `AInv`, and a hypothesis,
`SingleProcess`: all threads are of one process. The hypothesis is needed, see the third
difference above. At most two lines wait for an answer, that of the thread that reads
and that of the one that has written and waits to read. `NobodyIsOvertaken` says that
the answers in the stream and in the pipe are for the first of them, and that the
others stand in the pipe to Ekam in this order, among lines that nobody waits for.
`CacheIsRight` says the same of the cache: what is in it is an answer that Ekam gives, to
this question and with this use. And `Threaded` says of each thread, from its place in
`remap_file()`, which of its paths have an answer. What Ekam has answered once it answers
again, since `known` only grows. From these follow `AnswersStayRight` and
`CacheStaysCurrent`.

That a file has one name is a fact about the algorithm, `NamesAreCanonical`. Its
reference, `IsNormal`, says of a name which parts of the path it keeps, without a
stack: `..` as often as the path climbs above where it began, and the parts that no
later `..` takes back. The stack of `canonicalizePath()` holds after `n` parts just
those of the first `n` (`StackIs`), by induction on `n`: a recursive function on
numbers can be unfolded one step at a time (`NaturalsFromZero`). `CallsReturn` is left
to TLC.

## Not modelled

Pure functions and plain I/O (`DiskFile`, `ByteStream`, `Tag`, `Hash`, `Debug`,
`OwnedPtr`) have no behaviour of their own here. `CppActionFactory` is two
subprocesses, which end as those of `PluginAction` do, and a closure whose data are
symbol lists on disk. `KqueueEventManager` and `PollEventManager` are declared, but
their sources are not in the repository. Rules, and the plugins for editors, are
programs of their own.

## What is proved, and what is only checked

Proved for every value of the constants are all the invariants and safety action
properties that the runs check of the driver, the locks, process exits, plugin
actions, the watchers of files (`SourcesAreFiles` for directories that last), the event loop, the table (with its
refinement), the dashboards, the language server and the
interceptor (there for one process, and without that hypothesis where it is not
needed). Checked by TLC only, on the instances above:

* liveness, which needs fairness and `ENABLED`: `NobodyWaitsForEver`, `ExitOfOwnIsTold`,
  `Returns`, `ComesToRest`, `LoopReturns`, `ClientsComeAndGo`, `ChangesArePublished`,
  `CallsReturn`;
* `SourcesAreFiles` of the source watcher for directories that come and go under one
  name, where it holds for the three changes of the run and not for all that can
  happen. For files, and for directories that stay when they come or do not come
  back when they go, it is proved (`SourcesStayFiles`).
