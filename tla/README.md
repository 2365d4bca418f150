# A TLA+ model of the Swaw Kit Proj application

Swaw Kit is a Windows toolbox. Its core is *Proj* (`src/_lib/proj`), a Rust
application that finds commands in a tree of resources, runs them from a
command line or from a local HTTP host with a web console, records every run,
and keeps itself and its tools up to date by publishing content-addressed
releases. This directory holds TLA+ modules for the parts of Proj whose
correctness depends on interleavings, crashes and limits, the TLC models that
check them, and proofs for TLAPS.

Paths below are relative to `src/_lib/proj/_app/src` unless they start with
`src/`.

## 1. Inventory

### 1.1 Parts, their state and their operations

| Part | State | Operations |
|---|---|---|
| Run registry (`runtime_service/registry.rs`, `registry/run.rs`, `registry/operation_control.rs`) | one mutex over `accepting`, `active`, `runs`, `order`, `queries`; per run a mutex over its status and event buffer; per operation a mutex and a condition variable over the hand-over of its process control | `start`, `register_query`, `cancel`, `complete`, `fail_start`, `remove_failed_start`, `prune_terminal`, `shutdown` |
| Facet queries (`registry/query.rs`) | outcome or rejection, collected output | `run_query_with`, `wait` with a timeout, `reject`, `completed`; the registration's `Drop` returns the slot |
| Runtime execution (`runtime_service/execution.rs`, `execution/control.rs`) | child control, `cancel_requested`, `finished`; the worker's join state | `start`, `run_execution`, `attach_child`, `cancel`, `abort_child`, `join` |
| Process runner (`process_runner/*`, `process_job.rs`) | the process tree in its Job Object, the start gate, the monitor's join state | `start`, `run_monitor`, `cancel`, `join`, clean-up of a start that failed half-way |
| Run journal (`run_journal/*`, `atomic_file.rs`) | one directory per run: `_state.json`, `events.jsonl`, and an owner lock file next to it | `start`, `append`, `finish`; `read_run`, `read_run_history`, reconciliation of abandoned runs |
| Command event frames (`command_event.rs`, `utf8_output.rs`) | the pending bytes of a stream | `push`, `finish` |
| Command-line execution (`command/*`) | process-global console-cancel flags, the child | `execute_journaled_cancelable`, the wait loop, the console handler |
| Host lifecycle (`host/main.rs`, `host_instance.rs`, `host_runtime.rs`, `host_restart.rs`, `server/host_control.rs`, `tray.rs`) | the named event that is the generation's lease, the runtime document, the control state (running, preparing a restart, stopping) | launch, publish, probe, shut down, restart through a coordinator process |
| Runtime releases (`runtime_release*`, `runtime_publication_lock.rs`, `runtime_cleanup_engine/*`) | release directories, the selector `current`, tombstones, the publication lock | clone and publish, select, validate, clean up |
| Entry manager (`entry_manager/*`) | per Entry a DataRoot, a receipt, a Runtime and a Launcher | create, complete, migrate, inspect |
| DataRoot and Entry configuration (`data_root/*`, `entry_config/*`) | a lock file, directory handles, a settings document with a revision | acquire with bounded retries, update if the revision matches |
| Readiness check (`command_check*`) | none (a traversal with a budget) | evaluate the dependencies of a command |
| Catalog, routes, help, native commands, protocol crate | none beyond what is on disk | load, validate, resolve, render |
| Context store (`src/_lib/proj/system/context`) | records in directories, a version file, a lock | create, update, delete, migrate two older layouts |
| Tool installer (`src/_lib/proj/system/dev`, `archive_tool`, `rust`, `msvc`) | per Entry installations and their backups, the selected version; an archive cache shared by all Entries; a lock per tool and one per archive | recover, stage, publish, select |
| Development setup (`system/dev`, `setup`) | settings, the provider state, two scripts and an export; three locks | set up, change a setting, check |
| Native module builder (`src/_lib/proj/system/module`) | staged and selected releases | build, publish |
| Launcher (C), web console (JS), bootstrap, build and publication scripts, command kits | - | start the selected release; present; prepare and publish builds; independent tools |

### 1.2 How they interact

A client of the HTTP server submits a command. The registry admits it into one
of its `MAX_ACTIVE_OPERATIONS` slots, starts its journal, and hands it to the
execution runner, which spawns a worker thread. The worker starts the process
suspended, assigns it to a Job Object and resumes it; a monitor and two reader
threads report output and the end through an observer to the run, which
appends to the journal, publishes the ending there and only then reports the
slot as free. Meanwhile other clients may cancel the run, a facet query may
occupy another slot, and the host may shut down: the three meet in the
operation's `OperationControl`. The command line runs commands without the
registry but writes the same journal; whoever reads journals (another host,
the command line, `runs`) may find a run whose writer is gone and then
records its interruption, protected by the owner lock file alone.

Hosts of different releases may run side by side; a release is started by the
Launcher through the selector, kept alive by nothing but the fact that it is
running, and removed by the clean-up when no process is seen in it.

### 1.3 What is hard

* **Interleaving and atomicity**: cancel, shutdown, completion, start failure
  and pruning each take several locks one after the other (registry, run,
  control), and act on what they read under an earlier one.
* **Partial failure**: a cancel may be refused after the run was marked; a
  start may fail after the run was admitted; an event may be written in part;
  a publication may fail after the events were synced.
* **Crash and recovery**: the writer of a journal, a reconciling reader, an
  Entry creation, a record migration and a release publication can each end at
  any step, and a later process must cope with what it left.
* **Locks that are files**: a lock is a handle with share mode 0, its
  release is a close followed by a removal that may hit another's file.
* **Timeouts**: a query's timeout against its answer, bounded lock retries,
  the restart handshake.
* **Limits**: slots, retained runs, the size of `events.jsonl`.

The complete list, each at its line, is `hazards` in `PROJECT.json`.

### 1.4 What makes each part correct

* Registry: no more live operations than slots, every slot comes back; one
  ending per run, never overwritten; the hand-over of a control cannot fail;
  a killed run is not reported as exited; shutdown reaches everything,
  leaves nothing behind and returns.
* Journal: one ending, never replaced; only an abandoned run is declared
  interrupted; an ending counts exactly the events on disk; whatever happened,
  the run can still be read, and its lock file goes away.
* Execution: the observer hears of the end exactly once, after the last
  output; nothing of the process tree outlives the worker; an accepted cancel
  ends the tree.
* Host lifecycle: at most one host per release and DataRoot; the runtime
  document names the living one; a restart ends with a host.
* Releases: a selected or running release is valid and present.
* Entry manager: a ready Entry has one generation; a creation that was
  interrupted can be completed.
* Command-line execution: what the command wrote is shown and recorded once
  and in order; the recorded ending is true; the command ends when it is
  canceled.
* Context store: commands are atomic next to others and to a migration; no
  record is lost.
* Tool installer: the last valid installation is never given up; nobody takes
  away what another is working on.
* Development setup: what is said to be ready belongs to the settings as they
  are, and to one setup.

## 2. Modules

| Module | Of | State |
|---|---|---|
| `RunRegistry` (`MCRunRegistry`) | registry, operation control, run, query thread | checked, invariants proved |
| `RunJournal`, `RunRecord` | run journal; the journal implements the record | checked, invariants and refinement proved |
| `ProcessExecution`, `Execution` | deferred execution, process runner; the contract `RunRegistry` assumes of a worker | checked, invariants and refinement proved |
| `ConsoleRun`, `CommandOutput` (`MCConsoleRun`) | a command started from the console, its output decoders | checked, invariants proved |
| `HostLifecycle` | lease, runtime document, control state, restart | checked, invariants proved |
| `RuntimeRelease` | clones, selections, clean-up, processes that start meanwhile | checked, invariants proved |
| `EntryManager` | create, complete, migrate, settings, an updater in the background | checked, invariants proved |
| `ContextStore`, `ContextRecords` | records, two migrations, crashes; the store implements the records | checked, invariants and refinement proved |
| `ToolInstall` (`MCToolInstall`) | recovery, staging, publication of a managed tool | checked, invariants proved |
| `DevSetup` | the exported development environment and its validity | checked, invariants proved |

`...Proofs` modules hold the theorems of the module they are named after;
`ProcessAndInstallProofs` those of `ProcessExecution` and `ToolInstall`, and
`JournalAndConsoleProofs` those of `RunJournal` and `ConsoleRun`, which share
neither state nor names.

Composition: `RunRegistry` composes the registry, the per-operation controls,
the run records and the query threads. `RunJournal` composes one writer with
any number of readers. `Execution` is the contract between `RunRegistry`
(which assumes it: the actions on `worker`) and `ProcessExecution` (which
implements it). `ConsoleRun` composes the main thread, the process tree, the
console handler and two reader threads, each of which runs the decoders of
`CommandOutput`; of the journal it uses what `RunJournal` promises its writer.
`EntryManager` composes manager processes, editors of the settings and the
updater; a clone or a selection is one step there, and several in
`RuntimeRelease`.

Abstract specifications: `RunRecord`, `Execution` and `ContextRecords` say what
a journal, a runner and a Context store promise; the detailed modules refine
them. `CommandOutput` states what a whole output means (`Characters`,
`Meaning`), against which the incremental decoders are checked and proved.

## 3. `RunRegistry`

### 3.1 State and actions

A run or query is an element of `Runs` or `Queries`; the thread that submits it
has the same name. `Cancelers` are HTTP cancel requests, `Shutdowners` is the
host's one call of `shutdown`. A step is what a thread does while it holds one
mutex, so every place where the code releases a lock is a place where others
may step in.

| TLA+ | Code |
|---|---|
| `accepting`, `active`, `runs`, `queries`, `born` | `RegistryState`; `born` is the position in the deque `order` |
| `status` | `CommandRun.state.status` |
| `control`, `requested`, `cancelError` | `OperationControl.state` with its `cancel_requested` and `cancel_error` |
| `asleep` | the threads in `changed.wait` |
| `worker` | the execution thread: running, then (runs) releasing the slot, then finished |
| `killed` | the process control accepted a cancel |
| `rejected` | a query's observer holds a rejection |
| `pc`, `target`, `snapshot`, `pending` | program counters and locals of the threads |

`SubmitRun`, `SubmitQuery`, `StartWorker`, `FailStart`, `RemoveFailedStart` and
`MarkStartFailed` are the start and its failure; `Attach`, `BeginCancel`,
`FinishCancel` and `WaitForControl` are `OperationControl`; `RequestCancel`,
`CancelReturned` and `RollbackCancel` are the user's cancel; `EndWait` to
`DropRegistration` are the query thread; `CompleteRun`, `ReleaseRun` and
`CompleteQuery` are the worker; `BeginShutdown` to `EndPass` are the shutdown
with its three passes over the copied operations.

### 3.2 Abstractions

* `control.cancel()` and the recording of its result are one step: while the
  state is Canceling nobody but the canceling thread changes the control.
* The two hash maps are visited in any order, runs before queries.
* A run's event buffer, the texts of errors, a poisoned mutex and a panicking
  worker are left out. The list of errors that shutdown returns is left out:
  its passes continue after an error, and the model's do.
* A cancel of a run that is not registered returns at once and is left out.
* Whether the journal can be started is a free choice in `SubmitRun`.
* A query's result is left out; its rejection for stderr, progress or too much
  output is `RejectOutput`, at any time while its worker runs.

### 3.3 Run

`registry` has two runs, a query, a user's cancel that may fail, and the
shutdown, for two slots and one terminal run that is retained. The interesting
conflicts are between at most three parties over one operation (submitter,
canceler, shutdown) and between operations over the slots and the retained
runs. `MCRunRegistry` keeps the instance small by its second run, the
companion, which cannot be canceled: it takes part together with the other
operations, so that three compete for two slots and finished runs are pruned,
or with the shutdown alone, but never with a user's cancel. Only the first
steps of threads are cut off in this way.

| Property | Says |
|---|---|
| `RegistrySafety` | besides the types: a run whose process control accepted a cancel is not reported as exited (`KilledIsNotExited`), and no operation runs once the shutdown has returned (`NothingOutlivesShutdown`) |
| `HandOverIsFresh`, `CancelExclusive` | the control is handed over once, and one thread at a time carries out a cancel |
| `CapacityRespected`, `SlotsExact` | no more live operations than slots, and every slot comes back |
| `ShutdownMarksAll` | every operation is marked before the shutdown waits for any |
| `TerminalIsFinal` | an ending is never replaced |
| `EveryWaitEnds` | the shutdown, cancels and queries return |

Three of them have a condition that the code needs. `SlotsExact` holds while
there are no more terminal runs than are retained, `ShutdownMarksAll` for runs
that no user's cancel is about to cancel, and `KilledIsNotExited` for runs that
are not in the shutdown's copy: without it each has a counterexample, which
section 13 describes.

### 3.4 Fairness

A thread that was started keeps running (`WF` of each thread's steps), and a
waiting thread runs again only after it was notified. Requests need not
arrive, and the first steps `MCRunRegistry` cuts off are not fair. A command
process need not end by itself: the worker's end is fair only for operations
whose process control accepted a cancel (their Job was terminated) and for
in-process Core commands, which are ordinary function calls. That the shutdown
returns is claimed unless a cancel failed: after a refused cancel it waits for
the process to end by itself, as the code does. A query's timeout is an action
that is always possible while it waits, and fair.

An accepted cancel counts as the end of the worker here, also where the worker
has yet to carry it out on a process it is still starting. If that fails (the
operating system refuses to terminate the job), the user was told Ok and the
process runs on; `ProcessExecution` has this case (`deferredFailed`), its
`CancelEnds` leaves it out, and `EveryWaitEnds` is not claimed for it.

## 4. `RunRecord` and `RunJournal`

### 4.1 State and actions

One run's directory. `Writer` is the process that executes the run, `Readers`
are calls of `read_run` or `read_run_history` in any process.

| TLA+ | Code |
|---|---|
| `visible` | the work directory was renamed to `runs/<id>` |
| `stored` | `_state.json`: status and `event_count` |
| `events`, `tail` | the complete lines of `events.jsonl` by sequence number (0: a line that is no event), and whether an incomplete line follows |
| `synced` | how many lines survive a power loss |
| `lockFile`, `holder` | the owner lock file, and who has it open with share mode 0 |
| `truncated`, `sequence`, `writeError` | the writer's memory |
| `seen`, `answer` | the state each reader read, and how its call ended |

`CreateOwner`, `Prepare`, `PublishDirectory`, `OpenEvents` are
`RunJournal::start`; `AppendEvent`, `FailAppend`, `DropEvent`, `Finish`,
`FailFinish` are the writer; `ReleaseOwner`, `RemoveOwner` the release of the
lock; `StartRead` to `PublishInterrupted` the reconciliation, and `ReadEvents`
the reading of the events. `AbandonWriter`, `EndReader` and `LosePower` are
the faults.

`RunRecord` says what a reader may rely on: a run is recorded as running, its
owner gives it one ending, and a run whose owner is gone without one becomes
interrupted. The refinement maps the record to `stored.status` once the
directory is visible, and the owner to `present` while the writer has the lock
file open.

### 4.2 Abstractions

* One directory: identifiers are unique, the retries of `start` for a taken
  identifier are left out, and so is the retention of old runs (which the
  repository declares not implemented).
* Events have equal sizes: the file limit is a number of events.
* `finish` may be called again after its publication has failed, which a test
  promises (`run_journal/tests.rs:338`). No caller does so today: each gives up
  after one call, and the run is left to a reader. The model has both.
* The sync and the publication in `finish` are one step: nothing observes the
  time between, and the failing variants are separate outcomes.
* `atomic_file::publish` replaces a file atomically and durably.
* The JSON shape, the checks of each field and the paging of answers are left
  out; "invalid" stands for every refusal that depends on the order, number
  and completeness of events.
* A power loss keeps the synced lines and any prefix of the others, the last
  one possibly cut; directory entries and published files survive.

### 4.3 Runs

`journal` has a writer with up to three events, a limit of two of them in the
file, and two readers. A behaviour meets one of three combinations of faults:
all of them (failed creation, failed or partial writes, failed publications,
ending processes, power loss), all but failed writes, or a failed creation and
failed writes only.

| Property | Says |
|---|---|
| `JournalSafety` | besides the types: a run is refused to readers only after a write of an event failed or a power loss took counted events (`RefusedOnlyIfDamaged`), and no lock file stays behind when nobody is at work, unless a process ended or a publication failed (`LockIsRemoved`) |
| `EndingIsComplete` | the number of events an ending states is the number on disk, unless the run failed because a write did |
| `EndingIsKept` | an ending is never replaced, whoever reads, retries or reconciles |
| `InterruptedIsAbandoned` | only a run whose writer is gone is declared interrupted |
| `AbandonedIsReconciled` | a reader that meets an abandoned run gives it an ending |
| `ImplementsRecord` | the files implement `RunRecord` |

`journal_partial` allows partial writes only and violates `JournalIsReadable`
(section 13). Two readers suffice for the races over the lease: one that
reconciles and one that is in any other state; three events and a limit of two
make an append, a drop and a second drop happen.

### 4.4 Fairness

A reader's call that has begun runs on (`WF` of its steps). Nothing else is
assumed: the writer may stop anywhere, no call need be made.

## 5. `Execution` and `ProcessExecution`

### 5.1 State and actions

`Execution` is the contract: the outcome is reported once, an exit only when
no process of the command runs any more, and the execution thread ends after
the report. The actions on `worker` in `RunRegistry` assume it.
`ProcessExecution` is one execution that `NativeRuntimeExecutionRunner` has
started, with everything that takes part in it.

| TLA+ | Code |
|---|---|
| `kind` | a Core command, run in-process, or a prepared process |
| `worker` | where the execution thread is, inside `NativeProcessRunner::start` too |
| `root`, `descendant`, `inJob` | the command process, one process it starts, each until the system has closed it; the assignment to the Job Object |
| `gate`, `reader`, `monitor`, `monitorError` | `StartGate` and the three threads of `process_runner` |
| `reports` | what the `CompletionObserver` passed on |
| `child`, `cancelRequested`, `finished` | `ChildState` |
| `deferredFailed` | a cancel that came before the child, carried out after it, failed |
| `joinState` | `WorkerCompletion` |
| `caller` | each thread inside `cancel` or `join` |

`StartWorker` to `ReturnFailure` are the execution thread without a process,
`SpawnRoot` to `CleanedUp` the start of one with every failure,
`AttachChild` to `FinishChild` the rest of `run_execution`. `PassGate` to
`FailRead` are the readers, `WaitForRoot` to `ReportEnd` the monitor, `Cancel`
to `FinishJoin` the callers, and `TreeStep` is what the command does by itself.

### 5.2 Abstractions

* The tree is the root and one descendant, which either holds the root's
  output pipes or has redirected its output: the first keeps the readers
  waiting, the second only a Job Object reaches.
* `TerminateJobObject` does not wait: a terminated process runs no more code,
  but it is "closing" until the system has closed what it holds (`CloseProcess`).
  Until then nobody's wait for it returns and its pipes stay open. The test in
  `process_job.rs:194` waits up to ten seconds for a descendant for this reason.
  `ExitedMeansGone` and `NothingOutlivesWorker` are about processes that still
  run. Nobody waits for a descendant that holds no pipe, so it is dead at once.
* Output is a step of a reader, without its text. Of the observer's check and
  delivery the two steps are kept, since no lock spans them.
* `Child::kill` always succeeds; ending a job, starting a thread, assigning and
  resuming the root, and reading a pipe may fail.
* An error or panic of the thread is taken before there is a process. A panic
  of the observer, and poisoned mutexes, are left out.
* Closing the last handle of a job ends its processes (the job is created with
  that limit). A canceler that is inside `child.cancel` holds a handle.
* A join finds a worker attached: the control is handed out after
  `attach_worker`, so the waiting for Pending cannot happen.

### 5.3 Run

`execution` has both kinds, two cancels, two joins and all five faults. It
shows `ExecutionSafety` (the end is reported once and after the last output),
`ExitedMeansGone`, `NothingOutlivesWorker`, that `ProcessExecution` implements
`Execution`, and, under fairness, `CallsEnd`: an accepted cancel ends the tree
and a join returns. Two cancels are needed for one to hold the job while the
other runs, two joins for one to sleep while the other waits for the thread.

### 5.4 Fairness

The execution thread, the monitor, the readers and a call that has begun run
on, and the system closes what it has terminated (`WF` of `CloseProcess`).
Nobody need call, and a process need not end by itself: the end of a cancel
relies on the termination alone. A reader takes part in fairness only while it
has something to do, and a pipe that a living process holds may stay silent.

## 6. `ConsoleRun` and `CommandOutput`

### 6.1 State and actions

One command given on the command line: the main thread of `execute_journaled`,
the command in its Job Object, the two threads that read its output, and the
console handler.

| TLA+ | Code |
|---|---|
| `main`, `result`, `exit` | where the main thread is, what the execution of the process returned, what the program returns |
| `requested`, `terminationFailed` | the process-global flags of `command/console_cancel.rs` |
| `root`, `descendant`, `inJob` | the process tree, as in `ProcessExecution` |
| `failing` | the faults that may happen in this case |
| `output`, `written` | what the command would write to each stream, and how much it has |
| `reader` | per stream the reader thread: bytes taken, its decoders, what was shown, whether the journal still takes its events |
| `journal` | the status, whether the writer is good, full or broken, and the events kept of each stream |

`StartJournal` to `StartReaders` are the start and its failures, `CancelChild`,
`ReapChild`, `ChildEnded`, `WaitFails` the wait loop, `StopUnmonitored`,
`ReapUnmonitored` and `JoinReaders` to `End` the clean-up and the ending; `Read`, `ReadEnd`, `ReadFails` are a reader;
`ControlC` is the handler, which only sets a flag. `CommandOutput` holds the
decoders as functions: `Decode` takes the bytes of one read and what the
decoders still hold, and returns the events and what they hold then; `Drain` is
the loop of `CommandEventFrameDecoder::drain`, one pass for each recursion.
What the whole of an output means is said apart from them: `Characters` of
bytes, and `Meaning` of text, line by line, with what a line's frame reports in
place of the frame (`Reported`).

### 6.2 Abstractions

* Bytes are seven symbols (`head`, `tail`, `rs`, ...): the two parts of a
  character, the two parts of the frame prefix, a valid payload, the line feed
  and anything else.
* A read takes everything that is in the pipe. Reads cut the output anywhere
  all the same, since the command writes byte by byte.
* A terminated process is "closing" for a while, as in 5.2: after a termination
  the main thread still waits for the root, and its readers for the pipes.
* The journal is its writer's contract: events are kept, no longer kept (full)
  or refused (broken). Its files are `RunJournal`.
* A record that exceeds the limit of a frame and contains another frame is
  decoded differently for different cuts; `FramesAreRecognized` excludes it
  (`Oversized`), the lossless output does not.
* Ctrl+C also reaches the command itself, which then exits by itself. The
  crash of the program is left out: its job ends the tree, its journal is 4.

### 6.3 Run

`console` (`MCConsoleRun`) has twelve cases, each an output of up to eight
bytes and the faults that may meet it: characters and frames that reads can
cut, prefixes before a frame, a record that is no frame, one that is too long
with a frame in it, outputs that end within a character or a frame, and each
of the eleven faults, most of them with one that makes it harder.
`MaxFrame` is 4, the length of the one valid frame, so that a record of one
symbol more is too long.

| Property | Says |
|---|---|
| `OutputSafety` | besides the types: what is shown is what was written, in order, however it was cut (`OutputIsLossless`, `FramesAreRecognized`), and the journal of a stream is a beginning of what was shown (`JournalFollowsConsole`) |
| `EndingIsTrue` | a run recorded as exited has ended by itself and all its output was passed on; when the ending is written nothing of the tree is left |
| `CommandReturns` | a command that was canceled or whose process has ended returns, unless the system refuses to end a process or to wait for it |

### 6.4 Fairness

The main thread and the readers run on, and the system closes what it has
terminated. The command need neither write nor
exit, and Ctrl+C need not come. With a termination that fails, a piped
descendant keeps the readers waiting for ever, as it does in the code.

## 7. `HostLifecycle`

### 7.1 State and actions

A process is a number, which also stands for its boot id. A launch and the
host it becomes are one process; the coordinator of a restart belongs to the
host that started it.

| TLA+ | Code |
|---|---|
| `selected` | the release the Launcher starts |
| `host[p].pc` | the launch (`host/main.rs`, `host_instance.rs`), the event loop (`tray.rs`), the drop of `App` |
| `host[p].server`, `port`, `events` | the server thread, its listener, the events it sent to the loop |
| `host[p].control`, `prepare` | `HostControl`: running, preparing a restart, stopping; the thread that prepares |
| `lease` | per release, the processes that have the named Event open |
| `document` | per release, the host its runtime document names |
| `coordinator` | the process of `host_restart.rs`, and whether its ready Event was seen |
| `client` | a command that has found a host through its document |

`AcquirePrimary` to `GiveUp` are a launch, `Resume` to `RemoveOwn` the main
thread, `Bind` to `StopServing` the server, the requests and the preparation
with its five seconds follow, then the coordinator, the commands and the
environment (`Select`, `Crash`).

### 7.2 Abstractions

* The document's content is the boot it names; a probe reaches whoever listens
  on that boot's port now and compares the identity.
* Reading the document and the GET that verifies it are one step for a command
  (`ReadLiveHost`); its POST is another.
* Requests take effect while the server accepts connections; a restart that is
  being prepared may outlast that. The run service's
  shutdown is `RunRegistry`; here it takes one step.
* A coordinator that can be neither waited for nor killed is left out.
* The tray's menu, icons and the browser are left out.

### 7.3 Runs

`host` has four kinds of behaviour: three processes of one release that are
launched and quit (one ends, one holds the lease's Event open, one looks for
it); and two processes, each of which may be a coordinator's successor, with
requests, a command, two releases selected in ascending order and one crash;
with requests, two releases and a coordinator that fails; or with a command and
the failures of a start. `AskedProcs` says how many processes there are in the
last three, and `RoomToLaunch` keeps one for each restart that is under way.

| Property | Says |
|---|---|
| `HostSafety` | besides the types: two hosts of one release never listen at the same time (`OneServerPerRelease`), and a restart that was refused does not happen later (`NoStrayCoordinator`) |
| `ReachesNamedHost` | a launch and a command accept only the host the document names, never one that has got its port since |
| `RequestsEnd` | a launch settles, a host that is told to stop ends, an accepted restart starts the Launcher |

`host_document` has one release and no faults, and violates
`RemovesOnlyTheCurrentOwner` (section 13).

### 7.4 Fairness

Threads and processes that can run do run (`WF`). A launch that waits for a
host gives up when its deadline is over, although each of its attempts can be
followed by another (`SF` of `GiveUp`). Nobody has to launch, quit, ask or
select. That an accepted restart happens is claimed unless the coordinator
itself fails.

## 8. `RuntimeRelease`

### 8.1 State and actions

| TLA+ | Code |
|---|---|
| `dir` | for each store (the manager's and the other Entries') the release directories: absent, whole or damaged |
| `selected` | each store's selector `current` |
| `lock` | the holder of `release-publish.lock` |
| `op` | a clone, a selection or a clean-up and where it is |
| `proc` | a process started from a release: Launcher, Core, Host; whether its release was selected at its start, and whether its directory was renamed under it |

`BeginClone` to `Discard` are `publish_clone_from`, `CheckSelected` and
`PublishSelector` the selection, `BuildPlan` to `Delete` the clean-up with its
second look and its tombstone, and `Locate` to `EndProcess` the processes,
which take no lock. The Launcher's part is `Locate`, its reading of the
selector (`_launcher/layout.c`); it has no other state.

### 8.2 Abstractions

* What an operation is asked for is chosen when it gets the lock: nothing reads
  the request before.
* Validation compares every digest, hence succeeds for a whole release only.
* Stages and tombstones that cannot be removed are hidden directories that
  nobody takes for a release; they are left out once their owner is done.
* `rename` and the replacement of the selector are atomic.

### 8.3 Run

`release`: two actors, the manager's store and one other, two releases, one
process, every fault in every behaviour, one damage from outside. Two actors
are enough because every operation is alone under the lock; what is not is the
process.

| Property | Says |
|---|---|
| `ReleaseSafety` | besides the types: what a selector names is whole (`SelectedIsWhole`), a process keeps its directory if its release was still selected when it started (`RunningKeepsRelease`), and what an operation has validated is there until it is done (`ValidatedStays`) |
| `AppearsComplete` | a release appears in a store at once and whole |
| `PublicationReturns` | every operation returns |

A process that was started through a selector read before it changed may lose
its directory: the code's last look at the processes and the rename are two
steps. `RunningKeepsRelease` says what remains true. Fairness: an operation
that has begun goes on, and its wait for the lock is bounded.

## 9. `EntryManager`

### 9.1 State and actions

One target Entry, the manager processes that create, complete or migrate it,
editors of its settings, and the updater of the manager. A Launcher, a receipt
and a release are represented by the generation that published them.

| TLA+ | Code |
|---|---|
| `manager`, `running`, `settled` | the manager's selector and root Launcher; the release each manager process runs; whether it was started outside an update |
| `data`, `launcher` | the target's DataRoot (receipt, selector, old layout) and its Launcher file |
| `lock` | `_proj-entry.lock`, which mutations and edits share |
| `op`, `config`, `edit` | each mutation, the settings file, each edit |

`Status` is `inspect_target`. `Inspect` to `Verify` are a mutation, one step
per file it reads or publishes; `ReadConfig` and `CommitConfig` an edit of the
settings, conditional on a revision, unconditional, or a replacement;
`UpdateSelector` and `UpdateLauncher` the updater. The first is the last step
of `publish/app` (`publishSelector`). The second is nobody's in the repository:
`build/launcher` publishes a candidate only, and neither it nor `publish/app`
replaces the root Launcher (`src/_lib/proj/system/_help/en.txt:12`), which is
deployed by hand. That it comes second is the order `mutation.rs:253` supports,
and an assumption of the model.

### 9.2 Abstractions

* A clone and a selection of the target's release are one step: the stage is
  read by nobody, and `RuntimeRelease` has the detail.
* The settings' revision is their content. The updater only goes forward.
* Names, reparse points and the inventory, which only reads, are left out, and
  so is the lease that keeps a DataRoot from being renamed.

### 9.3 Run

`entry`: two managers and two editors, of which two work in a behaviour (two
managers, a manager and an editor, two editors), two generations, one damage of
the settings by hand, all faults.

| Property | Says |
|---|---|
| `EntrySafety` | besides the types: wherever a mutation stops, what it leaves can be completed (`NeverConflict`), one that reaches its last look has made the Entry ready (`CommitsReady`), with a Launcher and a release of one generation (`PublishesOneGeneration`) |
| `NothingIsOverwritten` | a ready Entry is left alone; a change of one setting keeps the others, and a conditional one replaces what its caller has seen |
| `MutationReturns` | every mutation and edit returns |

`PublishesOneGeneration` is about processes that were started outside an
update: one that is started between the updater's two files runs the new
release, reads the old Launcher, and has no means to notice. Fairness: what
has begun goes on; waiting for the lock is bounded.

## 10. `ContextStore` and `ContextRecords`

### 10.1 State and actions

Each command is a process: it opens the store under the domain lock, which
migrates two older layouts, gives up the lock, and performs its operation,
under the lock again if it changes something.

| TLA+ | Code |
|---|---|
| `version` | `state/version` |
| `flat`, `dirs`, `docs`, `litter` | documents of the flat layout; directories, documents and temporary files of the present one |
| `lock` | `_locks/context.lock` |
| `todo`, `work`, `draft` | what a migration or list has still to visit, the Context being worked on, the record to be published |
| `call`, `seen`, `answer` | the command, what it has read, its answer |

`Prepare`, `UpgradeNext`, `UpgradeCommit`, `MoveNext`, `RemoveFlat` and
`PublishVersion` are the opening; `Create`, `ReadForChange`, `Commit`,
`RemoveDocument` and `RemoveDirectory` the changes; `ReadOne` and `ListNext`
the readers; `Die` and `Fail` the faults.

`ContextRecords` says what a user may rely on: a command takes effect at most
once, at one moment while it runs; success is reported only if it did; what is
shown or listed was so while it was being read; a refusal is true. A command
that dies or fails damages at most one Context. The refinement takes a record
from whichever layout has it, and a Context as damaged when it has a temporary
file, a directory without a document or documents in both layouts that nobody
is working on.

### 10.2 Abstractions

* A record is its set of notes and its prompt, so that one process that added
  the same note twice would not be told from one that added it once; adding a note and adding a command are
  one operation, showing and rendering another.
* Replacing a document, and renaming a staged directory, is atomic; staged
  directories are hidden.
* A list visits the Contexts in any order.
* What an interrupted command of the older versions may have left is not among
  the initial states.
* `None` and `Unread` stand for the absence of a record; `ValueAssumption` says
  that they differ from every record and answer.

### 10.3 Run

`context`: two Contexts, one of which commands name (lists and migrations meet
both), two processes, three commands, one fault, records of up to two notes,
found in any of the three layouts.

| Property | Says |
|---|---|
| `ContextSafety` | besides the types: whoever has opened the store finds every record migrated, although the lock was given up (`MigratedBeforeUse`), and two processes never change it at once (`OneWriter`) |
| `ImplementsRecords` | the files implement `ContextRecords` |
| `CommandReturns` | every command returns or dies |

Three commands on two processes let one be in the middle of a migration or a
deletion, another race with it and a third find what the first left. Fairness:
a process that runs goes on.

## 11. `ToolInstall`

### 11.1 State and actions

| TLA+ | Code |
|---|---|
| `tool`, `cast` | an archive tool or a toolchain; the Entry and version each installer works at |
| `target`, `backup` | the tree at each place and the backups beside it: none, broken or whole |
| `selection` | the version `latest` stands for in an Entry |
| `cache`, `lease` | the archive of each version, shared by all Entries, and its lock |
| `lock` | the tool's lock in each Entry |
| `op` | an installer: its place in the program, what recovery found, its attempt, its stage |

`Inspect` to `CleanWork` are the recovery, `Source` to `Retry` the staging with
its one repetition from an emptied cache, `Publish`, `Check` and `Finish` the
publication and the selection of `latest`. The specification's own parts are
named `InstallInit`, `InstallNext` and so on, so that one module can prove about
this and another. What an earlier installation may have left is the constant
`Starts`: the theorems hold for any, the run takes those of `MCToolInstall`.

### 11.2 Abstractions

* A tree is whole, broken or absent, as validation sees it. Its metadata is
  written last. `removal.rs` deletes files in the order of the directory, so a
  removal that fails or is cut short leaves the tree as it was or broken: both
  outcomes are in `CleanBackup`. An interrupted setup in any of these states is
  also among `Starts`.
* Publication's branch for a target it finds is left out: recovery leaves
  none, which `PublishFindsNoTarget` checks.
* An interrupted installer's work directories are what `CleanWork` removes;
  which belong to the living is what `StageIsPrivate` is about.
* Downloads, archive formats, the installers of the two toolchains and the
  import of an older release's cache with its second lock are left out.

### 11.3 Run

`install`: two installers that meet at one place, in one Entry (two versions)
or at one version (two Entries, one cache); backups of an earlier installation
only where they meet at one place with an empty cache; three combinations of
faults. `SampleStarts` names these, `MaxBackups` bounds the backups. In the
code the setup as a whole holds `setup.lock` (`setup/native.rs:199`), so that
two installers of one Entry meet only if that lock is circumvented; the model
asks the tool's own lock to be enough.

| Property | Says |
|---|---|
| `InstallSafety` | besides the types: a publication finds no target, and what is reported as ready is valid |
| `NothingIsLost` | the last valid tree of a version is never given up, the newest valid backup returns, an installer's stage and the archive it stages from are not taken away by another, `latest` is stable |
| `InstallReturns` | every installation returns |

Fairness: an installation that has begun goes on; locks are waited for a
limited time.

## 12. `DevSetup`

### 12.1 State and actions

| TLA+ | Code |
|---|---|
| `settings` | the settings document: a version, which a setup depends on, and a spelling, which it does not |
| `state` | the provider state: missing, unavailable or ready, its input and publication token |
| `file` | the two scripts and the export, each the token it was written for |
| `lock` | one setup, one change of the settings, the provider state |
| `op` | a setup, a change or a check |

A setup marks the state unavailable under a new token, installs, writes the
three files, compares the settings and the token and makes the state ready. A
change invalidates the state, publishes the settings, and puts the state back
if that fails. A check reads the state, the files and the state again without
a lock.

### 12.2 Abstractions

* Tokens are random identifiers: a new one is one that nothing holds, and
  `TokensAssumption` says that there are more than can be held at a time (two
  by each process, one by the state). `KindAssumption` says that a process does
  one thing.
* Taking a lock and the first reading under it are one step.
* A publication happens or fails as a whole; `ReplaceFileW` failing between
  its two renames is left out.
* Settings edited by hand, the migration of the older layout, and what each
  tool contributes to the environment are left out.

### 12.3 Run

`setup`: two setups, a change of either setting and a check, in the
combinations of `Casts`; faults where at most `FaultyCast`, two, take part: a
fault beside a third process would triple the run. The theorems hold for any
`FaultyCast`.

| Property | Says |
|---|---|
| `SetupSafety` | besides the types: a ready state vouches for files of its own publication (`ReadyIsWhole`) and for the settings as they are (`ReadyMatchesSettings`), and a state that a change may put back is not overwritten meanwhile (`InvalidationIsHeld`) |
| `NothingIsStale` | a check that reports readiness has seen the publication that is current at that moment; a change of one setting leaves the others |
| `SetupReturns` | every command returns |

Fairness: a command that has begun goes on.

## 13. Divergences

Two are checked by a run of their own, which ends in a counterexample.

1. **A partially written event makes a run unreadable** (`run_journal/mod.rs:310`,
   run `journal_partial`). The run ends as Failed, and the incomplete line
   stays; readers refuse a terminal journal with an incomplete line, and
   nothing repairs it.
2. **A host that ends can remove its successor's document** (`host_runtime.rs:268`,
   run `host_document`). `App` gives up the lease before it reads the document
   and removes it; a successor that publishes in between is not found any more.

The others were met while modelling and are excluded by a condition of the
property in question, named in its comment.

3. **A user cancel can hide a run from the shutdown** (`run.rs:78`,
   `ShutdownMarksAll`, `KilledIsNotExited`). The user's cancel makes the run
   Canceling, and only later marks its control. In between, the shutdown's
   first pass skips the run, its second finds a control that was not asked to
   cancel, takes that for an error and rolls the run back to Running. The
   comment at `registry.rs:119` promises that every operation is marked before
   any is awaited.
4. **A slot can be lost** (`registry.rs:200`, `SlotsExact`). A run that failed
   to start is terminal before it is removed; if another run's completion
   prunes it in between, its removal finds nothing and does not return the
   slot. It takes more terminal runs than are retained.
5. **A truncated journal can claim lost events** (`run_journal/mod.rs:301`,
   `RefusedOnlyIfDamaged`). The truncation is published durably before the
   events are synced; after a power loss the run can be neither read nor
   reconciled.
6. **Creation can replace a Launcher** (`entry_manager/mutation.rs:142`). The
   comment says that an existing file is refused; the rename that installs the
   Launcher replaces what appeared since the inspection (`InstallLauncher`).
   Mutations exclude each other, so only somebody else can lose a file.
7. **A crash can leave a Context damaged** (`storage.rs:110` of the Context
   module). A process that dies between publishing a migrated record and
   deleting the flat one makes every later opening refuse; one that dies
   within a deletion or a publication leaves a directory that can be neither
   created nor deleted. `ContextRecords` allows exactly these refusals.

## 14. Proofs

The eight `...Proofs` modules hold the theorems of ten modules, for any sets
of processes, operations, releases, tools, settings and records, any limits,
any outputs of a command and any cut of them into reads, any installations
found at the start, and any combination of faults. What bounds a behaviour in
the runs (`Casts`, `FaultCases`, `FaultyCast`, `AskedProcs` and the like) is a
constant that the theorems leave open; a fault that the specification lets
happen once (damage from outside, a settings file corrupted by hand, and the
crash in `HostLifecycle`, `ToolInstall` and `DevSetup`) happens once there, too.
Every safety property and every action property that a passing run checks is
proved, and so are the three refinements.

They rest on the assumptions of the modules only, which say that names for
different things differ (`ThreadAssumption` with one shutdown and finitely many
operations, `ProcessAssumption`, `ActorAssumption`, `HostAssumption`,
`ReleaseAssumption`, `EntryAssumption`, `KindAssumption`, `NobodyAssumption`,
`ValueAssumption`, and `StampsAssumption`, with finitely many dated backups),
that what is found at the start and
what a command would write have their types (`StartsAssumption`,
`CasesAssumption`), that bounds are numbers (`LimitAssumption`,
`BoundAssumption`, `FrameAssumption`), and that a new random token is new (`TokensAssumption`).

### 14.1 `RunRegistryProofs`

* `TypeCorrect`, `HandOverNeverFails`, `OneCanceler`: one inductive invariant
  that ties each thread's place to the state of the control it works on. That
  a starting operation's control is Starting is not inductive by itself: it
  needs that a thread about to call the control is the one that made it
  Canceling, which needs that only an Attached control, or the submitting
  thread's own, becomes Canceling.
* `EndingsAreFinal`: from type correctness, action by action.
* `CapacityIsRespected`: the live operations are counted by `active`, at least.
  Each thread or worker that will return a slot is shown to hold one; the
  cardinality lemmas say that a set that loses or gains one element changes
  its size by one.
* `EndingsAreTrue`, `ShutdownAsksAll`: the invariant `CancelInv`, of ten parts.
  A control is asked to cancel once, so that a kill and a refusal exclude each
  other (`OnceInv`); the status Canceling keeps a second request from a run,
  and only a refused cancel is taken back (`AloneInv`): neither is true of the
  runs the shutdown has copied, where `AloneInv` says nothing, which is where
  `KilledIsNotExited` has its exception. Who made a run Canceling has marked
  its control or is about to (`CancelingInv`), which is what the shutdown's
  first pass relies on when it passes such a run by (`AskedInv`). What it has
  not copied is over, since nothing is admitted any more (`OutsideInv`), and
  what its last pass has left behind is over, too (`SeenInv`).
* `SlotsAreExact`: as long as the ended runs are not more than are retained,
  pruning removes nothing (`NothingPruned`: those behind an ended run are fewer
  than all), so every run that holds a slot is registered and each step takes
  one slot, gives back one that was held, or neither. The condition survives
  backwards because an ended run stays one (`EndedGrows`).

### 14.2 `JournalAndConsoleProofs`

Of `RunJournal`:

* `JournalTypes`, `EndingsAreKept`, `InterruptedAreAbandoned`: the invariant
  says that the holder of the lock file is where its program says it is, that
  no reader past the lease coexists with a living writer, and that a reader
  about to publish has seen the present state.
* `EndingsAreComplete`: it strengthens the invariant with what the writer and a
  reconciling reader know of the length of the events. The exception for
  failed writes is part of the property.
* `JournalIsSafe`: that a state counts more events than there are is stable and
  only a power loss brings it about, with the writer gone (`CountInv`); what a
  reader has seen earlier therefore differs from what it finds only then or
  after a failed write (`SeenInv`). Whoever closes the lock file of an ended
  run is about to remove it (`LockInv`).
* `JournalImplementsRecord`: initial states and steps, each mapped to a step
  of `RunRecord` or a stutter, from the same invariant.

Of `ConsoleRun` and `CommandOutput`:

* `ConsoleInvariant`: what is known of each reader (`ReaderKnown`), and what
  each place of the main thread tells of the processes, the readers and the
  result (`ProcessesKnown`, `ReadersStarted`, `ResultKnown`, `EndingKnown`).
  That what was shown is what was written is not inductive by itself: it says
  nothing of what the decoders hold. `Truthful` does: the bytes decoded, whose
  characters are what was shown and the text held, and the bytes held are
  together what was taken from the pipe; a held byte is the first of a
  character, and held text is the beginning of a frame or of its prefix
  (`Settles`). `Recorded` says the same of the journal: what it keeps is a
  beginning of what was shown, and all of it while the writer is good.
* The step of a reader rests on two facts about text. Bytes decode piece by
  piece unless a cut is within a character (`CharactersConcat`, used by
  `Utf8Decodes`), and a text means what its pieces mean unless a frame is cut
  (`MeaningConcat`, with `Closed`). `DrainHolds` and `DrainMeans` then say what
  one call of `drain` does: it loses nothing, holds no more than a record may
  be, and shows what the text means. A record that is too long is the
  exception, which stays one whatever comes before or after it
  (`OversizedRest`, `OversizedBeginning`).
* These are inductions over sequences. `SizeInduction` and `Recursion` state
  induction and the existence of a recursively defined function with sets where
  the library's theorems have operators, which no prover here can be given;
  they follow from the well-foundedness of the numbers. Each recursive function
  of `CommandOutput` is shown to satisfy its own equation (`CharactersDefined`,
  `OriginalDefined`, `DrainDefined`, `MeaningDefined`).
* `ConsoleOutputSafety` and `ConsoleEndingIsTrue` follow from the invariant.
  The second needs that a result "status" without a request means that the root
  exited by itself, that every reader joined since then gave everything, and
  that a reader which did found the pipe closed, which no later step opens.

### 14.3 `ProcessAndInstallProofs`

Of `ProcessExecution`:

* `ReportedOnce`, `ExitsAreReal`, `OutputIsOrdered`, `NothingIsLeft`: one
  inductive invariant in four parts. The worker's place says what has been
  created (`CreationInv`); each place of the monitor says what has ended
  (`EndInv`), which is why an exit can be reported without looking again;
  exactly one of the two threads reports (`ReportInv`); and the last handle of
  the job is either the worker's or a canceler's (`HandleInv`), which is what
  ends a tree whose terminations all failed. `ExecutionIsSound` puts the first
  and the third together with the types.
* `ExecutionRefines`: each step of `ProcessExecution` is a step of `Execution`
  or a stutter, from that invariant.

Of `ToolInstall`:

* `InstallInvariant`: an installer past its wait holds its Entry's lock
  (`LockInv`), and one that uses the archive holds the version's lease
  (`LeaseInv`). Two installers at one place would hold the same lock, so what
  an installer has found there stays true until it acts on it: the valid
  backups it may still try are those there are (`RecoveryInv`), it publishes
  where nothing is (`MissingInv`), and reports what is whole (`ReadyInv`).
  `StepKeepsOwn` shows this of the installer that moves, `StepEffects` says what
  a step changes at most, and `StepKeepsOthers` concludes for the rest. Damage
  from outside only makes a whole tree a broken one, and is remembered.
* `InstallIsSafe` and `InstallLosesNothing` follow from it. That the newest
  backup returns (`NewestStep`) needs that a finite set of stamps has a
  greatest one, by induction on a bound.

### 14.4 `HostLifecycleProofs`

`HostInv` ties each process's place to the lease. That two hosts of a release
never listen (`OneServerListens`) needs that a process which becomes its host
found no other holder, and that it holds the lease until its server thread has
ended (`ProcInv`, `OneHost`), although launches may hold the same Event in
between. That a launch or command reaches the host its document names
(`NamedHostIsReached`) needs that whatever a document or a waiting launch names
is a process of that release (`DocumentInv`). `RefusedRestartEnds`: a
coordinator is alive only while its restart is being prepared or after it was
accepted. `HostsAreSafe` puts them together with the types.

### 14.5 `RuntimeReleaseProofs`

`ReleaseInv`: an operation past its wait holds the lock (`LockInv`), so that
what it has validated stays as it was (`HoldsInv`), except for damage from
outside, which happens once and is remembered (`DamageInv`). That what runs is
kept (`RunningIsKept`) cannot rest on the lock, because a process starts
without it: the invariant says that while a release is being removed no process
that was started from the selector runs it (`IsolateInv`), since the last look
found none and the selector has named another since. `SelectionIsWhole`,
`ReleasesAreSafe` and the action property (`ReleasesAppearWhole`) follow.

### 14.6 `EntryManagerProofs`

`EntryInv` says what the files of an Entry amount to between two holders of its
lock (`TargetInv`: never a conflict) and at each place of a mutation
(`TargetAt`), which `NothingConflicts` and `EntriesAreSound` follow from. The
status is computed from five files; `StatusLemma` says once what each of its
values means. For `PublishesOneGeneration` it relates what a manager runs, has
read and finds selected to the Launcher's generation (`GenerationInv`).
`NothingIsLost` is an action property of the same invariant.

### 14.7 `ContextStoreProofs`

`ContextInv`: one process is between the taking of the lock and its release
(`HolderInv`); the stored version says which layout and schema the records
have, whatever migration was cut short (`VersionInv`); what a step has read
under the lock is what the next one finds (`PlaceInv`); and a command works on
the Context it names, and is about to publish what `ContextRecords` makes of
the present record (`CommandInv`). `ContextsAreSafe` follows at once.
`ContextsAreImplemented` is the refinement: one lemma for each action says
which step of `ContextRecords` it is. A command takes effect with the rename or
removal of its document; a migration is a stutter, because a record reads the
same in every layout; and a list, which holds no lock, observes each Context by
a step of its own.

### 14.8 `DevSetupProofs`

`DevInv` ties each command's place to the locks it holds and to what it knows
of the state. The state alone does not do: a change may put back the record it
has found, so `MeetInv` says of every setup at work and every change that may
put something back that this record is not a ready one, and if it is the
setup's own, still fits the settings. That a setup's token is new
(`FreshToken`) is a counting argument: what is held at a time is the image of
two values of each process and one of the state. `SetupsAreSafe`,
`ReportsAreCurrent`, `OneSettingChanges` and `NothingGoesStale` follow.

### 14.9 Only model-checked

Every liveness property: fairness and ENABLED are out of the prover's reach.
That a command ends (`EveryWaitEnds`, `CallsEnd`, `RequestsEnd`,
`CommandReturns` and the others) is shown by the runs on their instances.

### 14.10 How the models are written for the proofs

An update of several fields of a record is one nested `EXCEPT`, with its value
written out (`[op EXCEPT ![i] = [NoOp EXCEPT !.pc = "locking"]]`), and not
several clauses for one index: the SMT translation of those is not to be relied
upon. Sets of records that are the domain of a function stay hidden in the
steps that only apply it. The hypotheses of the leaves have been checked not to
be contradictory, by asking the provers for `FALSE` from them.

## 15. Not modelled

Each part without a module is in `components` of `PROJECT.json` with its
reason.

* **Catalog, resource loader, routes, help, native commands, protocol crate**:
  they read a tree of files or a document, validate and render it. They are
  sequential, keep nothing and change nothing; a model would repeat their
  formats. They are more than half of the Rust code, which is why the map
  covers a small share of its lines.
* **Readiness check**: a traversal that reads. Its one answer others depend
  on, the readiness of the development environment, is in `DevSetup`.
* **Native module builder**: stages, validates, renames and selects a release
  under a lock, the steps of `RuntimeRelease`; the rest is the environment of
  the compiler, manifests and digests.
* **HTTP server and command line**: the calls they make are the actions of
  `RunRegistry`, `HostLifecycle` and `ConsoleRun`.
* **Launcher**: its reading of the selector and its start of the release are
  `RuntimeRelease.Locate` and `EntryManager.Start`; how it finds its Entry,
  its command lines and the bootstrap of a missing release are left out.
* **Web console**: a client of the host.
* **Build, publication, tool-chain and bootstrap scripts, command kits**:
  programs of their own. The publication's replacement of the selector is
  modelled (`EntryManager.UpdateSelector`, `HostLifecycle.Select`), what it
  builds and verifies before is not.
* **Inside the modelled parts**: payloads of events, texts, the environment of
  commands, downloads and the toolchains' installers are data. Poisoned
  mutexes and panics in observers are left out throughout.

## 16. Running the checks

`tlc -config RuntimeRelease.cfg RuntimeRelease` checks one run. `PROJECT.json`
lists the module and the configuration of each; `RunRegistry.cfg`,
`ConsoleRun.cfg` and `ToolInstall.cfg` belong to `MCRunRegistry`,
`MCConsoleRun` and `MCToolInstall`,
`RunJournalPartial.cfg` and `HostDocument.cfg` to `RunJournal` and
`HostLifecycle`, and are expected to end in a counterexample. The longest run
takes about two minutes. `tlapm RunRegistryProofs.tla` checks a proof. The
operators whose comments begin with "Seeded fault" are variants of an action
with a plausible bug: each property of the passing runs is violated when its
action is replaced by the variant that `mutants` in `PROJECT.json` names.
