# Formal models of Code::Blocks

This directory holds TLA+ models of the parts of Code::Blocks whose correctness
depends on the order in which threads, timers, events and child processes act,
together with the TLC configurations that check them and TLAPS proofs of their
most important properties. The code is C++ on wxWidgets: one GUI thread runs an
event loop, and a few components own worker threads or child processes that talk
to it through posted events, shared containers and temporary files.

## 1. Inventory of the system

Paths are relative to the source root `src/src/`.

### 1.1 Parts with state and concurrency

| Part | Code | State | Operations | What makes it hard |
|---|---|---|---|---|
| Task pool | `include/cbthreadpool.h`, `sdk/cbthreadpool.cpp` | task queue, counters, a generation of workers, their semaphore | AddTask, AbortAllTasks, BatchBegin/End, SetConcurrentThreads, destructor; each worker's loop | workers read their abort flag without a lock; resizing replaces the generation while stragglers live on; wake-ups are counted |
| Parser scheduler | `plugins/codecompletion/parser/parser.cpp`, `parserthreadedtask.cpp` | batch lists, macro list, timers, flags, the global `s_CurrentParser` | AddParse, AddBatchParse, AddPredefinedMacros, Parse, Reparse, OnBatchTimer, OnAllThreadsDone, OnReparseTimer; the pool task | work is copied by a worker and cleared later; one-shot timers are started and stopped from several handlers; completion is an event |
| File saving | `sdk/filemanager.cpp` (Save, SaveUTF8, WriteWxStringToFile, platform::move), `sdk/cbeditor.cpp` (Save), `plugins/autosave/autosave.cpp` | the document, `.temp`, `.save-failed`, autosave's `.bak` and copy, the editor's modified flag | open, write, close, move, each of which may fail | a crash, a full disk or a refused rename between two steps |
| File loading | `include/filemanager.h`, `include/backgroundthread.h`, `sdk/filemanager.cpp` (Load, LoaderBase) | job queue of one background thread, loader's data and ready semaphore | Load, WaitReady, Data, Sync, thread's loop | the loader is used by its owner while the thread fills it |
| Build state machine and command queue | `plugins/compilergcc/compilergcc.cpp`, `compiler_defs.*` | build jobs, build state and next state, command queue, process slots | Build/Rebuild/Clean/Kill, DoRunQueue, OnJobEnd, BuildStateManagement, PreprocessJob | parallel processes end in any order, barriers before linking, failure and abort while others run |
| Native parser | `plugins/codecompletion/nativeparser.cpp` | one parser per project (or one per workspace), queue of projects | CreateParser, DeleteParser, OnParserStart/End, timers | a project closes while its parser runs |
| System headers thread, class-browser thread | `plugins/codecompletion/systemheadersthread.cpp`, `classbrowserbuilderthread.cpp` | shared maps and trees under locks | fill and post events | stale results, early exit |
| Symbol tree | `plugins/codecompletion/parser/tokentree.cpp` | tokens, file map, per-file status | insert, erase, RemoveFile, ReserveFileForParsing, FlagFileAsParsed | status per file, index reuse |
| Debugger driver | `plugins/debuggergdb/debuggerdriver.cpp`, `gdb_driver.cpp`, `debuggerstate.cpp` | queue of commands, busy flag, program state, breakpoints | QueueCommand, RunQueue, ParseOutput | replies arrive late; commands jump the queue |
| Thread search | `plugins/contrib/ThreadSearch/ThreadSearch*.cpp` | a search thread, event array, timer | run, stop, drain events | stop while events wait |
| Cscope, file explorer, directory monitor | `plugins/contrib/Cscope`, `FileManager` | child process, updater thread, monitor | run, poll, notify | delayed and stale notifications |
| Browse tracker | `plugins/contrib/BrowseTracker` | circular lists of editors and marks | add, remove, step | wrap-around, removal of the current one |
| Hex editor contents | `plugins/contrib/HexEditor/FileContentDisk.cpp`, `FileContentBase.cpp` | list of blocks, modification history | Change, Add, Remove, Undo, Redo, WriteFile | splitting and merging blocks, saving in place |
| IPC | `src/ipc.cpp` | shared memory and semaphores between instances | send and receive a command line | two processes; but nothing creates the class, `app.cpp` uses wxWidgets' DDE and IPC classes |
| Autosave of projects | `plugins/autosave/autosave.cpp` (SaveProject) | project and layout files | rename, save, copy | rename steps |

### 1.2 Parts that keep state but run to completion on the GUI thread

Editor and project managers (`sdk/editormanager.cpp`, `projectmanager.cpp`,
`cbproject.cpp`), configuration (`sdk/configmanager.cpp`), plugin manager
(`sdk/pluginmanager.cpp`), macros, logging, compiler options, the scripting
binding, the class wizard, the wxSmith form designer, the AStyle, keybinder,
todo-list, code-statistics and profiler plugins. Their handlers do not interleave
with each other; the events they exchange are plugin notifications.

### 1.3 Not the program's own logic

`sdk/scripting/squirrel*`, `sdk/wxscintilla`, `sdk/tinyxml`, `sdk/wxpropgrid`,
`plugins/contrib/help_plugin/bzip2` and `zlib`, `wxContribItems`, hunspell,
`tools`, `templates`, `plugins/scriptedwizard/resources`, `build_tools`: vendored
code, data, resources and build scripts.

## 2. Plan

### 2.1 Modules and their order

| # | Module | Models | Composition | State |
|---|---|---|---|---|
| 1 | `ThreadPool` | the task pool, thread by thread | implements `TaskPool` | done |
| 2 | `TaskPool` | what `cbthreadpool.h` promises a pool's owner | abstract specification | done |
| 3 | `ThreadPoolProofs` | theorems of `ThreadPool`, the refinement among them | extends `ThreadPool` | done |
| 4 | `ParserSchedule`, `ParserScheduleProofs` | all parsers, their pools, timers and the shared turn | uses what `ThreadPool` shows: a pool is a queue, a credit and a working flag | done |
| 5 | `CompilerBuild`, `CompilerBuildProofs` | the build state machine, the command queue, the processes | | done |
| 6 | `FileSave`, `FileSaveProofs` | a document's way to the disk | | done |
| 7 | `FileLoading`, `FileLoadingProofs` | the loaders, the background thread that runs them, their users | composes with `FileSave`: loads read what saves write | done |
| 8 | `DebuggerQueue`, `DebuggerQueueProofs` | the queue of debugger commands, the busy flag, gdb's replies, breakpoints | | done |
| 9 | `HexContents`, `HexContentsProofs` | block list, modification history and saving of the hex editor | implements `ByteHistory` | done |
| 10 | `ByteHistory`, `ByteHistoryProofs` | a text of bytes with undo and redo | abstract specification, with a theorem about it | done |

The order is by what can go wrong for a user: lost work and hangs in the pool and in the
scheduler built on it, wrong builds, lost documents, then the debugger, then
data structures.

Abstract specifications: `TaskPool` for the pool and `ByteHistory` for the hex editor. For
the build, the sequence of stages of a list of targets, and for the parsers, a set of
files that are requested and become done, are stated as properties (`CommandsInOrder`,
`SuccessMeansBuilt`, `RequestsAreParsed`).

Every safety property that a passing run checks, but `GdbAgrees`, is stated by a theorem; the liveness properties are
checked by TLC. Section 10 says what is not modelled.

### 2.2 Conventions

A variable has the name of the C++ member it stands for; a new name is explained where it
is declared. An action is one critical section, or one handler up to the point at which
it lets others run. A definition named `Fault...` is one of the project's deliberate
faults: it stands before the definition it would replace, the specification does not
use it, and `PROJECT.json` names the property that notices the replacement. Every property
has one, so none holds whatever the code does. Instances for TLC are in the `MC` modules
and the `.cfg` files; they give values to constants and replace no definition.
`CHECK_DEADLOCK FALSE` is set throughout, because all these systems may come to rest:
there may be no task, no request and no edit left within the bounds.

## 3. The task pool: `TaskPool`, `ThreadPool` and their proofs

### 3.1 Model and code

`m_Mutex` protects the queue, the counters and the list of threads, so one critical
section is one action: `AddTask`, `AbortAllTasks`, `BatchBegin`, `BatchEnd`,
`WorkingThread`, `GetNextTask`, `TaskDone`, `Leave` and `LastLeave` (both are
`WaitingThread()`, called at two places of `Entry`). What the code does outside the lock
is a step of its own:

- `SetConcurrentThreads` compares the request with `m_concurrentThreads` before it locks:
  the actions `SetConcurrentThreads`, then `ClearSchedule` or `ApplySize`.
- a worker reads `m_abort` without a lock: `Check`, `Guard`, `Loop`.
- a worker publishes and clears `m_pTask` under a lock of its own: `StoreTask`, `ClearTask`.

`pc[w]` is the worker's place in `Entry`, in source order: `check` `count` `fetch` `store`
`guard` `exec` `clear` `done` `loop` `leave` `wait`, and `exit` behind the loop. A
semaphore is its value and its limit; a post at the limit has no effect, as in wxWidgets.
`StartGeneration` is `_SetConcurrentThreads`: it aborts every thread of the generation,
posts for those asleep, and starts others on a semaphore of their own.
`FreshSemaphores` is what `CountedPtr` ensures: a semaphore is not used again while a thread
holds it. `fate`, `aborted` and `freed` record what happened to tasks, and
`ended` and `allDone` count the events the pool has posted.

`m_concurrentThreadsSchedule` is written without the lock (`ClearSchedule`) and read twice in
`WaitingThread` (lines 149 and 151): a race, whose outcome depends on how often the
compiled code loads it. `ReloadsSchedule` says which build is meant. With it, the second
read may be 0 and the pool is resized to no threads, after which `NoLostWakeup` fails.
The runs use FALSE; the theorems need it only where they say so.

### 3.2 Runs and bounds

| Run | Instance | Why it is enough |
|---|---|---|
| `pool_resize` | 3 workers, 3 semaphores, a pool made with 2 workers; 3 tasks while its size does not change, one task once it is being resized to 1 or 2 | two workers are the least that can be in each other's way, three tasks let one wait while two run; an orphan of an earlier generation beside a full new one; `CPUCount = 1` makes the request 0 a resize to one worker |
| `pool_live` | the sizes 2 and then 1, 3 workers, 1 task, under fairness | sleeping workers of an aborted generation, and a batch that delays the posts |

The number of resizes, aborts, batches and wake-ups is not bounded: the state space is finite
because names are used again. `Workers` bounds the threads alive at one time. `FewTasks`
(in `MCThreadPool`) is the constraint that keeps three tasks and resizes apart; it cuts the
exploration behind a state, and every step out of a state it allows is checked.

Properties: `PoolInv` (types, and the parts of the inductive invariant of 3.3, of which
`WorkingCount` says that the counter is right on every path out of the loop, and
`GenerationsApart` that no orphan is mistaken for a worker of the pool), `NoLostWakeup`
(no task waits while everybody sleeps), `NoDanglingTask` (nobody points at a deleted task),
`TasksAccountedFor` (a task stays in the queue or with a worker until it is executed
or removed, except with a worker that a resize has aborted after it took the task),
`AllDoneIsLast` (the event comes after everything), `KeepsPromise` (`TaskPool!Spec`),
`QueueDrains` and `AbortedWaitersEnd`.

Fairness: the operating system runs every started thread (weak fairness of `Worker`), a call of
`SetConcurrentThreads` returns, and an owner who began a batch ends it, which
`cbthreadpool.h:80-84` demands. Nobody has to add, abort, resize or destroy.

### 3.3 What is proved

`PoolInvariant`: `PoolInv` holds in every state, for any number of workers, tasks,
semaphores and sizes. `WorkingCount` needs that a worker's local flag agrees with
its place in `Entry` (`LabelsAgree`), since the actions test the place and the counter
follows the flag. `GenerationsApart` needs that a worker leaves only if it was aborted, and
holds a semaphore while it lives: otherwise a new generation could be given a semaphore
on which an old worker sleeps. `NoLostWakeup` needs all of these and positive
sizes (`SizesPositive`): a post leads to a worker only if there is one. These are the
conjuncts of `PoolInv`; one lemma per conjunct, with one step per action. The corollaries are
`CountIsRight`, `GenerationsStayApart` and `NoWakeupIsLost`, the last for a build that
loads the schedule once (`~ReloadsSchedule`). Assumptions: `PoolAssumption` only
(finite sets of names, positive sizes).

The second half of `ThreadPoolProofs` goes on from there with `TaskInvariant`, about what becomes of a task. Its
parts: a worker's place in `Entry` decides whether it has a task and whether `m_pTask` points at
it (`PlaceInv`); what has become of a task agrees with where it is (`FateInv`); it is in one
place only, the queue or one worker (`OnceInv`); the events posted, and the workers between
the end of a task and its event, add up to the tasks executed (`EndedInv`). From it follow
`NoTaskDangles`, `TasksAreAccountedFor`, `AllDoneComesLast` and `PoolKeepsPromise`, the last
one step by step: most steps of a worker are stutters of `TaskPool`, and the one that posts
`THREADTASK_ALLDONE` is its `AllDone` because the last counted worker to leave is alone: by
`WorkingCount` no other worker holds a task, and by `EndedInv` none owes its event. Liveness
is model-checked only.

### 3.4 What the model shows beside its properties

No comment claims the opposite, so these are not findings, but a maintainer should know:

- `AbortAllTasks` does not reach a task between `GetNextTask` and `m_pTask` (line 215):
  it is executed after the call.
- a worker that is aborted by a resize after it took a task drops it: not executed and not deleted.
- `m_workingThreads` can exceed `m_concurrentThreads` while orphans finish.
- a resize can get lost: `ClearSchedule` or a late `ApplySize` acts on a comparison made
  before another worker applied a schedule.
- every worker that leaves while another is counted posts, even for an empty queue (line 157).
- `Done()` is about counted workers: it is true while tasks wait.
- the destructor wakes the aborted workers and does not wait for them: one that has passed
  `Aborted()` (line 205) calls `WorkingThread()` of a pool that is gone. The guard `alive` leaves
  this step out, since what follows is undefined; no property speaks of it.

## 4. The parsers' schedule: `ParserSchedule`, `ParserScheduleProofs`

### 4.1 Model and code

Every parser has batch lists, flags, two one-shot timers and a pool of one thread; all
parsers share `s_CurrentParser`. A handler of the GUI thread is one step
(`s_ParserMutex` covers its accesses). The worker's tasks are split where they leave a
critical section:

| Code | Actions |
|---|---|
| calls of NativeParser | `AddFile`, `AddBatchParse`, `AddPredefinedMacros`, `Reparse`, `RemoveFile`, `UpdateParsingProject`, `Delete` with `Deleted` |
| `OnBatchTimer`, `ReparseModifiedFiles` | the same names |
| `OnAllThreadsDone` | `IgnoreAllDone`, `NextBatch`, `MarkLocal`, `EndParsing`: one per branch |
| `cbThreadPool` | `AddTask`, `BeginRound`, `EndRound`: `ThreadPool` for one thread, whose steps between two critical sections concern nobody else |
| `ParserThreadedTask::Execute` | `CopyLists`, `ClearPredefinedMacros`, `Parse` (one file), `EndBatch` |
| `MarkFileAsLocalThreadedTask::Execute` | `MarkFilesAsLocal` |
| `ParserThread::Parse` with includes | `OpenFile`, `OpenFails`, `Include`, `CloseFile` on a stack of files |
| `TokenTree` | `m_FileStatusMap`, `m_FileMap`, `m_FilesToBeReparsed`, with `ReserveFileForParsing` and `IsFileParsed` |

An ALLDONE event is counted in `allDone` when it is posted and consumed when the GUI
thread handles it. A timer may fire at any time while it is running, also late. While
another parser is current, `OnBatchTimer` only starts its timer again, so that this case is no
step.

### 4.2 Runs and bounds

| Run | Instance | Shows |
|---|---|---|
| `parser_calls` | 1 parser, 2 headers that include each other, 5 calls of any kind at any moment, 1 unreadable file | that tasks in the queue are served (`ParserInv`), events are heard, reserved files are neither forgotten nor entered twice (`ReservationsHold`), the end of a batch is last, and a batch that can go on stops doing so only by an addition (`StallsOnlyByAddition`) |
| `parser_turns` | 2 parsers, 4 calls at rest and deletions at any moment, fairness | turns, completion, destructors |
| `parser_lost_file` | 1 parser, 3 calls of AddFile | finding |

`MaxCalls` bounds the calls of one behaviour, `MaxFailures` the unreadable files. Two calls
suffice for each race known (one to start a batch, one to interfere) and the passing runs
allow more. Two files are the least with a cyclic include.

Some properties are false when certain calls come while the parser is not at rest, or
after a failure, and say so in their text: `calls.midway` holds the kinds of such calls.
`EventsAreHeard`, `CurrentOwnsTheWork` and `EndIsLast` except histories with
`AddPredefinedMacros` among them, the first half of `ReservationsHold` those with
`RemoveFile`, the second half those with an unreadable file (4.4). `CallsWhenIdle`
restricts the calls, but the destructor, to a parser at rest: the liveness properties are
false without it, because a batch can then stall for good (4.4). `StallsOnlyByAddition` says what
is true at any moment: a parser `GoesOn` if its batch is in the pool, or announced, or has its timer running,
and no step of the thread, of a handler, of another parser or of a call but an addition
(`AddFile`, `AddBatchParse`, `AddPredefinedMacros`) makes an end of that.

Fairness: threads run, events are handled, and an armed timer fires in the end. For
`OnBatchTimer` it is strong fairness: while another parser is current the timer
is armed again and again, and it fires once during a free turn.

### 4.3 What is proved

The safety properties of both runs, for any number of parsers, files, includes, calls and
failures, and with every kind of call enabled: `QueuesAreServed`, `OneParserParses`, `AllDoneIsHeard`,
`FilesAreReservedForATask`, `ParserEndIsLast` and `BatchesGoOn` (`StallsOnlyByAddition`). They follow from `ScheduleInv`, which is inductive. Its parts:

- `PlaceInv`: the thread is counted while it is in a task, and is in a file while it has a stack.
- `BatchInv(p)`: what is in the pool belongs to a batch that is queued, is being made, or is
  under way; an ALLDONE event is single, finds nothing in the pool, and finds the parser in its batch;
  a timer that runs during a batch has nothing to do while anything is under way; and any
  of this makes `p` the current parser. The last part is why a second claim cannot happen
  (`OnBatchTimer` looks at `s_CurrentParser`), and the part about the timer is why the same parser
  does not claim twice. That the macros are gone while files are reserved (`at = "parse"`) is what an
  `AddPredefinedMacros` in the middle of a batch breaks, so this half is stated without it.
- `GoingInv`: what is in the pool will be announced, a batch under way listens to its events, and
  a timer that is all a batch has left finds something to parse. Each is a way in which a batch goes on;
  a step that ends one of them must have begun another, which is what `BatchesGoOn` adds.
- `FilesInv`: the files on the stack are being parsed, so that an include of one of them is
  refused, and each is there once.
- `QueueIsServed` and `NoStrandedFile` themselves.

A step of one parser leaves the others alone (`Elsewhere`), but for the shared pointer
(`CurrentIsKept`), so each part is a lemma about one parser. Calls, handlers and steps of the thread
have what they can change collected in `CallEffect`, `HandlerEffect` and `ThreadEffect`. The assumption is
`ParserAssumption`. `RequestsAreParsed`, `TurnsEnd` and `DeletionEnds` are model-checked only.

### 4.4 Findings and known disagreements

- `parser_lost_file`: `Execute` copies the list of files and later clears the whole list;
  what was added in between is not parsed. `parser.h:136` promises that it will be.
- `OnAllThreadsDone` starts the batch timer while `m_IsParsing` (`parser.cpp:600`); an addition that
  comes before the timer stops it (257) and starts it again only if `~m_IsParsing` (264). Then no task, no event
  and no timer is left, and the parser stays current, so that no parser parses any more, though `parser.h:304`
  says of `m_IsParsing` that it is false when the parsing has finished. `parser_calls` contains this
  history, which `StallsOnlyByAddition` allows; the liveness runs exclude it.
- Macros are cleared like files (`ClearPredefinedMacros`), and can be lost like them.
- Macros that are added after `ClearPredefinedMacros` and before `m_IsParsing` is set can
  end a batch early.
- `Done()` is true between two tasks of one batch (`parser.cpp:158`), so the project can be
  changed half way.
- An `AddFile` after `ReparseModifiedFiles` leaves `m_NeedMarkFileAsLocal` set after the end.
- A file that could not be opened stays reserved and is never tried again (`parserthread.cpp:513`).
- `RemoveFile` while the file is parsed lets a header enter it a second time.
- `~Parser` may go on while tasks wait in its queue; destroying the pool drops them.

## 5. The build: `CompilerBuild`

### 5.1 Model and code

Everything runs on the GUI thread, so there would be no interleaving if
`Manager::Yield()` did not let handlers run inside handlers. `stack` holds the
unfinished calls; the last frame says where its function stands:

| Frame | Place |
|---|---|
| `run` | start of `DoRunQueue` |
| `queueLoop`, `queueTest` | its loop around `BuildStateManagement`, and the test after it |
| `endLoop`, `endTest` | the same loop in `OnJobEnd` |
| `yield` | the first yield of `BuildStateManagement` |
| `commands` | the commands of a stage are being made, with yields |
| `projectDone` | after the nested `DoBuild` for the next project |
| `last` | the last yield of `BuildStateManagement` |
| `rebuild` | `Rebuild` or `RebuildWorkspace` between the clean and the build |

`Looping` says when the event loop gets in: at rest or at a yield. Then a process may end
(`Terminate`: `PipedProcess::OnTerminate` clears `pProcess` and posts an event), an event may be
handled (`JobSucceeds`, `JobFails`: `OnJobEnd`), or the user may abort (`KillProcess`).
A new request is made at rest only (`Ask`: `OnUpdateUI` disables the menu). A command
is a target, a stage, a number and whether it has to wait for the running processes; the
number of files to compile and every exit code are free.

Ghosts: `due` and `built` (the job list and the targets that reached their build stage),
`asked`, `failed`, `aborted`, and the counters `finished` and `reported` of
`cbEVT_COMPILER_FINISHED`.

### 5.2 Runs and bounds

`build_all`: two requests of any kind, for no target, one target, or three targets of two
projects; two process slots; two or three files per target; one abort and one refused
command at any moment; any command may fail. The barrier (`COMPILER_WAIT`) between files of
different weight and behind a precompiled header (`directcommands.cpp:500-501`) is left out, so
that the model lets more compilers overlap than the code. Two projects of which one has two targets
reach every transition of the state machine; two slots are the least with
parallel commands. A second request meets what the first has left behind. `MaxRequests`,
`MaxAborts` and `MaxRefusals` bound a behaviour. `build_exit_code` and `build_abort` are the
findings, with one request. `BuildInv` is the type invariant and that the process slots tell
which processes run; `CommandsInOrder` is the order of the stages and of the targets.

Two assumptions of `build_all` are about the toolkit and the configuration:
`EventsFirst` (posted events are all handled before further ends of processes are
reported, as wxWidgets' loop does) and `Linked = Targets` (the link stage of every target makes
a command: its compiler has a linker program, and the target has something to link,
`directcommands.cpp:681-686`). Without one of them `NoSpin` fails: a nested `OnJobEnd` starts a process
while the outer loop has not ended, `BuildStateManagement` returns at once because a process runs,
and the GUI thread turns in `while (1)` until the process ends, an end it would itself have
to notice.

Fairness: the GUI thread goes on with what it has begun (`Handle`) and every process ends.

### 5.3 What is proved

The four invariants and the two action properties of `build_all`, for any projects and targets, job lists,
numbers of files and of slots, requests, failures, refusals and aborts: `ProcessesHaveSlots`,
`StagesAndTargetsInOrder`, `RequestsAreAnswered`, `LoopsMakeProgress`, `FailureStops` and
`NoTargetIsForgotten`. They assume `BuildAssumption`, and `LoopAssumption`, which is the two assumptions
of 5.2. They follow from `SchedulerInv`, which is inductive. Its parts:

- `SlotInv`: a slot has a process, or the event of its end, or is free, and `pProcess` and `PID` say which.
- `StackInv`: which frames may lie on which. While a process runs, at most the start of `DoRunQueue`
  is on the stack, so nothing yields then; and loops are nested in a yield only after the build is over
  (`Dead`). This is the heart: an event handled inside a yield finds nothing to start.
- `QueueInv`: the queued commands are of one target, compilers first and then one that waits for them
  (`Waits`: this is where `Linked = Targets` is needed). While commands are queued only compilers
  of that target run; with none queued, an end that leaves no process running is the last.
- `CleanInv`: a clean makes no commands, so that nothing is left when a rebuild goes on with its build.
- `AnswerInv`: at most the request under way is unanswered; and the job is idle exactly if nothing
  is being built.
- `OrderInv`: the job list is what is built, the target that is pending, and the rest, at whatever
  yield; and the state machine has no next state only when nothing is left of the list.
- `FailInv`: after a failure nothing is queued, and no handler that could queue a command is on the stack.

The step for each part is split by handler. `FramesKept` and `TopAfter` say, for all steps, which frames stay
where they are and what the innermost is afterwards. `BuildsEnd` is model-checked only.

### 5.4 Findings and known disagreements

- `build_exit_code`: `m_LastExitCode = 0` (3793) overwrites the error of a parallel
  compiler, which the comment at 3752 means to prevent: the build is reported as finished.
- `build_abort`: an abort while the commands of a stage are made is undone when they are queued.
- A refused command ends the build with exit code 0.
- Two compilers that fail together can send two `COMPILER_FINISHED`.
- An abort leaves jobs in `m_BuildJobTargetsList`; a workspace build adds to them.
- A workspace without jobs leaves `m_IsWorkspaceOperation` set.
- `DoPrepareQueue` yields before `m_BuildJob` is set, so that a second request could start
  inside the first; requests are modelled as single steps.

## 6. Saving: `FileSave`, `FileSaveProofs`

### 6.1 Model and code

`FileManager::Save` has four phases, each of which may fail: `Open` (a temporary file, or
the document itself if it is new or a link; opening truncates), `Write`, `Move` (over the document)
and `MoveFailed` (the text is kept in `.save-failed`). `Save` is `cbEditor::Save`,
also called by autosave's method 1; `AutosaveBackup` and `AutosaveCopy` are methods 0 and 2. A
file holds nothing, a whole version or part of one. `Crash` ends the program between any
two operations; the user opens the document again if it is whole. `reported` is the version the
editor last took as saved, `tornBackup` marks the histories in which method 0 has
renamed a damaged document over its backup.

`Open` has two ways to fail: `wxFile` cannot create the file (Save does not look at it and
notices at the first write), or an existing file cannot be opened for writing. An empty text
without byte order mark needs no write, hence `Empty`.

### 6.2 Run and bounds

`save_all` runs `FileSave` and `FileLoading` (section 7) together: the document is new, a
file or a link; three versions of which the third is empty; all three autosave methods; two
failures and one crash at any operation. Three versions tell the saved one from an
earlier backup and from a later buffer. Two failures are what it takes to leave a stale temporary
file and then to use it. Behaviours in which something is loaded are bounded more
tightly (7.2). The theorems of 6.3 hold for any bounds.

### 6.3 What is proved

`SaveInvHolds`: `SaveInv` is an invariant. Its parts are `CallInv` (which file the save
under way writes, and that what it is about to move is whole and is the buffer), `VersionInv` (the
buffer and the document are never older than what was reported) and `SurvivalInv`
(the version that survives is in the document or in the backup). The argument of
`Survives`: a good document is lost only when it is renamed to the backup, which is then
good, or replaced by a temporary file, which is whole and as new as the buffer; a good backup is
replaced only by a good document, unless `tornBackup`. `VersionInv` is needed because the
document that becomes the backup must not be an older one. `NeverTornHolds` and
`SavedIsOnDiskHolds` follow from `SaveInv` and what each operation does
(`OpenEffect`, `WriteEffect`, `MoveEffect`, `MoveFailedEffect`). The assumption is
`SaveAssumption`; edits, failures and crashes are unbounded, since the bounds are constants.

### 6.4 Exceptions

The properties except what the code really does:

- `Empty`: `Create` of the temporary file fails, nothing is written, and `Move` moves
  whatever an earlier failure has left there, or reports a new document as saved that
  does not exist.
- links are written in place (the comment at `filemanager.cpp:275`): a failure truncates.
- `Move` is one step. Where `rename` fails across devices, `wxRenameFile` copies and removes,
  which is not; the temporary file and the document are in one directory.
- `tornBackup`: a second autosave by method 0 replaces the whole backup by a damaged document.

Loss of power, `SaveUTF8` (the same steps without conversions), method 3, and the autosave of
projects are left out.

## 7. Loading: `FileLoading`, `FileLoadingProofs`

### 7.1 Model and code

A loader is made by `FileManager::Load`, run by the one background thread
(`BackgroundThread::Entry`, which calls `operator()`), and used by whoever asked for it: the
GUI thread, which opens an editor, or a thread of the parsers. `FileLoading` extends
`FileSave`, so that the file a loader reads is the one that saves, backups and renames
change under it.

| Code | Actions |
|---|---|
| `Load`: `Queue` adds the job, then posts | `Load`, `Post` |
| `Load` with `reuseEditors` and a modified editor | `Reuse` |
| `ParserThread::InitTokenizer`, `Tokenizer::Init` | `Proceed`, `InitTokenizer` |
| `WaitReady` in `Sync`, `GetData` and `~LoaderBase` | `WaitReady` |
| `delete` of the loader | `Delete`, or the end of `WaitReady` at `destroy` |
| `BackgroundThread::Entry` | `Wait`, `Pop` |
| `FileLoader::operator()` | `Access`, `OpenFile`, `Read` |
| `FileManager::Save`, autosave, the crash | `Saving`, `CrashLoading`, around `FileSave`'s actions |

`at[l]` is the user's place. `inode` says where the file that the thread has open is now: still
the document, moved to the backup, or replaced by a rename. While the GUI thread uses a
loader it does nothing else, since the calls are synchronous.

### 7.2 Run, properties and bounds

`save_all` checks, beside section 6: `LoadInv` (the inductive invariant of 7.3: types; no job is in
the queue or running whose loader was deleted; no post without a job; and what these need), `LoadedIsWhole` (a document that is no link and
stays at its place is loaded whole, and not older than what was reported as saved
before) and `WaitersAreServed` (who waits for a loader goes on). Two loaders, one of each kind of
user, and two calls of `Load`: one job waits while another runs, and the name of a loader is
used again. With loads a behaviour has at most two edits, one failure, no save of a copy
and no crash after the first load (`Small`, in `MCFileLoading`); the saves of a document in
every way, and the backup, remain. Fairness: the background thread runs, and so does a user
between the two steps of `Load` and when the loader is ready. Nobody has to load or save.

Two ghosts mark what the properties except. `early`: the file vanishes between
`InitTokenizer` and `Tokenizer::Init`, and the loader is deleted before its job began. The
job then finds an object of which only the base class is left, whose `operator()` does
nothing: `~LoaderBase` waits for ever (`filemanager.cpp:32`). `clean`: the document is a link, was
not whole, or left its place while it was read; saving a link truncates the file that is
being read, and the buffer keeps the old length.

Left out: `URLLoader` and the threads for network paths (the same queue, the same loop),
`BackgroundThreadPool` (not used by the file manager), colour sets. A file that
vanishes between `wxFile::Access` and its opening has length -1
(`filemanager.cpp:63`), for which the code allocates three bytes and writes the terminating zeros from
one before them (64-71); the model does not follow the memory and reads nothing. `Reuse` copies an editor's text, which a parser's thread
does without a lock; the model takes the whole text.

The half of `LoadedIsWhole` about versions holds only while no version was empty
(`NoneEmpty`): saving an emptied text moves a stale temporary file over the document (6.4), and
what is loaded then is whole but old.

### 7.3 What is proved

`LoadingLeavesSaving`: with loads, `FileSave` behaves as it does without them, so the theorems of
6.3 hold beside loads too. `LoadInvHolds` and `LoadedIsWholeHolds`, for any number of loaders, users,
loads, edits, failures and crashes. The parts of `LoadInv` and why they are needed:

- `JobsInv`: a loader is in the queue once, or is being run, exactly while its semaphore is down,
  and then its user cannot pass `WaitReady`. The posts, the thread that has been woken, and the users
  between the two steps of `Load` are together as many as the queue is long, so that the thread
  never finds the queue empty. `JobsAreAlive` is a consequence (`AliveFromJobs`).
- `ThreadInv`: what the thread's place says about its job.
- `WholeInv`: a document that is written in place is not whole; so a whole document that is no link
  changes only by a rename, and the open file stays as it was.
- `AskedInv`: what a load was promised is not newer than what was last reported (`ReportedGrows`).

The assumptions are `LoadAssumption` and `SaveAssumption`. `WaitersAreServed` is model-checked only.

## 8. The debugger: `DebuggerQueue`, `DebuggerQueueProofs`

### 8.1 Model and code

`ide` holds the plugin's members (`DebuggerGDB`, `DebuggerState`, `GDB_driver`), `gdb` the
debugger and the program it controls, `fromGdb` what gdb has printed, up to its prompts, and
the event loop has not yet handled. A handler of the plugin is one step; the operators on the
record `s` are its calls in their order:

| Code | Definitions |
|---|---|
| `DebuggerDriver::QueueCommand`, `RunQueue`, `RemoveTopCommand` | `QueueLow`, `QueueHigh`, `RunQueue` with `FirstWithText`, `RemoveTopCommand` |
| `DebuggerState` and `GDB_driver` on breakpoints | `AddToDriver`, `RemoveFromDriver`, `ResetBreakpoint`, `ApplyBreakpoints`, `ByNumber` |
| the commands' own `ParseOutput` | `CommandParses` with `BreakpointSet`, `BreakpointRefused`, `ConditionRejected` |
| `DebuggerGDB::DoBreak`, `Continue`, and what edits do while the program runs | `DoBreak`, `Continue`, `Interrupted`, `Resumed` |
| the user | `Debug`, `AddBreakpoint`, `DeleteBreakpoint`, `EnableBreakpoint`, `OpenDialog`, `CloseDialog`, `UserContinue`, `UserStep`, `UserBreak`, `UserStop`, `UserKills` |
| `GDB_driver::ParseOutput`, `OnCursorChanged` | `HandleReply` with `TakeAnswer`, `BreakpointHit`, `ReadLines`, `SeekCursor`, `CursorChanges` |
| the end of the process | `ProcessEnds`, `OnGDBTerminated` |
| gdb, the program, signals (external) | `GdbObeys`, `ProgramStops`, `SignalArrives`, `ProgramExits`, `GdbIsPoked`, `GdbCrashes` |

### 8.2 Runs, properties and bounds

gdb may set a breakpoint (`"ok"`), or hold it as pending because its code is not loaded, for which
the driver sends `set breakpoint pending on` (`gdb_driver.cpp:153`): then `BreakpointSet` only
notes the condition (`wantsCondition`), and `BreakpointHit` sends it after the first hit. It may
refuse the breakpoint, which has no number then, or reject a condition with a symbol that it does not
know; the user is asked whether to make the breakpoint unconditional or to give it up. Both are
remembered in `turnedDown` until the breakpoint is set again. `GdbMay` says which of these an
instance allows, beside `"ok"`.

- `debug_session`: two breakpoints, each of which may have a condition; four requests of any
  kind at any moment; gdb may die once; and it may answer of one of the breakpoints in any of these
  ways, but then does not die as well (`MCNext`). Three requests are what it takes to start,
  to edit while the program runs, and to edit again or stop before the first edit is through; the
  fourth lets any of these meet another session. The breakpoints are made in one order, their
  names being interchangeable. The four safety properties were also checked without these limits of
  `MCNext`, for a gdb that does not die.
- `debug_two_wishes` is a finding.

Properties: `RepliesMatch` (an answer is parsed by the command that
asked for it: exactly the head of the queue is in flight when the queue is busy), `StoppedIsShown`,
`DriverInv` (types, and that the driver waits for a stop only while there is one to come), `StopEnds`,
`TemporaryBreakEnds`, and `GdbAgrees`: when nothing is on its way, gdb has every enabled breakpoint of the
list under the number the list has, with what the user asked of it. Three things it says otherwise,
because the code does: of a breakpoint that was pending, gdb may lack the condition, but the list
then knows it to be owed; a breakpoint that gdb has refused, or whose condition it has rejected, need not be
there; and one that was removed or set anew while its number was unknown may be left over (`abandoned`).

Fairness: the event loop handles what gdb has printed, and gdb, signals and the end of a
process are not delayed for ever (`Handled`, `Bound`). Neither the user nor the program has
to do anything.

Assumptions: the plugin knows the program's process number as soon as there is one; `Debug`
is one step, taken when the end of the last session has been handled. In the code it yields some fifty times
once gdb's process is there (`debuggergdb.cpp:898-904`), and an edit made then is sent early and
queued again by `ApplyBreakpoints`. The commands by which `Prepare` sets gdb up (`gdb_driver.cpp:142-165`)
are left out: they change neither breakpoints nor program. The question about a rejected condition is taken as
answered at once, in the step that parses the answer.

### 8.3 What is proved

`AnswersMeetTheirCommands` (`RepliesMatch`) and `DriverHears` (`DriverInv`), for any breakpoints, requests,
deaths of gdb and sessions. They assume `DebugAssumption`, and `OneWishEach`: no breakpoint has both a
condition and an ignore count, for which `debug_two_wishes` shows them false. They follow from
`QueueInv`, which is inductive. Its parts:

- `Types`: the types, and that the list holds a breakpoint once.
- `SessionInv`: while gdb lives its process and its driver are there, and without a driver no answer is left.
- `TalkInv`: while nothing has disturbed the session, `Flight` (the queue is busy with its head, which
  is in the pipe, or lets the program run, or has its answer posted) and `Awake` (a queue that is not busy
  can send, or gdb has refused a command that would let the program run, and others wait). An answer
  posted is the only one, and `Genuine`: only commands that let the program run are answered with a stop or an
  end, and with nothing at all only when they were refused. Without that last part a signal read after the
  next command was sent would take the queue for idle.

An operation on the record `Keeps` it if types, process and driver stay and `Flight` and `Awake` are handed
on. `Keeps` is transitive, so each handler is the sum of its calls; `ParseOutput` is split by what
was answered (`PlainAnswer`, `LateAnswer`).

`StopsAreShown` (`StoppedIsShown`), under the same assumptions. It needs `MindInv` beside `QueueInv`, which
says of a session that nothing has disturbed what its driver still has in mind:

- `Ending`: a program counts as started, so that the next `Continue` lets it go on, or a quit is queued.
- `Steady`: a break made only for an edit is followed by a command that lets the program go on.
- `Seen`: a program stopped and not shown as such will go on by what is queued, or the driver waits to
  hear where the program is.

An operation `Carries` them if it takes no such command away; that too is a preorder. A command that lets
the program go on is taken away only by its answer, with which the program has stopped anew or ended:
`LateAnswerMinds` shows that this stop is shown, or was made by an edit whose command is still queued.

All three hold for every `GdbMay`. `GdbAgrees` is model-checked only.

### 8.4 Finding and known disagreements

- `debug_two_wishes`: `QueueCommand` with `High` puts a command at index 0 and runs the queue. A
  breakpoint with a condition and an ignore count does this twice; the first is sent and waits
  for its answer at index 0 when the second goes before it, and takes its answer.
- A gdb that prints "Pending breakpoint ... resolved" has given the breakpoint a new number, and the
  comment at `gdb_driver.cpp:884` says that the list must follow. `HasBreakpoint(file, line - 1)` (925) looks
  for it one line above its own, though `DebuggerBreakpoint::line` counts from 1: the list keeps a
  number that gdb no longer has, or the breakpoint of that line is given the new one. The model
  leaves this gdb out: its pending breakpoints keep their number, and only the line "Breakpoint N," (940-954)
  tells that one was hit. `GdbAgrees` is not claimed of a gdb that renumbers.
- A breakpoint that gdb refuses has no number and is not tried again while the session lasts, unless it is edited.
- If the user gives up a breakpoint whose condition was rejected, it is deleted in gdb and stays in the list,
  with its number (`gdb_commands.h:417-421`); and the program is continued.
- `RemoveBreakpoint(NULL)` does nothing, though `debuggerdriver.h` says that all are removed.
- A breakpoint that is removed or set anew while its number is unknown stays in gdb (`abandoned`).
- Two edits in quick succession may send two SIGINTs that become one. A SIGINT that reaches
  gdb itself yields a prompt nobody asked for (`stray`); the properties then say nothing.
- Stop during a temporary break waits for the program to stop once more.
- If gdb refuses `finish` in the outermost frame while edits are queued, the session waits for a
  stop that does not come (`refused`; `gdb_commands.h:1813`).
- `m_TemporaryBreak` survives the session and mutes the first stop of the next (`muted`).

Left out: threads, watches, data and temporary breakpoints, attaching, remote debugging, and
the driver for CDB. `SwitchThread` and the call stack use the queue in the same way as the finding.

## 9. The hex editor: `HexContents`, `ByteHistory` and their proofs

### 9.1 Model and code

A big file is edited as a list of blocks, each a stretch of the file on the disk or bytes in
memory. `FileContentDisk::SetBlock` replaces, removes or inserts: `Overwritten`, `Removed`
and `Inserted` are its three loops, `FirstPart` and `LastPart` the two halves of
`InsertNewBlock`, and `MergeBlocks` and `FindBlock` have their names. The list of modifications
is a sequence, `undoCurrent` and `undoSaved` are places in it, `Null`, or `Invalid`. `Write`, `Add`, `RemoveBytes`, `Undo`
and `Redo` are the operations of `FileContentBase`; saving is `WriteFileEasiest` (in place),
`WriteFileTemporary` or `WriteToDifferentFile`, chosen by `NoShiftedDiskBlocks` and the
name. `file` is what the name stands for, `handle` what `m_File` is.

The abstract specification `ByteHistory` is a text, a list of edits and how many of them the text
has: an edit replaces a stretch, undo and redo walk along the list.

### 9.2 Run, properties and bounds

`hex_edit`: a file of three bytes, all different, three modifications of one or two bytes,
a text of at most four, and any number of undos, redos and saves between them, of which one may
fail at any byte. Three bytes are what it takes to have a stretch of the disk on both
sides of a change; two modifications split and three merge again. One value suffices for new bytes, since
the old ones are told apart.

- `KeepsHistory`: every operation is an edit, an undo or a redo of `ByteHistory`, with
  `text` the bytes the blocks spell, and every save, whole or failed, changes nothing of it.
- `HexInv`: types, and that the blocks cover the text without gap and lie in the file, as
  `ConsistencyCheck` asserts.
- `UnmodifiedIsOnDisk`: what is not shown as modified is what the file holds.

A behaviour is followed while it is `Usable`: no assertion has failed (a build without
`NDEBUG`), the file can be read, and no byte was lost. What ends or excepts one:

- `dropped`: bytes put at the end of the text, also by the undo of a removal there, go into a block
  that is not added to the list, whatever the comment at `FileContentDisk.cpp:493` says.
- the removal of all bytes leaves no block; a write in place that fails at the first byte leaves an
  empty one. The next operation fails the assertion.
- `misplaced`: after a save and an undo, `InsertAndApplyModification` takes the new modification
  for the place that was saved (`FileContentBase.cpp:89`): undone again, the text counts as
  unmodified. A save in place that fails half way leaves the file half new.
- `WriteFileTemporary` closes the file before a rename that may fail; after that nothing can be read.
- `WriteToDifferentFile` opens the new file for reading only, so that later saves in place
  fail; if even that fails, `m_FileName` is the new name and `m_File` the old file.

`Write` is modelled for a stretch inside the text, which is all that its callers ask for (one byte
under the cursor, `CharacterView.cpp:59` and `DigitView.cpp:223`); the code (`FileContentBase.cpp:166-179`)
also takes one that reaches the end or lies beyond it.

Left out: `FileContentBuffered` (files up to 4 MB: one vector, no blocks), read errors, the dialogs
by which `WriteFile` may refuse, and `SetModified`, called when the file was deleted outside.

### 9.3 What is proved

`HistoryIsAChain`: in every behaviour of `ByteHistory`, for any bytes, texts and edits, there is
one text for every place of the list; each edit made one into the next, and what is shown is
the text of the present place. Together with `KeepsHistory` this is what a user expects of undo
and redo. The invariant `HInv` is that and the types. The step for `Undo` needs that what was
put in can be taken out again (`RevertedAfterApplied`, from `SplicedBack` and `PartOfText`),
which holds because an edit knows the bytes it replaced (`Fits`); the step for `Edit` cuts the sequence of
texts where it cuts the list. The only assumption is `Data \subseteq Seq(Bytes)`.

`HexKeepsHistory`: `HexContents` implements that history, for a file of any size and
modifications of any length and number. With it `HexIsWhole` (`HexInv`) and
`HexUnmodifiedIsOnDisk` (`UnmodifiedIsOnDisk`); `HexContentsProofs` has all three. The
assumption is `HexAssumption`: the bounds are numbers, the file is not empty, and new
bytes differ from old ones.

What the blocks spell is `FlattenSeq` of what each spells, and says little about a list that
is being cut. The proofs replace it by two relations: a list is `Laid` from one place to
another (no gap, nothing empty, memory as long as it claims), and it `Tell`s of a text over a
file (every block has the bytes of the text at its place). Then

- `TextTold`: a list laid over a whole text that tells of it spells it. This is the only
  induction over data; it is made from the least block for which it would fail
  (`FlattenedParts`), since the naturals are well-founded.
- `SetBlockShows`: `SetBlock` on a list that tells of a text leaves one that tells of the changed
  text. It rests on what each loop does (`OverwrittenShows`, `RemovedShows`, `InsertedShows`),
  these on what becomes of one block, on `MergeBlocks`, and on a lemma about lists
  that are put together from pieces. At the end of the text nothing is inserted
  (`SetBlockAtEnd`): that is `dropped`.
- `OverlayShows` and `PartlyWritten`: the file that a save in place has written up to any byte, and
  the blocks that are left, tell of the same text, unless it failed at the first byte.

The invariant `HexIInv` has types, that the list is laid, empty, or has an empty block in front
(`Whole`), and, as long as the program is `Usable`, that there is a text for every place of the
history, of which the blocks tell at the present place, and which is the file at the place that was
saved (`Traced`). `HexInv` alone is not inductive: that blocks cover a
text says nothing about what undo will find. There is one lemma for each action.

## 10. What is proved, checked, and neither

Proved by TLAPS for all values of the constants: the theorems of 3.3, 4.3, 5.3, 6.3, 7.3, 8.3 and 9.3. Checked
by TLC on the instances above: `GdbAgrees`, and the liveness properties `QueueDrains`, `AbortedWaitersEnd`,
`RequestsAreParsed`, `TurnsEnd`, `DeletionEnds`, `WaitersAreServed`, `BuildsEnd`, `StopEnds` and
`TemporaryBreakEnds`. Out of the prover's reach are liveness under fairness and what depends on `ENABLED`. Induction over data
has no rule that these provers can apply; where a proof needs one, as for `FlattenSeq`, it looks at a least
counterexample instead. There is no recursive operator in the modules with theorems.

Handlers of the GUI thread are atomic between their yields; data races that the C++
memory model makes undefined are modelled by the outcomes that matter
(`ReloadsSchedule`) or listed as hazards.

Not modelled, and why:

- `CountedPtr` counts the holders of a semaphore without a lock or an atomic
  (`cbthreadpool.h:144`). What is right about it is only that the counter is
  right when no two threads count at once; two that do lose a decrement, and the semaphore
  is leaked, or is deleted twice. `ThreadPool` takes the intended outcome (`FreshSemaphores`).
- `NativeParser` and `SystemHeadersThread`: their handlers run to completion on the GUI
  thread and depend on projects, dialogs and configuration; the parser calls they make are the
  inputs of `ParserSchedule`, in any order. A place to look at
  when that is done is `systemheadersthread.cpp:143`: a directory is in the shared map before it is read.
- `ThreadSearch`: one worker, an array of events and a timer. Stopping relies on sleeping two
  periods of the timer (`ThreadSearchView.cpp:872`), an argument about time.
- the tokens and the search tree, the tokenizer, and what a file's text parses to: sequential
  algorithms on text, whose interesting inputs are far larger than an instance.
- `IPC`: nothing creates the class. Cscope, the file explorer and the directory monitor: a
  process or thread each at the edge of the program.
- the application's shutdown, the failure of `wxThread::GetCPUCount()`, messages and
  logging, and the parts listed as such in `PROJECT.json`, each with its reason.
- vendored code (Scintilla, wxPropertyGrid, AStyle, hunspell, Squirrel, TinyXML,
  compression libraries), which is most of the repository's lines.

## 11. Running the checks

In this directory: `tlc -config <run>.cfg <module>` for a run, where the module is the `MC`
module of the component (`HexContents` itself for `hex_edit`), and `tlapm` on each of
`ThreadPoolProofs.tla` (two minutes), `ParserScheduleProofs.tla` (two),
`CompilerBuildProofs.tla`, `HexContentsProofs.tla` and `DebuggerQueueProofs.tla` (five to six each),
`FileSaveProofs.tla`, `FileLoadingProofs.tla`, `ByteHistoryProofs.tla`
for the proofs. With two workers
`debug_session` takes about three minutes, `pool_resize` two and a half, `save_all` one and
a half, `hex_edit` one, and the others less.
