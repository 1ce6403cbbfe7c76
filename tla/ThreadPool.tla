----------------------------- MODULE ThreadPool -----------------------------
(* The task pool of the SDK: src/include/cbthreadpool.h, src/sdk/cbthreadpool.cpp.
   A pool owns a queue of tasks and a generation of worker threads that share one
   counting semaphore. Resizing the pool aborts the whole generation and starts
   another one on another semaphore, so workers of several generations can be alive
   at the same time.

   Every critical section of m_Mutex is one step; a worker's program counter
   stands before the next of them, or before the next read of its m_abort, which
   the code does without a lock.                                             *)
EXTENDS Integers, Sequences, FiniteSets

CONSTANTS
    Workers,         \* names for cbWorkerThread objects; the bound on live threads
    Semaphores,      \* names for wxSemaphore objects
    Tasks,           \* the cbThreadedTask objects handed to the pool, once each
    AutoDelete,      \* the tasks that are added with autodelete = true
    NoTask, NoSem,   \* the null pointers
    Sizes,           \* the arguments SetConcurrentThreads is called with
    CPUCount,        \* what wxThread::GetCPUCount() answers
    InitialThreads,  \* the constructor's concurrentThreads
    ReloadsSchedule  \* does the build load m_concurrentThreadsSchedule twice in
                     \* WaitingThread (lines 149 and 151)? Another thread writes it
                     \* without a lock, so the two loads may differ

ASSUME PoolAssumption ==
    /\ IsFiniteSet(Workers) /\ IsFiniteSet(Tasks)
    /\ NoTask \notin Tasks /\ NoSem \notin Semaphores
    /\ AutoDelete \subseteq Tasks /\ Sizes \subseteq Int
    /\ CPUCount \in Nat \ {0} /\ InitialThreads \in Nat \ {0}
    /\ ReloadsSchedule \in BOOLEAN

VARIABLES
    m_tasksQueue, m_taskAdded, m_batching, m_workingThreads,
    m_concurrentThreads, m_concurrentThreadsSchedule, m_threads, m_semaphore,
    alive,           \* the pool's destructor has not run
    count, max,      \* value and limit of every semaphore
    pc, workingThread, m_abort, m_pTask, element, sem,   \* per worker
    call,            \* the SetConcurrentThreads call in progress, if any
    fate,            \* what became of every task
    aborted, freed,  \* tasks told to Abort(), tasks deleted
    ended, allDone   \* THREADTASK_ENDED and THREADTASK_ALLDONE events posted

queueVars == <<m_tasksQueue, m_taskAdded, m_batching>>
sizeVars  == <<m_concurrentThreads, m_concurrentThreadsSchedule, m_threads, m_semaphore, sem>>
semVars   == <<count, max>>
taskVars  == <<m_pTask, element>>
ghostVars == <<fate, aborted, freed>>
postVars  == <<ended, allDone>>
vars == <<queueVars, sizeVars, semVars, taskVars, ghostVars, postVars,
          m_workingThreads, alive, pc, workingThread, m_abort, call>>

Labels == {"check", "count", "fetch", "store", "guard", "exec", "clear", "done",
           "loop", "leave", "wait", "exit", "dead"}
Fates == {"new", "added", "executed", "removed"}
NoCall == [op |-> "none", size |-> 0]

Lesser(a, b) == IF a <= b THEN a ELSE b
SeqSet(s) == {s[i] : i \in 1..Len(s)}

-----------------------------------------------------------------------------
(* Semaphores: wxSemaphore(0, max). A Post at the limit fails and is ignored;
   a limit of 0 is no limit.                                                 *)
Posted(s, n) == IF max[s] = 0 THEN count[s] + n ELSE Lesser(count[s] + n, max[s])
Post(s, n) == count' = [count EXCEPT ![s] = Posted(s, n)]

(* Broadcast and AwakeNeeded compute the number of idle threads as a signed
   difference and use it as a size_t: below zero it is huge. (The definitions
   named Fault... are the project's mutants, wrong on purpose; see README.md.) *)
FaultBroadcastNumber(working) == m_concurrentThreads - working - 1
BroadcastNumber(working) == m_concurrentThreads - working
AwakeNumber(queued) ==
    LET idle == m_concurrentThreads - m_workingThreads
    IN  IF idle < 0 THEN queued ELSE Lesser(queued, idle)

Goto(w, label) == pc' = [pc EXCEPT ![w] = label]

FreshWorkers == {w \in Workers : pc[w] = "dead"}
(* CountedPtr keeps a semaphore while the pool or a worker points at it.     *)
FaultFreshSemaphores == {m_semaphore}
FreshSemaphores == {s \in Semaphores : s # m_semaphore /\ \A w \in Workers : sem[w] # s}

(* What the tasks of current workers are told by AbortTask.                  *)
AbortedTasks == {m_pTask[w] : w \in m_threads} \ {NoTask}

Init ==
    /\ m_tasksQueue = <<>> /\ m_taskAdded = FALSE /\ m_batching = FALSE
    /\ m_workingThreads = 0
    /\ m_concurrentThreads = InitialThreads /\ m_concurrentThreadsSchedule = 0
    /\ m_threads \in {S \in SUBSET Workers : Cardinality(S) = InitialThreads}
    /\ m_semaphore \in Semaphores
    /\ alive = TRUE
    /\ count = [s \in Semaphores |-> 0]
    /\ max = [s \in Semaphores |-> IF s = m_semaphore THEN InitialThreads ELSE 0]
    /\ pc = [w \in Workers |-> IF w \in m_threads THEN "check" ELSE "dead"]
    /\ sem = [w \in Workers |-> IF w \in m_threads THEN m_semaphore ELSE NoSem]
    /\ workingThread = [w \in Workers |-> FALSE]
    /\ m_abort = [w \in Workers |-> FALSE]
    /\ m_pTask = [w \in Workers |-> NoTask]
    /\ element = [w \in Workers |-> NoTask]
    /\ call = NoCall
    /\ aborted = {} /\ freed = {}
    /\ fate = [t \in Tasks |-> "new"]
    /\ ended = 0 /\ allDone = 0

-----------------------------------------------------------------------------
(* The owner's calls.                                                        *)

AddTask(t) ==
    /\ alive /\ fate[t] = "new"
    /\ m_tasksQueue' = Append(m_tasksQueue, t)
    /\ m_taskAdded' = TRUE
    /\ fate' = [fate EXCEPT ![t] = "added"]
    /\ Post(m_semaphore, IF ~m_batching /\ m_workingThreads < m_concurrentThreads
                         THEN AwakeNumber(Len(m_tasksQueue) + 1) ELSE 0)
    /\ UNCHANGED <<sizeVars, taskVars, postVars, m_batching, m_workingThreads, max,
                   alive, pc, workingThread, m_abort, call, aborted, freed>>

AbortAllTasks ==
    /\ alive
    /\ aborted' = aborted \cup AbortedTasks
    /\ freed' = freed \cup (SeqSet(m_tasksQueue) \cap AutoDelete)
    /\ fate' = [t \in Tasks |-> IF t \in SeqSet(m_tasksQueue) THEN "removed" ELSE fate[t]]
    /\ m_tasksQueue' = <<>>
    /\ UNCHANGED <<sizeVars, semVars, taskVars, postVars, m_taskAdded, m_batching,
                   m_workingThreads, alive, pc, workingThread, m_abort, call>>

BatchBegin ==
    /\ alive
    /\ m_batching' = TRUE
    /\ UNCHANGED <<sizeVars, semVars, taskVars, ghostVars, postVars, m_tasksQueue, m_taskAdded,
                   m_workingThreads, alive, pc, workingThread, m_abort, call>>

FaultBatchEnd ==
    /\ alive
    /\ m_batching' = FALSE
    /\ UNCHANGED <<sizeVars, semVars, taskVars, ghostVars, postVars, m_tasksQueue, m_taskAdded,
                   m_workingThreads, alive, pc, workingThread, m_abort, call>>

BatchEnd ==
    /\ alive
    /\ m_batching' = FALSE
    /\ Post(m_semaphore, AwakeNumber(Len(m_tasksQueue)))
    /\ UNCHANGED <<sizeVars, taskVars, ghostVars, postVars, m_tasksQueue, m_taskAdded, max,
                   m_workingThreads, alive, pc, workingThread, m_abort, call>>

(* The first half of SetConcurrentThreads compares the request with
   m_concurrentThreads before it takes the lock.                             *)
Requested(n) == IF n <= 0 THEN CPUCount ELSE n

SetConcurrentThreads(n) ==
    /\ alive /\ call = NoCall
    /\ call' = [op |-> IF Requested(n) = m_concurrentThreads THEN "clear" ELSE "apply",
                size |-> Requested(n)]
    /\ UNCHANGED <<queueVars, sizeVars, semVars, taskVars, ghostVars, postVars,
                   m_workingThreads, alive, pc, workingThread, m_abort>>

(* The size is the current one: drop a scheduled change, without the lock.   *)
ClearSchedule ==
    /\ alive /\ call.op = "clear"
    /\ m_concurrentThreadsSchedule' = 0
    /\ call' = NoCall
    /\ UNCHANGED <<queueVars, semVars, taskVars, ghostVars, postVars, m_concurrentThreads,
                   m_threads, m_semaphore, sem, m_workingThreads, alive, pc,
                   workingThread, m_abort>>

(* _SetConcurrentThreads on a pool nobody works in: abort the generation, wake
   it, and start n threads on a semaphore of their own. labels is where the
   other workers stand after the step.                                       *)
StartGeneration(n, labels) ==
    \E new \in {S \in SUBSET FreshWorkers : Cardinality(S) = n}, s \in FreshSemaphores :
        /\ m_abort' = [w \in Workers |-> (m_abort[w] \/ w \in m_threads) /\ w \notin new]
        /\ aborted' = aborted \cup AbortedTasks
        /\ count' = [count EXCEPT ![m_semaphore] = Posted(m_semaphore, BroadcastNumber(0)),
                                  ![s] = 0]
        /\ max' = [max EXCEPT ![s] = n]
        /\ m_semaphore' = s
        /\ m_concurrentThreads' = n /\ m_concurrentThreadsSchedule' = 0
        /\ m_threads' = new
        /\ sem' = [w \in Workers |-> IF w \in new THEN s ELSE sem[w]]
        /\ pc' = [w \in Workers |-> IF w \in new THEN "check" ELSE labels[w]]

ApplySize ==
    /\ alive /\ call.op = "apply"
    /\ call' = NoCall
    /\ \/ /\ m_workingThreads = 0
          /\ StartGeneration(call.size, pc)
       \/ /\ m_workingThreads # 0
          /\ m_concurrentThreadsSchedule' = call.size
          /\ UNCHANGED <<m_concurrentThreads, m_threads, m_semaphore, sem, semVars,
                         pc, m_abort, aborted>>
    /\ UNCHANGED <<queueVars, taskVars, postVars, m_workingThreads, alive, workingThread,
                   fate, freed>>

(* ~cbThreadPool. The owner has polled Done() until it was true, as
   Parser::TerminateAllThreads does (parser.cpp:541-550).                    *)
Destroy ==
    /\ alive /\ call = NoCall /\ m_workingThreads = 0
    /\ alive' = FALSE
    /\ m_abort' = [w \in Workers |-> m_abort[w] \/ w \in m_threads]
    /\ aborted' = aborted \cup AbortedTasks
    /\ Post(m_semaphore, BroadcastNumber(m_workingThreads))
    /\ freed' = freed \cup (SeqSet(m_tasksQueue) \cap AutoDelete)
    /\ fate' = [t \in Tasks |-> IF t \in SeqSet(m_tasksQueue) THEN "removed" ELSE fate[t]]
    /\ m_tasksQueue' = <<>>
    /\ UNCHANGED <<sizeVars, taskVars, postVars, m_taskAdded, m_batching, m_workingThreads,
                   max, pc, workingThread, call>>

-----------------------------------------------------------------------------
(* A worker, in the order of cbWorkerThread::Entry. m_abort is only ever set, so
   the two reads at the top of a first iteration are one step, and so are a
   guard that fails inside the loop and the loop condition after it.         *)

(* if (Aborted()) break;  the test between waking up and going to work       *)
Check(w) ==
    /\ pc[w] = "check"
    /\ Goto(w, IF m_abort[w] THEN "exit" ELSE "count")
    /\ UNCHANGED <<queueVars, sizeVars, semVars, taskVars, ghostVars, postVars,
                   m_workingThreads, alive, workingThread, m_abort, call>>

WorkingThread(w) ==
    /\ alive /\ pc[w] = "count"
    /\ m_workingThreads' = m_workingThreads + 1
    /\ workingThread' = [workingThread EXCEPT ![w] = TRUE]
    /\ Goto(w, "fetch")
    /\ UNCHANGED <<queueVars, sizeVars, semVars, taskVars, ghostVars, postVars,
                   alive, m_abort, call>>

Take(w, task, rest) ==
    /\ alive /\ pc[w] = "fetch"
    /\ m_tasksQueue' = rest
    /\ element' = [element EXCEPT ![w] = task]
    /\ Goto(w, "store")
    /\ UNCHANGED <<sizeVars, semVars, ghostVars, postVars, m_taskAdded, m_batching, m_pTask,
                   m_workingThreads, alive, workingThread, m_abort, call>>

FaultGetNextTaskKeeps(w) ==
    Take(w, IF m_tasksQueue = <<>> THEN NoTask ELSE Head(m_tasksQueue), m_tasksQueue)
FaultGetNextTaskClears(w) ==
    Take(w, IF m_tasksQueue = <<>> THEN NoTask ELSE Head(m_tasksQueue), <<>>)
GetNextTask(w) ==
    \/ m_tasksQueue = <<>> /\ Take(w, NoTask, <<>>)
    \/ m_tasksQueue # <<>> /\ Take(w, Head(m_tasksQueue), Tail(m_tasksQueue))

(* m_pTask is published under m_taskMutex; until then AbortTask cannot see it. *)
StoreTask(w) ==
    /\ pc[w] = "store"
    /\ m_pTask' = [m_pTask EXCEPT ![w] = element[w]]
    /\ Goto(w, IF element[w] = NoTask THEN "loop" ELSE "guard")
    /\ UNCHANGED <<queueVars, sizeVars, semVars, ghostVars, postVars, element,
                   m_workingThreads, alive, workingThread, m_abort, call>>

(* if (!Aborted()) around Execute: an aborted worker leaves with its task.   *)
Guard(w) ==
    /\ pc[w] = "guard"
    /\ Goto(w, IF m_abort[w] THEN "exit" ELSE "exec")
    /\ element' = [element EXCEPT ![w] = IF m_abort[w] THEN NoTask ELSE @]
    /\ UNCHANGED <<queueVars, sizeVars, semVars, ghostVars, postVars, m_pTask,
                   m_workingThreads, alive, workingThread, m_abort, call>>

(* The task's Execute() returns.                                             *)
Execute(w) ==
    /\ pc[w] = "exec"
    /\ fate' = [fate EXCEPT ![m_pTask[w]] = "executed"]
    /\ Goto(w, "clear")
    /\ UNCHANGED <<queueVars, sizeVars, semVars, taskVars, postVars, aborted, freed,
                   m_workingThreads, alive, workingThread, m_abort, call>>

FaultClearTask(w) ==
    /\ pc[w] = "clear"
    /\ freed' = freed \cup ({element[w]} \cap AutoDelete)
    /\ element' = [element EXCEPT ![w] = NoTask]
    /\ Goto(w, "done")
    /\ UNCHANGED <<queueVars, sizeVars, semVars, postVars, m_pTask, fate, aborted,
                   m_workingThreads, alive, workingThread, m_abort, call>>

ClearTask(w) ==
    /\ pc[w] = "clear"
    /\ m_pTask' = [m_pTask EXCEPT ![w] = NoTask]
    /\ freed' = freed \cup ({element[w]} \cap AutoDelete)
    /\ element' = [element EXCEPT ![w] = NoTask]
    /\ Goto(w, "done")
    /\ UNCHANGED <<queueVars, sizeVars, semVars, postVars, fate, aborted,
                   m_workingThreads, alive, workingThread, m_abort, call>>

TaskDone(w) ==
    /\ alive /\ pc[w] = "done"
    /\ ended' = ended + 1
    /\ Goto(w, "loop")
    /\ UNCHANGED <<queueVars, sizeVars, semVars, taskVars, ghostVars, allDone,
                   m_workingThreads, alive, workingThread, m_abort, call>>

(* while (!Aborted()) after a task, with workingThread true                  *)
Loop(w) ==
    /\ pc[w] = "loop"
    /\ Goto(w, IF m_abort[w] THEN "exit" ELSE "leave")
    /\ UNCHANGED <<queueVars, sizeVars, semVars, taskVars, ghostVars, postVars,
                   m_workingThreads, alive, workingThread, m_abort, call>>

(* The loads of m_concurrentThreadsSchedule that reach _SetConcurrentThreads *)
ScheduleReads ==
    {m_concurrentThreadsSchedule} \cup
    (IF ReloadsSchedule /\ call.op = "clear" THEN {0} ELSE {})

(* The leaving worker is the last one and leaves nothing behind.              *)
FaultLastOutForgetsQueue == m_workingThreads - 1 <= 0
FaultLastOutForgetsWorkers == m_tasksQueue = <<>>
LastOut == m_workingThreads - 1 <= 0 /\ m_tasksQueue = <<>>

(* WaitingThread() by w, who then stands at label if it answers true. Only the
   thread that starts a new generation gets false, and it breaks to the exit. *)
WaitingThread(w, label) ==
    /\ m_workingThreads' = m_workingThreads - 1
    /\ workingThread' = [workingThread EXCEPT ![w] = FALSE]
    /\ allDone' = IF LastOut /\ m_taskAdded THEN allDone + 1 ELSE allDone
    /\ m_taskAdded' = (m_taskAdded /\ ~LastOut)
    /\ \/ /\ LastOut /\ m_concurrentThreadsSchedule # 0
          /\ \E n \in ScheduleReads : StartGeneration(n, [pc EXCEPT ![w] = "exit"])
       \/ /\ ~(LastOut /\ m_concurrentThreadsSchedule # 0)
          /\ Post(m_semaphore, IF LastOut THEN 0 ELSE 1)
          /\ Goto(w, label)
          /\ UNCHANGED <<sizeVars, max, m_abort, aborted>>
    /\ UNCHANGED <<m_tasksQueue, m_batching, taskVars, fate, freed, ended, alive, call>>

Leave(w) == alive /\ pc[w] = "leave" /\ WaitingThread(w, "wait")

Wait(w) ==
    /\ pc[w] = "wait" /\ count[sem[w]] > 0
    /\ count' = [count EXCEPT ![sem[w]] = @ - 1]
    /\ Goto(w, "check")
    /\ UNCHANGED <<queueVars, sizeVars, max, taskVars, ghostVars, postVars,
                   m_workingThreads, alive, workingThread, m_abort, call>>

(* if (workingThread) m_pPool->WaitingThread();  after the loop              *)
LastLeave(w) == alive /\ pc[w] = "exit" /\ workingThread[w] /\ WaitingThread(w, "exit")

(* Entry returns: the detached thread object and its semaphore reference go,
   and the semaphore with its last owner (CountedPtr::dispose).              *)
Dispose(w, f) ==
    IF sem[w] # m_semaphore /\ \A v \in Workers \ {w} : sem[v] # sem[w]
    THEN [f EXCEPT ![sem[w]] = 0] ELSE f

Die(w) ==
    /\ pc[w] = "exit" /\ ~workingThread[w]
    /\ Goto(w, "dead")
    /\ m_pTask' = [m_pTask EXCEPT ![w] = NoTask]
    /\ sem' = [sem EXCEPT ![w] = NoSem]
    /\ count' = Dispose(w, count) /\ max' = Dispose(w, max)
    /\ m_abort' = [m_abort EXCEPT ![w] = FALSE]
    /\ UNCHANGED <<queueVars, m_concurrentThreads, m_concurrentThreadsSchedule, m_threads,
                   m_semaphore, element, ghostVars, postVars, m_workingThreads,
                   alive, workingThread, call>>

Worker(w) ==
    \/ Check(w) \/ WorkingThread(w) \/ GetNextTask(w) \/ StoreTask(w) \/ Guard(w)
    \/ Execute(w) \/ ClearTask(w) \/ TaskDone(w) \/ Loop(w) \/ Leave(w) \/ Wait(w)
    \/ LastLeave(w) \/ Die(w)

Owner ==
    \/ \E t \in Tasks : AddTask(t)
    \/ AbortAllTasks \/ BatchBegin \/ BatchEnd
    \/ \E n \in Sizes : SetConcurrentThreads(n)
    \/ ClearSchedule \/ ApplySize \/ Destroy

Next == Owner \/ \E w \in Workers : Worker(w)

Spec == Init /\ [][Next]_vars

(* Every started thread keeps running, a SetConcurrentThreads call returns, and
   an owner who began a batch ends it (cbthreadpool.h:80-84 demands it). Nothing
   makes the owner do anything else.                                         *)
Fairness ==
    /\ \A w \in Workers : WF_vars(Worker(w))
    /\ WF_vars(m_batching /\ BatchEnd)
    /\ WF_vars(ClearSchedule \/ ApplySize)

FairSpec == Spec /\ Fairness

-----------------------------------------------------------------------------
(* Properties.                                                               *)

TypeOK ==
    /\ m_tasksQueue \in Seq(Tasks)
    /\ m_taskAdded \in BOOLEAN /\ m_batching \in BOOLEAN /\ alive \in BOOLEAN
    /\ m_workingThreads \in Nat
    /\ m_concurrentThreads \in Nat /\ m_concurrentThreadsSchedule \in Nat
    /\ m_threads \subseteq Workers /\ m_semaphore \in Semaphores
    /\ count \in [Semaphores -> Nat] /\ max \in [Semaphores -> Nat]
    /\ pc \in [Workers -> Labels]
    /\ workingThread \in [Workers -> BOOLEAN] /\ m_abort \in [Workers -> BOOLEAN]
    /\ m_pTask \in [Workers -> Tasks \cup {NoTask}]
    /\ element \in [Workers -> Tasks \cup {NoTask}]
    /\ sem \in [Workers -> Semaphores \cup {NoSem}]
    /\ call \in [op : {"none", "clear", "apply"}, size : Nat]
    /\ aborted \subseteq Tasks /\ freed \subseteq Tasks
    /\ fate \in [Tasks -> Fates]
    /\ ended \in Nat /\ allDone \in Nat

Counted == {w \in Workers : workingThread[w]}
Queued == SeqSet(m_tasksQueue)
Held == {element[w] : w \in Workers} \ {NoTask}

(* m_workingThreads is the number of workers between WorkingThread() and their
   next WaitingThread(), orphans of an earlier generation included: no path of
   Entry (empty queue, abort before or after Execute, resize) leaves the counter
   off by one.                                                               *)
WorkingCount == m_workingThreads = Cardinality(Counted)

(* The pool's own workers are alive, not aborted, wait on the pool's semaphore
   and are as many as m_concurrentThreads says; every other live worker has been
   aborted and holds an older semaphore (_SetConcurrentThreads).             *)
GenerationsApart ==
    alive =>
        /\ Cardinality(m_threads) = m_concurrentThreads
        /\ \A w \in m_threads : pc[w] # "dead" /\ ~m_abort[w] /\ sem[w] = m_semaphore
        /\ \A w \in Workers \ m_threads :
               pc[w] # "dead" => m_abort[w] /\ sem[w] # m_semaphore

(* Outside a batch a waiting task is never forgotten: somebody who will call
   WaitingThread() and post is counted, or the semaphore can be taken, or a
   worker of this generation is on its way to GetNextTask(). AddTask relies on
   it when it does not post because m_workingThreads is at the maximum, and
   WaitingThread when it posts one resource only.                            *)
NoLostWakeup ==
    alive /\ m_tasksQueue # <<>> /\ ~m_batching =>
        \/ Counted # {}
        \/ count[m_semaphore] > 0
        \/ \E w \in m_threads : pc[w] \in {"check", "count"}

(* What makes NoLostWakeup inductive. A worker's local workingThread and its
   place in Entry agree, it leaves Entry only when it was aborted, and as long as
   it lives it owns a semaphore; sizes stay positive (for a build that loads the
   schedule once).                                                           *)
Idle == {"check", "count", "wait", "dead"}
Busy == {"fetch", "store", "guard", "exec", "clear", "done", "loop", "leave"}

LabelsAgree ==
    \A w \in Workers :
        /\ pc[w] \in Idle => ~workingThread[w]
        /\ pc[w] \in Busy => workingThread[w]
        /\ pc[w] = "exit" => m_abort[w]
        /\ sem[w] = NoSem <=> pc[w] = "dead"

SizesPositive ==
    ~ReloadsSchedule =>
        /\ m_concurrentThreads > 0
        /\ call.op # "none" => call.size > 0

PoolInv ==
    /\ TypeOK /\ LabelsAgree /\ SizesPositive
    /\ WorkingCount /\ GenerationsApart /\ (~ReloadsSchedule => NoLostWakeup)

(* Neither the queue nor a worker points at a task that was deleted, so that
   AbortTask, Execute and the destructor never touch one.                    *)
NoDanglingTask ==
    /\ Queued \cap freed = {}
    /\ \A w \in Workers : m_pTask[w] \notin freed /\ element[w] \notin freed

(* A task that was added stays in the queue or with a worker until it is executed
   or removed. The one way out is a worker that a resize aborted after it took
   the task: Entry leaves with it, and nobody hears of it.                   *)
TasksAccountedFor ==
    [][\A t \in Queued \cup Held :
          fate[t] = "added" /\ fate'[t] = "added" =>
              \/ t \in (Queued \cup Held)'
              \/ \E w \in Workers : element[w] = t /\ m_abort[w]]_vars

(* THREADTASK_ALLDONE is posted only when nothing waits, no worker holds a task
   and the THREADTASK_ENDED of every executed task has been posted before it. *)
AllDoneIsLast ==
    [][allDone' # allDone =>
          /\ m_tasksQueue = <<>> /\ Held = {}
          /\ ended = Cardinality({t \in Tasks : fate[t] = "executed"})]_vars

(* The pool is what its interface promises.                                  *)
Promise == INSTANCE TaskPool WITH
    pending <- m_tasksQueue,
    running <- {t \in Held : fate[t] = "added"},
    executed <- {t \in Tasks : fate[t] = "executed"},
    dropped <- {t \in Tasks : \/ fate[t] = "removed"
                              \/ fate[t] = "added" /\ t \notin Queued \cup Held},
    rounds <- allDone,
    open <- m_taskAdded

KeepsPromise == Promise!Spec

(* A task that waits is taken or removed, provided the owner does not resize
   the pool for ever.                                                        *)
QueueDrains ==
    <>[](call = NoCall) => \A t \in Tasks : t \in Queued ~> t \notin Queued

(* A worker aborted while it waits is woken and ends: Broadcast posts enough for
   a whole generation, at a resize and in the destructor.                    *)
AbortedWaitersEnd ==
    \A w \in Workers : m_abort[w] /\ pc[w] = "wait" ~> pc[w] = "dead"
=============================================================================
