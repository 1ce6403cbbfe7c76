-------------------------- MODULE ThreadPoolProofs --------------------------
(* Theorems of ThreadPool. The inductive invariant is PoolInv; every conjunct
   that a step can disturb has a lemma of its own, with one step per action. The
   tasks follow, with TaskInv, and the refinement of TaskPool.                *)
EXTENDS ThreadPool, FiniteSetTheorems, TLAPS

(* What the actions leave alone, for the leaves that need it.                *)
LEMMA PostType ==
    ASSUME TypeOK, NEW s \in Semaphores, NEW n \in Nat
    PROVE  /\ Posted(s, n) \in Nat
           /\ n > 0 => Posted(s, n) > 0
  BY DEF TypeOK, Posted, Lesser

LEMMA AwakeType ==
    ASSUME TypeOK, NEW queued \in Nat
    PROVE  /\ AwakeNumber(queued) \in Nat
           /\ queued > 0 /\ m_workingThreads # m_concurrentThreads => AwakeNumber(queued) > 0
  BY DEF TypeOK, AwakeNumber, Lesser

LEMMA QueueType ==
    ASSUME TypeOK
    PROVE  /\ Len(m_tasksQueue) \in Nat
           /\ Queued \subseteq Tasks
           /\ m_tasksQueue # <<>> => /\ Len(m_tasksQueue) > 0
                                     /\ Head(m_tasksQueue) \in Tasks
                                     /\ Tail(m_tasksQueue) \in Seq(Tasks)
  BY DEF TypeOK, Queued, SeqSet

LEMMA CountedFinite ==
    /\ IsFiniteSet(Counted) /\ Cardinality(Counted) \in Nat
    /\ Cardinality(Counted) > 0 <=> Counted # {}
  <1>1. Counted \in SUBSET Workers BY DEF Counted
  <1>2. IsFiniteSet(Counted) BY <1>1, FS_Subset, PoolAssumption
  <1> QED BY <1>2, FS_CardinalityType, FS_EmptySet

(* A new generation's semaphores, sizes and labels are what they should be.  *)
LEMMA GenerationType ==
    ASSUME TypeOK, NEW n \in Nat, NEW labels \in [Workers -> Labels],
           StartGeneration(n, labels)
    PROVE  /\ m_abort' \in [Workers -> BOOLEAN] /\ aborted' \subseteq Tasks
           /\ count' \in [Semaphores -> Nat] /\ max' \in [Semaphores -> Nat]
           /\ m_semaphore' \in Semaphores /\ m_threads' \subseteq Workers
           /\ m_concurrentThreads' \in Nat /\ m_concurrentThreadsSchedule' \in Nat
           /\ sem' \in [Workers -> Semaphores \cup {NoSem}]
           /\ pc' \in [Workers -> Labels]
  <1>1. PICK new \in SUBSET FreshWorkers, s \in FreshSemaphores :
          /\ m_abort' = [w \in Workers |-> (m_abort[w] \/ w \in m_threads) /\ w \notin new]
          /\ aborted' = aborted \cup AbortedTasks
          /\ count' = [count EXCEPT ![m_semaphore] = Posted(m_semaphore, BroadcastNumber(0)),
                                    ![s] = 0]
          /\ max' = [max EXCEPT ![s] = n]
          /\ m_semaphore' = s
          /\ m_concurrentThreads' = n /\ m_concurrentThreadsSchedule' = 0
          /\ m_threads' = new
          /\ sem' = [w \in Workers |-> IF w \in new THEN s ELSE sem[w]]
          /\ pc' = [w \in Workers |-> IF w \in new THEN "check" ELSE labels[w]]
    BY DEF StartGeneration
  <1>2. s \in Semaphores /\ new \subseteq Workers
    BY DEF FreshSemaphores, FreshWorkers
  <1>3. BroadcastNumber(0) \in Nat BY DEF TypeOK, BroadcastNumber
  <1>4. Posted(m_semaphore, BroadcastNumber(0)) \in Nat
    BY <1>3, PostType DEF TypeOK
  <1>5. AbortedTasks \subseteq Tasks BY DEF TypeOK, AbortedTasks
  <1>6. m_abort' \in [Workers -> BOOLEAN] BY <1>1 DEF TypeOK
  <1>7. count' \in [Semaphores -> Nat] BY <1>1, <1>2, <1>4 DEF TypeOK
  <1>8. pc' \in [Workers -> Labels] BY <1>1 DEF Labels
  <1> QED BY <1>1, <1>2, <1>5, <1>6, <1>7, <1>8 DEF TypeOK

(* The Take of an empty and of a non-empty queue, as one case.               *)
LEMMA TakeType ==
    ASSUME TypeOK, NEW w \in Workers, GetNextTask(w)
    PROVE  \E t \in Tasks \cup {NoTask}, rest \in Seq(Tasks) :
              Take(w, t, rest) /\ (m_tasksQueue = <<>> => rest = <<>>)
  <1>1. <<>> \in Seq(Tasks) OBVIOUS
  <1>2. CASE m_tasksQueue = <<>> BY <1>1, <1>2 DEF GetNextTask
  <1>3. CASE m_tasksQueue # <<>> BY <1>3, QueueType DEF GetNextTask
  <1> QED BY <1>2, <1>3

LEMMA TypeStep == PoolInv /\ [Next]_vars => TypeOK'
  <1> SUFFICES ASSUME PoolInv, [Next]_vars PROVE TypeOK'
    OBVIOUS
  <1> USE DEF queueVars, sizeVars, semVars, taskVars, ghostVars, postVars
  <1>a. TypeOK /\ LabelsAgree /\ WorkingCount BY DEF PoolInv
  <1>1. CASE UNCHANGED vars BY <1>a, <1>1 DEF TypeOK, vars
  <1>2. ASSUME NEW t \in Tasks, AddTask(t) PROVE TypeOK'
    <2>1. AwakeNumber(Len(m_tasksQueue) + 1) \in Nat BY <1>a, AwakeType, QueueType
    <2>2. count' \in [Semaphores -> Nat]
      BY <1>a, <1>2, <2>1, PostType DEF AddTask, Post, TypeOK
    <2> QED BY <1>a, <1>2, <2>2 DEF AddTask, TypeOK, Fates
  <1>3. CASE AbortAllTasks
    BY <1>a, <1>3, QueueType DEF AbortAllTasks, AbortedTasks, TypeOK, Fates, Queued
  <1>4. CASE BatchBegin BY <1>a, <1>4 DEF BatchBegin, TypeOK
  <1>5. CASE BatchEnd
    <2>1. AwakeNumber(Len(m_tasksQueue)) \in Nat BY <1>a, AwakeType, QueueType
    <2>2. count' \in [Semaphores -> Nat]
      BY <1>a, <1>5, <2>1, PostType DEF BatchEnd, Post, TypeOK
    <2> QED BY <1>a, <1>5, <2>2 DEF BatchEnd, TypeOK
  <1>6. ASSUME NEW n \in Sizes, SetConcurrentThreads(n) PROVE TypeOK'
    <2>1. Requested(n) \in Nat BY PoolAssumption DEF Requested
    <2> QED BY <1>a, <1>6, <2>1 DEF SetConcurrentThreads, TypeOK
  <1>7. CASE ClearSchedule BY <1>a, <1>7 DEF ClearSchedule, NoCall, TypeOK
  <1>8. CASE ApplySize
    <2>1. CASE m_workingThreads = 0
      <3>1. StartGeneration(call.size, pc) BY <1>8, <2>1 DEF ApplySize
      <3>2. call.size \in Nat /\ pc \in [Workers -> Labels] BY <1>a DEF TypeOK
      <3> QED BY <1>a, <1>8, <3>1, <3>2, GenerationType DEF ApplySize, NoCall, TypeOK
    <2>2. CASE m_workingThreads # 0
      BY <1>a, <1>8, <2>2 DEF ApplySize, NoCall, TypeOK
    <2> QED BY <2>1, <2>2
  <1>9. CASE Destroy
    <2>1. BroadcastNumber(m_workingThreads) \in Nat
      BY <1>a, <1>9 DEF Destroy, BroadcastNumber, TypeOK
    <2>2. count' \in [Semaphores -> Nat]
      BY <1>a, <1>9, <2>1, PostType DEF Destroy, Post, TypeOK
    <2>3. fate' \in [Tasks -> Fates] BY <1>a, <1>9 DEF Destroy, TypeOK, Fates
    <2>4. aborted' \subseteq Tasks BY <1>a, <1>9 DEF Destroy, AbortedTasks, TypeOK
    <2>5. freed' \subseteq Tasks BY <1>a, <1>9, PoolAssumption DEF Destroy, TypeOK
    <2>6. m_tasksQueue' \in Seq(Tasks) BY <1>9 DEF Destroy
    <2>7. m_abort' \in [Workers -> BOOLEAN] BY <1>a, <1>9 DEF Destroy, TypeOK
    <2> QED BY <1>a, <1>9, <2>2, <2>3, <2>4, <2>5, <2>6, <2>7 DEF Destroy, TypeOK
  <1>10. ASSUME NEW w \in Workers, Worker(w) PROVE TypeOK'
    <2>1. CASE Check(w) BY <1>a, <2>1 DEF Check, Goto, TypeOK, Labels
    <2>2. CASE WorkingThread(w) BY <1>a, <2>2 DEF WorkingThread, Goto, TypeOK, Labels
    <2>3. CASE GetNextTask(w)
      <3>1. PICK t \in Tasks \cup {NoTask}, rest \in Seq(Tasks) : Take(w, t, rest)
        BY <1>a, <2>3, TakeType
      <3> QED BY <1>a, <3>1 DEF Take, Goto, TypeOK, Labels
    <2>4. CASE StoreTask(w) BY <1>a, <2>4 DEF StoreTask, Goto, TypeOK, Labels
    <2>5. CASE Guard(w) BY <1>a, <2>5 DEF Guard, Goto, TypeOK, Labels
    <2>6. CASE Execute(w) BY <1>a, <2>6 DEF Execute, Goto, TypeOK, Labels, Fates
    <2>7. CASE ClearTask(w) BY <1>a, <2>7, PoolAssumption DEF ClearTask, Goto, TypeOK, Labels
    <2>8. CASE TaskDone(w) BY <1>a, <2>8 DEF TaskDone, Goto, TypeOK, Labels
    <2>9. CASE Loop(w) BY <1>a, <2>9 DEF Loop, Goto, TypeOK, Labels
    <2>10. ASSUME NEW label \in Labels, workingThread[w], WaitingThread(w, label)
           PROVE TypeOK'
      <3>1. w \in Counted BY <2>10 DEF Counted
      <3>2. m_workingThreads - 1 \in Nat
        BY <1>a, <3>1, CountedFinite DEF WorkingCount
      <3>x. /\ m_taskAdded' \in BOOLEAN /\ allDone' \in Nat
            /\ workingThread' \in [Workers -> BOOLEAN] /\ m_workingThreads' \in Nat
            /\ UNCHANGED <<m_tasksQueue, m_batching, m_pTask, element, fate, freed, ended,
                           alive, call>>
        BY <1>a, <2>10, <3>2 DEF WaitingThread, LastOut, TypeOK
      <3>3. CASE LastOut /\ m_concurrentThreadsSchedule # 0
        <4>1. PICK n \in ScheduleReads : StartGeneration(n, [pc EXCEPT ![w] = "exit"])
          BY <2>10, <3>3 DEF WaitingThread
        <4>2. n \in Nat BY <1>a DEF ScheduleReads, TypeOK
        <4>3. [pc EXCEPT ![w] = "exit"] \in [Workers -> Labels] BY <1>a DEF TypeOK, Labels
        <4> QED BY <1>a, <3>x, <4>1, <4>2, <4>3, GenerationType DEF TypeOK
      <3>4. CASE ~(LastOut /\ m_concurrentThreadsSchedule # 0)
        <4>1. /\ Post(m_semaphore, IF LastOut THEN 0 ELSE 1)
              /\ Goto(w, label)
              /\ UNCHANGED <<sizeVars, max, m_abort, aborted>>
          BY <2>10, <3>4 DEF WaitingThread
        <4>2. (IF LastOut THEN 0 ELSE 1) \in Nat OBVIOUS
        <4>3. count' \in [Semaphores -> Nat]
          BY <1>a, <4>1, <4>2, PostType DEF Post, TypeOK
        <4> QED BY <1>a, <3>x, <4>1, <4>3 DEF Goto, TypeOK
      <3> QED BY <3>3, <3>4
    <2>11. CASE Leave(w)
      BY <1>a, <2>10, <2>11 DEF Leave, LabelsAgree, Busy, Labels
    <2>12. CASE Wait(w)
      <3>1. sem[w] \in Semaphores BY <1>a, <2>12 DEF Wait, LabelsAgree, TypeOK
      <3> QED BY <1>a, <2>12, <3>1 DEF Wait, Goto, TypeOK, Labels
    <2>13. CASE LastLeave(w) BY <1>a, <2>10, <2>13 DEF LastLeave, Labels
    <2>14. CASE Die(w)
      BY <1>a, <2>14 DEF Die, Dispose, Goto, TypeOK, Labels
    <2> QED BY <1>10, <2>1, <2>2, <2>3, <2>4, <2>5, <2>6, <2>7, <2>8, <2>9, <2>11, <2>12,
               <2>13, <2>14 DEF Worker
  <1> QED BY <1>1, <1>2, <1>3, <1>4, <1>5, <1>6, <1>7, <1>8, <1>9, <1>10 DEF Next, Owner

(* What StartGeneration does to the workers it starts and to the others, when
   labels says dead of the workers that are.                                 *)
Generation(n, labels, new, s) ==
    /\ s # m_semaphore /\ Cardinality(new) = n
    /\ m_semaphore' = s /\ m_threads' = new
    /\ m_concurrentThreads' = n /\ m_concurrentThreadsSchedule' = 0
    /\ \A v \in new :
          /\ pc[v] = "dead"
          /\ pc'[v] = "check" /\ sem'[v] = s /\ ~m_abort'[v]
    /\ \A v \in Workers \ new :
          /\ pc'[v] = labels[v] /\ sem'[v] = sem[v] /\ sem[v] # s
          /\ m_abort'[v] = (m_abort[v] \/ v \in m_threads)

SameDead(labels) == \A v \in Workers : labels[v] = "dead" <=> pc[v] = "dead"

LEMMA GenerationFacts ==
    ASSUME TypeOK, NEW n \in Nat, NEW labels \in [Workers -> Labels],
           StartGeneration(n, labels)
    PROVE  \E new \in SUBSET Workers, s \in Semaphores : Generation(n, labels, new, s)
  <1>1. PICK new \in SUBSET FreshWorkers, s \in FreshSemaphores :
          /\ Cardinality(new) = n
          /\ m_abort' = [w \in Workers |-> (m_abort[w] \/ w \in m_threads) /\ w \notin new]
          /\ m_semaphore' = s
          /\ m_concurrentThreads' = n /\ m_concurrentThreadsSchedule' = 0
          /\ m_threads' = new
          /\ sem' = [w \in Workers |-> IF w \in new THEN s ELSE sem[w]]
          /\ pc' = [w \in Workers |-> IF w \in new THEN "check" ELSE labels[w]]
    BY DEF StartGeneration
  <1>2. new \in SUBSET Workers /\ \A v \in new : pc[v] = "dead" BY DEF FreshWorkers
  <1>3. s \in Semaphores /\ s # m_semaphore /\ \A v \in Workers : sem[v] # s
    BY DEF FreshSemaphores
  <1>4. \A v \in Workers \ new : m_abort'[v] = (m_abort[v] \/ v \in m_threads)
    BY <1>1 DEF TypeOK
  <1>5. \A v \in Workers \ new : pc'[v] = labels[v] /\ sem'[v] = sem[v] BY <1>1
  <1>6. \A v \in new : pc'[v] = "check" /\ sem'[v] = s /\ ~m_abort'[v] BY <1>1, <1>2
  <1>7. Generation(n, labels, new, s)
    BY <1>1, <1>2, <1>3, <1>4, <1>5, <1>6 DEF Generation
  <1> QED BY <1>2, <1>3, <1>7

(* The two callers of StartGeneration.                                       *)
LEMMA ApplyGeneration ==
    ASSUME PoolInv, ApplySize, m_workingThreads = 0
    PROVE  /\ \E new \in SUBSET Workers, s \in Semaphores : Generation(call.size, pc, new, s)
           /\ call.size \in Nat /\ (~ReloadsSchedule => call.size > 0)
           /\ SameDead(pc)
  <1>1. /\ StartGeneration(call.size, pc)
        /\ TypeOK /\ SizesPositive /\ call.op = "apply" BY DEF ApplySize, PoolInv
  <1>2. call.size \in Nat /\ pc \in [Workers -> Labels] BY <1>1 DEF TypeOK
  <1>3. SameDead(pc) BY DEF SameDead
  <1>4. ~ReloadsSchedule => call.size > 0 BY <1>1 DEF SizesPositive
  <1> QED BY <1>1, <1>2, <1>3, <1>4, GenerationFacts

LEMMA LeaveGeneration ==
    ASSUME PoolInv, NEW w \in Workers, NEW label \in Labels, pc[w] # "dead",
           WaitingThread(w, label), LastOut, m_concurrentThreadsSchedule # 0
    PROVE  \E n \in Nat, labels \in [Workers -> Labels],
              new \in SUBSET Workers, s \in Semaphores :
              /\ Generation(n, labels, new, s) /\ (~ReloadsSchedule => n > 0)
              /\ labels = [pc EXCEPT ![w] = "exit"] /\ SameDead(labels)
              /\ w \notin new
  <1> DEFINE labels == [pc EXCEPT ![w] = "exit"]
  <1>1. PICK n \in ScheduleReads : StartGeneration(n, labels)
    BY DEF WaitingThread
  <1>2. n \in Nat /\ (~ReloadsSchedule => n > 0)
    BY DEF ScheduleReads, PoolInv, TypeOK
  <1>3. pc \in [Workers -> Labels] BY DEF PoolInv, TypeOK
  <1>4. labels \in [Workers -> Labels] /\ SameDead(labels) BY <1>3 DEF Labels, SameDead
  <1> HIDE DEF labels
  <1>5. PICK new \in SUBSET Workers, s \in Semaphores : Generation(n, labels, new, s)
    BY <1>1, <1>2, <1>4, GenerationFacts DEF PoolInv
  <1>6. w \notin new BY <1>5 DEF Generation
  <1> QED BY <1>2, <1>4, <1>5, <1>6 DEF labels

(* A step of WaitingThread either leaves the generation alone or starts one. *)
LEMMA LeaveStays ==
    ASSUME NEW w \in Workers, NEW label, WaitingThread(w, label),
           ~(LastOut /\ m_concurrentThreadsSchedule # 0)
    PROVE  /\ Post(m_semaphore, IF LastOut THEN 0 ELSE 1)
           /\ pc' = [pc EXCEPT ![w] = label]
           /\ UNCHANGED <<m_concurrentThreads, m_concurrentThreadsSchedule, m_threads,
                          m_semaphore, sem, max, m_abort, aborted>>
  BY DEF WaitingThread, Goto, sizeVars

LEMMA LabelsStep == PoolInv /\ [Next]_vars => LabelsAgree'
  <1> SUFFICES ASSUME PoolInv, [Next]_vars PROVE LabelsAgree'
    OBVIOUS
  <1> USE DEF queueVars, sizeVars, semVars, taskVars, ghostVars, postVars
  <1>a. TypeOK /\ LabelsAgree /\ GenerationsApart BY DEF PoolInv
  <1>1. CASE UNCHANGED <<pc, workingThread, m_abort, sem>>
    BY <1>a, <1>1 DEF LabelsAgree
  <1>2. CASE ApplySize
    <2>1. CASE m_workingThreads = 0
      <3>1. PICK new \in SUBSET Workers, s \in Semaphores : Generation(call.size, pc, new, s)
        BY <1>2, <2>1, ApplyGeneration
      <3>2. workingThread' = workingThread BY <1>2 DEF ApplySize
      <3> QED BY <1>a, <3>1, <3>2, PoolAssumption DEF Generation, LabelsAgree, Idle, Busy
    <2>2. CASE m_workingThreads # 0
      BY <1>1, <1>2, <2>2 DEF ApplySize
    <2> QED BY <2>1, <2>2
  <1>3. CASE Destroy BY <1>a, <1>3 DEF Destroy, LabelsAgree, TypeOK
  <1>4. ASSUME NEW w \in Workers, Worker(w) PROVE LabelsAgree'
    <2> USE DEF LabelsAgree, Idle, Busy
    <2>1. CASE Check(w) BY <1>a, <2>1 DEF Check, Goto, TypeOK
    <2>2. CASE WorkingThread(w) BY <1>a, <2>2 DEF WorkingThread, Goto, TypeOK
    <2>3. CASE GetNextTask(w) BY <1>a, <2>3 DEF GetNextTask, Take, Goto, TypeOK
    <2>4. CASE StoreTask(w) BY <1>a, <2>4 DEF StoreTask, Goto, TypeOK
    <2>5. CASE Guard(w) BY <1>a, <2>5 DEF Guard, Goto, TypeOK
    <2>6. CASE Execute(w) BY <1>a, <2>6 DEF Execute, Goto, TypeOK
    <2>7. CASE ClearTask(w) BY <1>a, <2>7 DEF ClearTask, Goto, TypeOK
    <2>8. CASE TaskDone(w) BY <1>a, <2>8 DEF TaskDone, Goto, TypeOK
    <2>9. CASE Loop(w) BY <1>a, <2>9 DEF Loop, Goto, TypeOK
    <2>10. ASSUME NEW label \in Labels, label \in {"wait", "exit"}, pc[w] # "dead", alive,
                  label = "exit" => m_abort[w], WaitingThread(w, label)
           PROVE LabelsAgree'
      <3>1. workingThread' = [workingThread EXCEPT ![w] = FALSE]
        BY <2>10 DEF WaitingThread
      <3>2. CASE LastOut /\ m_concurrentThreadsSchedule # 0
        <4>1. PICK n \in Nat, labels \in [Workers -> Labels],
                   new \in SUBSET Workers, s \in Semaphores :
                /\ Generation(n, labels, new, s)
                /\ labels = [pc EXCEPT ![w] = "exit"] /\ w \notin new
          BY <2>10, <3>2, LeaveGeneration
        <4>2. m_abort'[w] BY <1>a, <2>10, <4>1 DEF Generation, GenerationsApart
        <4>3. \A v \in Workers \ new : v # w => pc'[v] = pc[v]
          BY <1>a, <4>1 DEF Generation, TypeOK
        <4>4. pc'[w] = "exit" BY <1>a, <4>1 DEF Generation, TypeOK
        <4>5. \A v \in Workers : v # w => workingThread'[v] = workingThread[v]
          BY <1>a, <3>1 DEF TypeOK
        <4>6. ASSUME NEW v \in new
              PROVE  /\ pc'[v] = "check" /\ ~workingThread'[v] /\ sem'[v] # NoSem
          BY <1>a, <4>1, <4>5, <4>6, PoolAssumption DEF Generation
        <4>7. ASSUME NEW v \in Workers \ new, v # w
              PROVE  /\ pc'[v] = pc[v] /\ workingThread'[v] = workingThread[v]
                     /\ sem'[v] = sem[v] /\ (m_abort[v] => m_abort'[v])
          BY <4>1, <4>3, <4>5, <4>7 DEF Generation
        <4>8. sem'[w] = sem[w] BY <4>1 DEF Generation
        <4> QED BY <1>a, <2>10, <4>2, <4>4, <4>6, <4>7, <4>8
      <3>3. CASE ~(LastOut /\ m_concurrentThreadsSchedule # 0)
        BY <1>a, <2>10, <3>1, <3>3, LeaveStays DEF TypeOK
      <3> QED BY <3>2, <3>3
    <2>11. CASE Leave(w) BY <2>10, <2>11 DEF Leave, Labels
    <2>12. CASE Wait(w) BY <1>a, <2>12 DEF Wait, Goto, TypeOK
    <2>13. CASE LastLeave(w) BY <1>a, <2>10, <2>13 DEF LastLeave, Labels
    <2>14. CASE Die(w) BY <1>a, <2>14 DEF Die, Goto, TypeOK
    <2> QED BY <1>4, <2>1, <2>2, <2>3, <2>4, <2>5, <2>6, <2>7, <2>8, <2>9, <2>11, <2>12,
               <2>13, <2>14 DEF Worker
  <1>5. ASSUME NEW t \in Tasks, AddTask(t) PROVE LabelsAgree'
    BY <1>1, <1>5 DEF AddTask
  <1>6. ASSUME NEW n \in Sizes, SetConcurrentThreads(n) PROVE LabelsAgree'
    BY <1>1, <1>6 DEF SetConcurrentThreads
  <1>7. CASE AbortAllTasks BY <1>1, <1>7 DEF AbortAllTasks
  <1>8. CASE BatchBegin BY <1>1, <1>8 DEF BatchBegin
  <1>9. CASE BatchEnd BY <1>1, <1>9 DEF BatchEnd
  <1>10. CASE ClearSchedule BY <1>1, <1>10 DEF ClearSchedule
  <1>11. CASE UNCHANGED vars BY <1>1, <1>11 DEF vars
  <1> QED BY <1>2, <1>3, <1>4, <1>5, <1>6, <1>7, <1>8, <1>9, <1>10, <1>11 DEF Next, Owner

LEMMA SizesStep == PoolInv /\ [Next]_vars => SizesPositive'
  <1> SUFFICES ASSUME PoolInv, [Next]_vars, ~ReloadsSchedule
               PROVE  m_concurrentThreads' > 0 /\ (call'.op # "none" => call'.size > 0)
    BY DEF SizesPositive
  <1> USE DEF queueVars, sizeVars, semVars, taskVars, ghostVars, postVars
  <1>a. TypeOK /\ SizesPositive BY DEF PoolInv
  <1>1. CASE UNCHANGED <<m_concurrentThreads, call>> BY <1>a, <1>1 DEF SizesPositive
  <1>2. ASSUME NEW n \in Sizes, SetConcurrentThreads(n)
        PROVE  m_concurrentThreads' > 0 /\ call'.size > 0
    BY <1>a, <1>2, PoolAssumption DEF SetConcurrentThreads, Requested, SizesPositive
  <1>3. CASE ClearSchedule BY <1>a, <1>3 DEF ClearSchedule, NoCall, SizesPositive
  <1>4. CASE ApplySize
    <2>1. call' = NoCall BY <1>4 DEF ApplySize
    <2>2. CASE m_workingThreads = 0
      BY <1>4, <2>1, <2>2, ApplyGeneration DEF Generation, NoCall
    <2>3. CASE m_workingThreads # 0
      BY <1>a, <1>4, <2>1, <2>3 DEF ApplySize, NoCall, SizesPositive
    <2> QED BY <2>2, <2>3
  <1>5. ASSUME NEW w \in Workers, Worker(w)
        PROVE  m_concurrentThreads' > 0 /\ (call'.op # "none" => call'.size > 0)
    <2>1. ASSUME NEW label \in Labels, WaitingThread(w, label), pc[w] # "dead"
          PROVE  m_concurrentThreads' > 0 /\ (call'.op # "none" => call'.size > 0)
      <3>1. call' = call BY <2>1 DEF WaitingThread
      <3>2. CASE LastOut /\ m_concurrentThreadsSchedule # 0
        BY <1>a, <2>1, <3>1, <3>2, LeaveGeneration DEF Generation, SizesPositive
      <3>3. CASE ~(LastOut /\ m_concurrentThreadsSchedule # 0)
        BY <1>a, <2>1, <3>1, <3>3, LeaveStays DEF SizesPositive
      <3> QED BY <3>2, <3>3
    <2>2. CASE Leave(w) BY <2>1, <2>2 DEF Leave, Labels
    <2>3. CASE LastLeave(w) BY <2>1, <2>3 DEF LastLeave, Labels
    <2>4. CASE UNCHANGED <<m_concurrentThreads, call>> BY <1>1, <2>4
    <2> QED BY <1>5, <2>2, <2>3, <2>4 DEF Worker, Check, WorkingThread, GetNextTask, Take,
               StoreTask, Guard, Execute, ClearTask, TaskDone, Loop, Wait, Die
  <1>6. CASE UNCHANGED vars BY <1>1, <1>6 DEF vars
  <1> QED BY <1>1, <1>2, <1>3, <1>4, <1>5, <1>6 DEF Next, Owner, AddTask, AbortAllTasks,
             BatchBegin, BatchEnd, Destroy

(* Only WorkingThread() and WaitingThread() touch the counter or the flag.   *)
LEMMA CountStep == PoolInv /\ [Next]_vars => WorkingCount'
  <1> SUFFICES ASSUME PoolInv, [Next]_vars PROVE WorkingCount'
    OBVIOUS
  <1> USE DEF queueVars, sizeVars, semVars, taskVars, ghostVars, postVars
  <1>a. TypeOK /\ LabelsAgree /\ WorkingCount BY DEF PoolInv
  <1>b. IsFiniteSet(Counted) /\ m_workingThreads = Cardinality(Counted)
    BY <1>a, CountedFinite DEF WorkingCount
  <1>1. CASE UNCHANGED <<m_workingThreads, workingThread>>
    BY <1>a, <1>1 DEF WorkingCount, Counted
  <1>2. ASSUME NEW w \in Workers, WorkingThread(w) PROVE WorkingCount'
    <2>1. w \notin Counted BY <1>a, <1>2 DEF WorkingThread, LabelsAgree, Idle, Counted
    <2>2. Counted' = Counted \cup {w} BY <1>a, <1>2 DEF WorkingThread, Counted, TypeOK
    <2>3. m_workingThreads' = m_workingThreads + 1 BY <1>2 DEF WorkingThread
    <2> QED BY <1>b, <2>1, <2>2, <2>3, FS_AddElement DEF WorkingCount
  <1>3. ASSUME NEW w \in Workers, NEW label, WaitingThread(w, label), workingThread[w]
        PROVE  WorkingCount'
    <2>1. w \in Counted BY <1>3 DEF Counted
    <2>2. Counted' = Counted \ {w} BY <1>a, <1>3 DEF WaitingThread, Counted, TypeOK
    <2>3. m_workingThreads' = m_workingThreads - 1 BY <1>3 DEF WaitingThread
    <2> QED BY <1>b, <2>1, <2>2, <2>3, FS_RemoveElement DEF WorkingCount
  <1>4. ASSUME NEW w \in Workers, Worker(w) PROVE WorkingCount'
    <2>1. CASE WorkingThread(w) BY <1>2, <2>1
    <2>2. CASE Leave(w)
      <3>1. workingThread[w] BY <1>a, <2>2 DEF Leave, LabelsAgree, Busy
      <3> QED BY <1>3, <2>2, <3>1 DEF Leave
    <2>3. CASE LastLeave(w) BY <1>3, <2>3 DEF LastLeave
    <2>4. CASE UNCHANGED <<m_workingThreads, workingThread>> BY <1>1, <2>4
    <2> QED BY <1>4, <2>1, <2>2, <2>3, <2>4 DEF Worker, Check, GetNextTask, Take, StoreTask,
               Guard, Execute, ClearTask, TaskDone, Loop, Wait, Die
  <1>5. CASE UNCHANGED vars BY <1>1, <1>5 DEF vars
  <1> QED BY <1>1, <1>4, <1>5 DEF Next, Owner, AddTask, AbortAllTasks, BatchBegin, BatchEnd,
             SetConcurrentThreads, ClearSchedule, ApplySize, Destroy

LEMMA GenerationsStep == PoolInv /\ [Next]_vars => GenerationsApart'
  <1> SUFFICES ASSUME PoolInv, [Next]_vars, alive' PROVE GenerationsApart'
    BY DEF GenerationsApart
  <1> USE DEF queueVars, sizeVars, semVars, taskVars, ghostVars, postVars
  <1>a. TypeOK /\ LabelsAgree /\ GenerationsApart BY DEF PoolInv
  <1>b. alive
    BY <1>a DEF Next, Owner, vars, AddTask, AbortAllTasks, BatchBegin, BatchEnd,
       SetConcurrentThreads, ClearSchedule, ApplySize, Destroy, Worker, Check, WorkingThread,
       GetNextTask, Take, StoreTask, Guard, Execute, ClearTask, TaskDone, Loop, Leave,
       LastLeave, WaitingThread, Wait, Die, TypeOK
  <1>c. ~Destroy BY DEF Destroy
  <1>1. CASE UNCHANGED <<pc, m_abort, sem, m_threads, m_semaphore, m_concurrentThreads>>
    BY <1>a, <1>b, <1>1 DEF GenerationsApart
  <1>2. ASSUME NEW n, NEW labels, NEW new \in SUBSET Workers, NEW s \in Semaphores,
               Generation(n, labels, new, s), SameDead(labels)
        PROVE  GenerationsApart'
    <2>1. Cardinality(m_threads') = m_concurrentThreads' BY <1>2 DEF Generation
    <2>2. \A v \in m_threads' : pc'[v] # "dead" /\ ~m_abort'[v] /\ sem'[v] = m_semaphore'
      BY <1>2 DEF Generation
    <2>3. ASSUME NEW v \in Workers \ m_threads', pc'[v] # "dead"
          PROVE  m_abort'[v] /\ sem'[v] # m_semaphore'
      <3>1. pc[v] # "dead" BY <1>2, <2>3 DEF Generation, SameDead
      <3> QED BY <1>a, <1>b, <1>2, <2>3, <3>1 DEF Generation, GenerationsApart
    <2> QED BY <2>1, <2>2, <2>3 DEF GenerationsApart
  <1>3. CASE ApplySize
    <2>1. CASE m_workingThreads = 0 BY <1>2, <1>3, <2>1, ApplyGeneration
    <2>2. CASE m_workingThreads # 0 BY <1>1, <1>3, <2>2 DEF ApplySize
    <2> QED BY <2>1, <2>2
  (* The worker w moves between labels of a living thread.                   *)
  <1>4. ASSUME NEW w \in Workers, NEW label, label # "dead", pc[w] # "dead",
               pc' = [pc EXCEPT ![w] = label],
               UNCHANGED <<m_abort, sem, m_threads, m_semaphore, m_concurrentThreads>>
        PROVE  GenerationsApart'
    BY <1>a, <1>b, <1>4 DEF GenerationsApart, TypeOK
  <1>5. ASSUME NEW w \in Workers, Worker(w) PROVE GenerationsApart'
    <2>1. ASSUME NEW label \in Labels, label # "dead", WaitingThread(w, label), pc[w] # "dead"
          PROVE  GenerationsApart'
      <3>1. CASE LastOut /\ m_concurrentThreadsSchedule # 0
        BY <1>2, <2>1, <3>1, LeaveGeneration
      <3>2. CASE ~(LastOut /\ m_concurrentThreadsSchedule # 0)
        BY <1>4, <2>1, <3>2, LeaveStays
      <3> QED BY <3>1, <3>2
    <2>2. CASE Leave(w) BY <2>1, <2>2 DEF Leave, Labels
    <2>3. CASE LastLeave(w) BY <2>1, <2>3 DEF LastLeave, Labels
    <2>4. CASE Die(w)
      <3>1. w \notin m_threads BY <1>a, <1>b, <2>4 DEF Die, LabelsAgree, GenerationsApart
      <3>2. /\ pc' = [pc EXCEPT ![w] = "dead"] /\ sem' = [sem EXCEPT ![w] = NoSem]
            /\ m_abort' = [m_abort EXCEPT ![w] = FALSE]
            /\ UNCHANGED <<m_threads, m_semaphore, m_concurrentThreads>>
        BY <2>4 DEF Die, Goto
      <3> QED BY <1>a, <1>b, <3>1, <3>2 DEF GenerationsApart, TypeOK
    <2>5. CASE Check(w) BY <1>4, <2>5 DEF Check, Goto
    <2>6. CASE WorkingThread(w) BY <1>4, <2>6 DEF WorkingThread, Goto
    <2>7. CASE GetNextTask(w) BY <1>4, <2>7 DEF GetNextTask, Take, Goto
    <2>8. CASE StoreTask(w) BY <1>4, <2>8 DEF StoreTask, Goto
    <2>9. CASE Guard(w) BY <1>4, <2>9 DEF Guard, Goto
    <2>10. CASE Execute(w) BY <1>4, <2>10 DEF Execute, Goto
    <2>11. CASE ClearTask(w) BY <1>4, <2>11 DEF ClearTask, Goto
    <2>12. CASE TaskDone(w) BY <1>4, <2>12 DEF TaskDone, Goto
    <2>13. CASE Loop(w) BY <1>4, <2>13 DEF Loop, Goto
    <2>14. CASE Wait(w) BY <1>4, <2>14 DEF Wait, Goto
    <2> QED BY <1>5, <2>2, <2>3, <2>4, <2>5, <2>6, <2>7, <2>8, <2>9, <2>10, <2>11, <2>12,
               <2>13, <2>14 DEF Worker
  <1>6. CASE UNCHANGED vars BY <1>1, <1>6 DEF vars
  <1> QED BY <1>c, <1>1, <1>3, <1>5, <1>6 DEF Next, Owner, AddTask, AbortAllTasks, BatchBegin,
             BatchEnd, SetConcurrentThreads, ClearSchedule

(* The three ways in which somebody is going to look at the queue.           *)
SomebodyComes ==
    \/ Counted # {}
    \/ count[m_semaphore] > 0
    \/ \E w \in m_threads : pc[w] \in {"check", "count"}

LEMMA FullPoolIsCounted ==
    ASSUME PoolInv, ~ReloadsSchedule, m_workingThreads >= m_concurrentThreads
    PROVE  Counted # {}
  <1>1. m_workingThreads > 0 BY DEF PoolInv, SizesPositive, TypeOK
  <1> QED BY <1>1, CountedFinite DEF PoolInv, WorkingCount

LEMMA WakeupStep == PoolInv /\ ~ReloadsSchedule /\ [Next]_vars => NoLostWakeup'
  <1> SUFFICES ASSUME PoolInv, ~ReloadsSchedule, [Next]_vars,
                      alive', m_tasksQueue' # <<>>, ~m_batching'
               PROVE  SomebodyComes'
    BY DEF NoLostWakeup, SomebodyComes
  <1> USE DEF queueVars, sizeVars, semVars, taskVars, ghostVars, postVars
  <1>a. TypeOK /\ LabelsAgree /\ SizesPositive /\ GenerationsApart
    BY DEF PoolInv
  <1>b. alive /\ m_tasksQueue # <<>> /\ ~m_batching => SomebodyComes
    BY DEF PoolInv, NoLostWakeup, SomebodyComes
  <1>c. ~Destroy BY DEF Destroy
  <1>d. alive
    BY <1>a, <1>c DEF Next, Owner, vars, AddTask, AbortAllTasks, BatchBegin, BatchEnd,
       SetConcurrentThreads, ClearSchedule, ApplySize, Worker, Check, WorkingThread,
       GetNextTask, Take, StoreTask, Guard, Execute, ClearTask, TaskDone, Loop, Leave,
       LastLeave, WaitingThread, Wait, Die, TypeOK
  <1>1. CASE UNCHANGED <<m_tasksQueue, m_batching, workingThread, count, m_semaphore,
                         m_threads, pc>>
    BY <1>b, <1>d, <1>1 DEF SomebodyComes, Counted
  (* A post on the pool's semaphore.                                         *)
  <1>2. ASSUME NEW n \in Nat, n > 0, Post(m_semaphore, n), UNCHANGED m_semaphore
        PROVE  SomebodyComes'
    <2>1. m_semaphore \in Semaphores BY <1>a DEF TypeOK
    <2>2. count'[m_semaphore] > 0 BY <1>a, <1>2, <2>1, PostType DEF Post, TypeOK
    <2> QED BY <1>2, <2>2 DEF SomebodyComes
  (* A worker that stays or becomes counted.                                 *)
  <1>3. ASSUME NEW w \in Workers, workingThread'[w] PROVE SomebodyComes'
    BY <1>3 DEF SomebodyComes, Counted
  <1>4. ASSUME NEW n \in Nat, NEW labels, NEW new \in SUBSET Workers, NEW s \in Semaphores,
               Generation(n, labels, new, s), n > 0
        PROVE  SomebodyComes'
    <2>1. new # {}
      <3>1. Cardinality(new) = n BY <1>4 DEF Generation
      <3>2. new = {} => Cardinality(new) = 0 BY FS_EmptySet, Zenon
      <3> QED BY <1>4, <3>1, <3>2, Z3
    <2> QED BY <1>4, <2>1 DEF Generation, SomebodyComes
  <1>5. ASSUME NEW t \in Tasks, AddTask(t) PROVE SomebodyComes'
    <2>1. CASE m_workingThreads < m_concurrentThreads
      <3>1. Post(m_semaphore, AwakeNumber(Len(m_tasksQueue) + 1))
        BY <1>5, <2>1 DEF AddTask
      <3>2. /\ AwakeNumber(Len(m_tasksQueue) + 1) \in Nat
            /\ AwakeNumber(Len(m_tasksQueue) + 1) > 0
        <4>1. Len(m_tasksQueue) + 1 \in Nat /\ Len(m_tasksQueue) + 1 > 0
          BY <1>a, QueueType
        <4>2. m_workingThreads # m_concurrentThreads BY <1>a, <2>1 DEF TypeOK
        <4> HIDE DEF AwakeNumber
        <4> QED BY <1>a, <4>1, <4>2, AwakeType
      <3> QED BY <1>2, <1>5, <3>1, <3>2 DEF AddTask
    <2>2. CASE ~(m_workingThreads < m_concurrentThreads)
      <3>1. Counted # {} BY <1>a, <2>2, FullPoolIsCounted DEF TypeOK
      <3> QED BY <1>5, <3>1 DEF AddTask, SomebodyComes, Counted
    <2> QED BY <2>1, <2>2
  <1>6. CASE AbortAllTasks BY <1>6 DEF AbortAllTasks
  <1>7. CASE BatchBegin BY <1>7 DEF BatchBegin
  <1>8. CASE BatchEnd
    <2>1. m_tasksQueue # <<>> BY <1>8 DEF BatchEnd
    <2>2. CASE m_workingThreads # m_concurrentThreads
      <3>1. Post(m_semaphore, AwakeNumber(Len(m_tasksQueue))) BY <1>8 DEF BatchEnd
      <3>2. AwakeNumber(Len(m_tasksQueue)) \in Nat /\ AwakeNumber(Len(m_tasksQueue)) > 0
        BY <1>a, <2>1, <2>2, QueueType, AwakeType
      <3> QED BY <1>2, <1>8, <3>1, <3>2 DEF BatchEnd
    <2>3. CASE m_workingThreads = m_concurrentThreads
      <3>1. Counted # {} BY <1>a, <2>3, FullPoolIsCounted DEF TypeOK
      <3> QED BY <1>8, <3>1 DEF BatchEnd, SomebodyComes, Counted
    <2> QED BY <2>2, <2>3
  <1>9. ASSUME NEW n \in Sizes, SetConcurrentThreads(n) PROVE SomebodyComes'
    BY <1>1, <1>9 DEF SetConcurrentThreads
  <1>10. CASE ClearSchedule BY <1>1, <1>10 DEF ClearSchedule
  <1>11. CASE ApplySize
    <2>1. CASE m_workingThreads = 0 BY <1>4, <1>11, <2>1, ApplyGeneration
    <2>2. CASE m_workingThreads # 0 BY <1>1, <1>11, <2>2 DEF ApplySize
    <2> QED BY <2>1, <2>2
  <1>12. ASSUME NEW w \in Workers, Worker(w) PROVE SomebodyComes'
    <2>1. ASSUME NEW label \in Labels, WaitingThread(w, label), pc[w] # "dead"
          PROVE  SomebodyComes'
      <3>1. ~LastOut BY <2>1 DEF WaitingThread, LastOut
      <3>2. Post(m_semaphore, 1) /\ UNCHANGED m_semaphore BY <2>1, <3>1, LeaveStays
      <3> QED BY <1>2, <3>2
    <2>2. CASE Leave(w) BY <2>1, <2>2 DEF Leave, Labels
    <2>3. CASE LastLeave(w) BY <2>1, <2>3 DEF LastLeave, Labels
    <2>4. CASE WorkingThread(w) BY <1>a, <1>3, <2>4 DEF WorkingThread, TypeOK
    <2>5. CASE pc[w] \in Busy /\ workingThread' = workingThread
      BY <1>a, <1>3, <2>5 DEF LabelsAgree
    <2>6. CASE GetNextTask(w) BY <2>5, <2>6 DEF GetNextTask, Take, Busy
    <2>7. CASE StoreTask(w) \/ Guard(w) \/ Execute(w) \/ ClearTask(w) \/ TaskDone(w) \/ Loop(w)
      BY <2>5, <2>7 DEF StoreTask, Guard, Execute, ClearTask, TaskDone, Loop, Busy
    <2>8. CASE Check(w)
      <3>1. /\ pc' = [pc EXCEPT ![w] = IF m_abort[w] THEN "exit" ELSE "count"]
            /\ UNCHANGED <<m_tasksQueue, m_batching, workingThread, count, m_semaphore, m_threads>>
        BY <2>8 DEF Check, Goto
      <3>2. w \in m_threads => ~m_abort[w] BY <1>a, <1>d DEF GenerationsApart
      <3>3. SomebodyComes BY <1>b, <1>d, <3>1
      <3> QED BY <1>a, <3>1, <3>2, <3>3 DEF SomebodyComes, Counted, TypeOK
    <2>9. CASE Wait(w)
      <3>1. /\ pc[w] = "wait" /\ pc' = [pc EXCEPT ![w] = "check"]
            /\ count' = [count EXCEPT ![sem[w]] = @ - 1]
            /\ UNCHANGED <<m_tasksQueue, m_batching, workingThread, m_semaphore, m_threads>>
        BY <2>9 DEF Wait, Goto
      <3>2. SomebodyComes BY <1>b, <1>d, <3>1
      <3>3. CASE sem[w] = m_semaphore
        <4>1. w \in m_threads BY <1>a, <1>d, <3>1, <3>3 DEF GenerationsApart
        <4>2. pc'[w] = "check" BY <1>a, <3>1 DEF TypeOK
        <4> QED BY <3>1, <4>1, <4>2 DEF SomebodyComes
      <3>4. CASE sem[w] # m_semaphore
        <4>1. w \notin m_threads BY <1>a, <1>d, <3>4 DEF GenerationsApart
        <4>2. count'[m_semaphore] = count[m_semaphore] BY <1>a, <3>1, <3>4 DEF TypeOK
        <4>3. \A v \in m_threads : pc'[v] = pc[v] BY <1>a, <3>1, <4>1 DEF TypeOK
        <4> QED BY <3>1, <3>2, <4>2, <4>3 DEF SomebodyComes, Counted
      <3> QED BY <3>3, <3>4
    <2>10. CASE Die(w)
      <3>1. w \notin m_threads BY <1>a, <1>d, <2>10 DEF Die, LabelsAgree, GenerationsApart
      <3>2. \A v \in m_threads : pc'[v] = pc[v] BY <1>a, <2>10, <3>1 DEF Die, Goto, TypeOK
      <3>3. count'[m_semaphore] = count[m_semaphore]
        BY <1>a, <2>10 DEF Die, Dispose, TypeOK
      <3>4. UNCHANGED <<m_tasksQueue, m_batching, workingThread, m_semaphore, m_threads>>
        BY <2>10 DEF Die
      <3> QED BY <1>b, <1>d, <3>2, <3>3, <3>4 DEF SomebodyComes, Counted
    <2> QED BY <1>12, <2>2, <2>3, <2>4, <2>6, <2>7, <2>8, <2>9, <2>10 DEF Worker
  <1>13. CASE UNCHANGED vars BY <1>1, <1>13 DEF vars
  <1> QED BY <1>c, <1>5, <1>6, <1>7, <1>8, <1>9, <1>10, <1>11, <1>12, <1>13 DEF Next, Owner

-----------------------------------------------------------------------------
(* Theorems.                                                                 *)

LEMMA InitialInv == Init => PoolInv
  <1> SUFFICES ASSUME Init PROVE PoolInv
    OBVIOUS
  <1>1. TypeOK
    <2>1. /\ m_tasksQueue \in Seq(Tasks)
          /\ m_threads \subseteq Workers
          /\ call \in [op : {"none", "clear", "apply"}, size : Nat]
      <3>1. m_tasksQueue = <<>> BY DEF Init
      <3>2. m_tasksQueue \in Seq(Tasks) BY <3>1
      <3>3. m_threads \subseteq Workers BY DEF Init
      <3>4. call \in [op : {"none", "clear", "apply"}, size : Nat] BY DEF Init, NoCall
      <3> QED BY <3>2, <3>3, <3>4
    <2>4. /\ m_taskAdded \in BOOLEAN /\ m_batching \in BOOLEAN
          /\ alive \in BOOLEAN /\ m_workingThreads \in Nat
          /\ m_concurrentThreads \in Nat /\ m_concurrentThreadsSchedule \in Nat
          /\ m_semaphore \in Semaphores /\ aborted \subseteq Tasks /\ freed \subseteq Tasks
          /\ ended \in Nat /\ allDone \in Nat
      BY PoolAssumption DEF Init
    <2>2. /\ count \in [Semaphores -> Nat] /\ max \in [Semaphores -> Nat]
          /\ pc \in [Workers -> Labels] /\ fate \in [Tasks -> Fates]
      BY PoolAssumption DEF Init, Labels, Fates
    <2>3. /\ workingThread \in [Workers -> BOOLEAN] /\ m_abort \in [Workers -> BOOLEAN]
          /\ m_pTask \in [Workers -> Tasks \cup {NoTask}]
          /\ element \in [Workers -> Tasks \cup {NoTask}]
          /\ sem \in [Workers -> Semaphores \cup {NoSem}]
      BY DEF Init
    <2> QED BY <2>1, <2>2, <2>3, <2>4 DEF TypeOK
  <1>2. LabelsAgree BY PoolAssumption DEF Init, LabelsAgree, Idle, Busy
  <1>3. SizesPositive BY PoolAssumption DEF Init, SizesPositive, NoCall
  <1>4. Counted = {} BY DEF Init, Counted
  <1>5. WorkingCount BY <1>4, FS_EmptySet DEF Init, WorkingCount
  <1>6. GenerationsApart BY DEF Init, GenerationsApart
  <1>7. NoLostWakeup BY DEF Init, NoLostWakeup
  <1> QED BY <1>1, <1>2, <1>3, <1>5, <1>6, <1>7 DEF PoolInv

LEMMA InductiveStep == PoolInv /\ [Next]_vars => PoolInv'
  <1> SUFFICES ASSUME PoolInv, [Next]_vars PROVE PoolInv'
    OBVIOUS
  <1>1. TypeOK' BY TypeStep
  <1>2. LabelsAgree' BY LabelsStep
  <1>3. SizesPositive' BY SizesStep
  <1>4. WorkingCount' BY CountStep
  <1>5. GenerationsApart' BY GenerationsStep
  <1>6. ~ReloadsSchedule => NoLostWakeup' BY WakeupStep
  <1> QED BY <1>1, <1>2, <1>3, <1>4, <1>5, <1>6 DEF PoolInv

(* The inductive invariant of the pool: types, the agreement of every worker's
   flag with its place in Entry, and the conjuncts named below.              *)
THEOREM PoolInvariant == Spec => []PoolInv
  BY InitialInv, InductiveStep, PTL DEF Spec

(* m_workingThreads counts exactly the workers between WorkingThread() and
   WaitingThread(), in every interleaving of resizes, aborts and tasks.      *)
THEOREM CountIsRight == Spec => []WorkingCount
  <1>1. PoolInv => WorkingCount BY DEF PoolInv
  <1> QED BY <1>1, PoolInvariant, PTL

(* Generations of workers do not share a semaphore and all but the newest one
   have been aborted.                                                        *)
THEOREM GenerationsStayApart == Spec => []GenerationsApart
  <1>1. PoolInv => GenerationsApart BY DEF PoolInv
  <1> QED BY <1>1, PoolInvariant, PTL

(* No wake-up is lost, in a build that loads the scheduled size once: outside a
   batch a waiting task always has a worker, or a resource, that leads to it. *)
THEOREM NoWakeupIsLost == ASSUME ~ReloadsSchedule PROVE Spec => []NoLostWakeup
  <1>1. PoolInv => NoLostWakeup BY DEF PoolInv
  <1> QED BY <1>1, PoolInvariant, PTL

-----------------------------------------------------------------------------
(* Tasks: none is lost, none is touched after it was deleted, and the pool is what
   TaskPool promises. What follows builds on PoolInv.                        *)

(* Where a worker stands decides what it points at: element is set between
   GetNextTask and the end of the task, m_pTask from StoreTask on; a worker that
   was aborted before Execute keeps an m_pTask that is nowhere else any more.   *)
WithTask == {"guard", "exec", "clear"}
PlaceInv ==
    \A w \in Workers :
        /\ pc[w] \notin WithTask \cup {"store"} => element[w] = NoTask
        /\ pc[w] \in WithTask => element[w] # NoTask /\ m_pTask[w] = element[w]
        /\ pc[w] \notin WithTask \cup {"exit"} => m_pTask[w] = NoTask
        /\ pc[w] = "exit" /\ m_pTask[w] # NoTask =>
               fate[m_pTask[w]] = "added" /\ m_pTask[w] \notin Queued \cup Held

(* What has become of a task agrees with where it is.                        *)
FateInv ==
    /\ \A t \in Queued : fate[t] = "added"
    /\ \A w \in Workers : element[w] # NoTask =>
           fate[element[w]] = IF pc[w] = "clear" THEN "executed" ELSE "added"
    /\ \A t \in freed : fate[t] \in {"executed", "removed"} /\ t \notin Held

(* A task is in one place only.                                              *)
OnceInv ==
    /\ \A i, j \in 1..Len(m_tasksQueue) : m_tasksQueue[i] = m_tasksQueue[j] => i = j
    /\ \A v, w \in Workers : element[v] = element[w] /\ element[v] # NoTask => v = w
    /\ Queued \cap Held = {}

(* Every executed task has posted its THREADTASK_ENDED, or is about to.      *)
Executed == {t \in Tasks : fate[t] = "executed"}
Ending == {w \in Workers : pc[w] \in {"clear", "done"}}
EndedInv == ended + Cardinality(Ending) = Cardinality(Executed)

TaskInv == PlaceInv /\ FateInv /\ OnceInv /\ EndedInv

-----------------------------------------------------------------------------
(* Steps that move workers between places where they have no task.           *)
Quiet == {"check", "count", "fetch", "loop", "leave", "wait", "dead"}
QuietMoves ==
    \A v \in Workers :
        \/ pc'[v] = pc[v]
        \/ pc[v] \in Quiet /\ pc'[v] \in Quiet \cup {"exit"}
TasksStay == UNCHANGED <<m_tasksQueue, m_pTask, element, fate, freed, ended>>

LEMMA QuietStep ==
    ASSUME TypeOK, TaskInv, TasksStay, QuietMoves
    PROVE  TaskInv'
  <1>1. Queued' = Queued /\ Held' = Held /\ Executed' = Executed
    BY DEF TasksStay, Queued, SeqSet, Held, Executed
  <1>2. PlaceInv' BY <1>1 DEF TaskInv, TasksStay, QuietMoves, Quiet, PlaceInv, WithTask
  <1>3. FateInv' BY <1>1 DEF TaskInv, TasksStay, QuietMoves, Quiet, FateInv
  <1>4. OnceInv' BY <1>1 DEF TaskInv, TasksStay, OnceInv
  <1>5. Ending' = Ending BY DEF QuietMoves, Quiet, Ending
  <1>6. EndedInv' BY <1>1, <1>5 DEF TaskInv, TasksStay, EndedInv
  <1> QED BY <1>2, <1>3, <1>4, <1>6 DEF TaskInv

(* The same for one worker.                                                  *)
LEMMA QuietWorker ==
    ASSUME TypeOK, NEW w \in Workers, NEW label \in Quiet \cup {"exit"}, pc[w] \in Quiet \cup {"exit"},
           pc[w] = "exit" => label = "exit", pc' = [pc EXCEPT ![w] = label]
    PROVE  QuietMoves
  <1>1. \A v \in Workers : v # w => pc'[v] = pc[v] BY DEF TypeOK
  <1>2. pc'[w] = label BY DEF TypeOK
  <1>3. pc'[w] = pc[w] \/ pc[w] \in Quiet BY <1>2
  <1>4. pc'[w] \in Quiet \cup {"exit"} BY <1>2
  <1> QED BY <1>1, <1>3, <1>4, Zenon DEF QuietMoves

LEMMA GenerationIsQuiet ==
    ASSUME TypeOK, NEW n, NEW labels, NEW new \in SUBSET Workers, NEW s,
           Generation(n, labels, new, s),
           \A v \in Workers : labels[v] = pc[v] \/ (pc[v] \in Quiet \cup {"exit"} /\ labels[v] = "exit")
    PROVE  QuietMoves
  BY DEF TypeOK, QuietMoves, Quiet, Generation

LEMMA LeaveIsQuiet ==
    ASSUME PoolInv, NEW w \in Workers, NEW label \in {"wait", "exit"},
           pc[w] = "leave" \/ (pc[w] = "exit" /\ label = "exit"), WaitingThread(w, label)
    PROVE  TasksStay /\ QuietMoves
  <1>1. TasksStay BY DEF TasksStay, WaitingThread, taskVars
  <1>2. TypeOK /\ label \in Labels BY DEF PoolInv, Labels
  <1>3. CASE LastOut /\ m_concurrentThreadsSchedule # 0
    <2>1. PICK n \in Nat, labels \in [Workers -> Labels],
               new \in SUBSET Workers, s \in Semaphores :
            Generation(n, labels, new, s) /\ labels = [pc EXCEPT ![w] = "exit"]
      BY <1>2, <1>3, LeaveGeneration
    <2>2. \A v \in Workers : v # w => labels[v] = pc[v] BY <1>2, <2>1 DEF TypeOK
    <2>3. labels[w] = "exit" /\ pc[w] \in Quiet \cup {"exit"}
      BY <1>2, <2>1 DEF TypeOK, Quiet
    <2>4. \A v \in Workers :
             labels[v] = pc[v] \/ (pc[v] \in Quiet \cup {"exit"} /\ labels[v] = "exit")
      BY <2>2, <2>3, Zenon
    <2>5. QuietMoves BY <1>2, <2>1, <2>4, GenerationIsQuiet
    <2> QED BY <1>1, <2>5
  <1>4. CASE ~(LastOut /\ m_concurrentThreadsSchedule # 0)
    <2>1. pc' = [pc EXCEPT ![w] = label] BY <1>4, LeaveStays
    <2> QED BY <1>1, <1>2, <2>1, QuietWorker DEF Quiet
  <1> QED BY <1>3, <1>4

-----------------------------------------------------------------------------
(* The queue.                                                                *)
LEMMA QueueAppended ==
    ASSUME TypeOK, OnceInv, NEW t \in Tasks, t \notin Queued,
           m_tasksQueue' = Append(m_tasksQueue, t)
    PROVE  /\ Queued' = Queued \cup {t}
           /\ \A i, j \in 1..Len(m_tasksQueue') : m_tasksQueue'[i] = m_tasksQueue'[j] => i = j
  <1> DEFINE n == Len(m_tasksQueue)
  <1>1. /\ n \in Nat /\ Len(m_tasksQueue') = n + 1 /\ m_tasksQueue'[n + 1] = t
        /\ \A i \in 1..n : m_tasksQueue'[i] = m_tasksQueue[i]
    BY DEF TypeOK
  <1>2. \A i \in 1..n : m_tasksQueue[i] \in Queued BY DEF Queued, SeqSet
  <1>3. Queued = {m_tasksQueue[i] : i \in 1..n} BY DEF Queued, SeqSet
  <1>4. Queued' = {m_tasksQueue'[i] : i \in 1..(n + 1)} BY <1>1 DEF Queued, SeqSet
  <1>5. \A i, j \in 1..n : m_tasksQueue[i] = m_tasksQueue[j] => i = j BY DEF OnceInv
  <1> HIDE DEF n
  <1>6. \A i \in 1..(n + 1) : i \in 1..n \/ i = n + 1 BY <1>1
  <1>7. 1..n \subseteq 1..(n + 1) /\ n + 1 \in 1..(n + 1) BY <1>1
  <1>8. Queued' = Queued \cup {t} BY <1>1, <1>3, <1>4, <1>6, <1>7, Zenon
  <1>9. ASSUME NEW i \in 1..(n + 1), NEW j \in 1..(n + 1), m_tasksQueue'[i] = m_tasksQueue'[j]
        PROVE  i = j
    BY <1>1, <1>2, <1>5, <1>6, <1>9
  <1> QED BY <1>1, <1>8, <1>9

LEMMA QueueTaken ==
    ASSUME TypeOK, OnceInv, m_tasksQueue # <<>>, m_tasksQueue' = Tail(m_tasksQueue)
    PROVE  /\ Head(m_tasksQueue) \in Queued
           /\ Queued' = Queued \ {Head(m_tasksQueue)}
           /\ \A i, j \in 1..Len(m_tasksQueue') : m_tasksQueue'[i] = m_tasksQueue'[j] => i = j
  <1> DEFINE n == Len(m_tasksQueue)
             t == Head(m_tasksQueue)
  <1>1. /\ n \in Nat /\ n > 0 /\ Len(m_tasksQueue') = n - 1 /\ t = m_tasksQueue[1]
        /\ \A i \in 1..(n - 1) : m_tasksQueue'[i] = m_tasksQueue[i + 1]
    BY DEF TypeOK
  <1>2. Queued = {m_tasksQueue[i] : i \in 1..n} BY DEF Queued, SeqSet
  <1>3. Queued' = {m_tasksQueue'[i] : i \in 1..(n - 1)} BY <1>1 DEF Queued, SeqSet
  <1>4. \A i, j \in 1..n : m_tasksQueue[i] = m_tasksQueue[j] => i = j BY DEF OnceInv
  <1> HIDE DEF n, t
  <1>5. 1 \in 1..n BY <1>1
  <1>6. t \in Queued BY <1>1, <1>2, <1>5, Zenon
  <1>7. ASSUME NEW u \in Queued' PROVE u \in Queued /\ u # t
    <2>1. PICK i \in 1..(n - 1) : u = m_tasksQueue'[i] BY <1>3, <1>7
    <2>2. u = m_tasksQueue[i + 1] /\ i + 1 \in 1..n /\ i + 1 # 1 BY <1>1, <2>1
    <2> QED BY <1>1, <1>2, <1>4, <1>5, <2>2, Zenon
  <1>8. ASSUME NEW u \in Queued, u # t PROVE u \in Queued'
    <2>1. PICK i \in 1..n : u = m_tasksQueue[i] BY <1>2
    <2>2. i # 1 BY <1>1, <1>8, <2>1
    <2>3. i - 1 \in 1..(n - 1) /\ (i - 1) + 1 = i BY <1>1, <2>1, <2>2
    <2>4. m_tasksQueue'[i - 1] = u BY <1>1, <2>1, <2>3
    <2> QED BY <1>3, <2>3, <2>4, Zenon
  <1>9. ASSUME NEW i \in 1..(n - 1), NEW j \in 1..(n - 1), m_tasksQueue'[i] = m_tasksQueue'[j]
        PROVE  i = j
    <2>1. i + 1 \in 1..n /\ j + 1 \in 1..n BY <1>1
    <2>2. m_tasksQueue[i + 1] = m_tasksQueue[j + 1] BY <1>1, <1>9
    <2> QED BY <1>4, <2>1, <2>2
  <1>10. Queued' = Queued \ {t} BY <1>7, <1>8
  <1> QED BY <1>1, <1>6, <1>9, <1>10 DEF t

LEMMA QueueEmpty ==
    ASSUME m_tasksQueue = <<>>
    PROVE  Queued = {} /\ Len(m_tasksQueue) = 0
  BY DEF Queued, SeqSet

(* What the workers hold.                                                    *)
LEMMA HeldFacts ==
    ASSUME TypeOK
    PROVE  /\ Held \subseteq Tasks
           /\ \A w \in Workers : element[w] # NoTask => element[w] \in Held
           /\ \A t \in Held : t # NoTask /\ \E w \in Workers : element[w] = t
  BY DEF TypeOK, Held

(* A worker takes a task of the queue, or lets go of its own.                *)
LEMMA HeldTaken ==
    ASSUME TypeOK, NEW w \in Workers, element[w] = NoTask, NEW t \in Tasks,
           element' = [element EXCEPT ![w] = t]
    PROVE  Held' = Held \cup {t}
  BY PoolAssumption DEF TypeOK, Held

LEMMA HeldReleased ==
    ASSUME TypeOK, OnceInv, NEW w \in Workers,
           element' = [element EXCEPT ![w] = NoTask]
    PROVE  Held' = Held \ {element[w]}
  BY DEF TypeOK, OnceInv, Held

(* The workers whose task has executed and whose event is not yet posted.     *)
LEMMA EndingFinite ==
    /\ IsFiniteSet(Ending) /\ Cardinality(Ending) \in Nat
    /\ IsFiniteSet(Executed) /\ Cardinality(Executed) \in Nat
  <1>1. Ending \in SUBSET Workers /\ Executed \in SUBSET Tasks BY DEF Ending, Executed
  <1>2. IsFiniteSet(Ending) /\ IsFiniteSet(Executed) BY <1>1, FS_Subset, PoolAssumption
  <1> QED BY <1>2, FS_CardinalityType

-----------------------------------------------------------------------------
(* The steps that do something to a task, one lemma each.                    *)
LEMMA AddStep ==
    ASSUME TypeOK, TaskInv, NEW t \in Tasks, AddTask(t)
    PROVE  TaskInv'
  <1> USE DEF TaskInv
  <1>1. /\ fate[t] = "new" /\ m_tasksQueue' = Append(m_tasksQueue, t)
        /\ fate' = [fate EXCEPT ![t] = "added"]
        /\ UNCHANGED <<pc, m_pTask, element, freed, ended>>
    BY DEF AddTask, taskVars, postVars
  <1>2. t \notin Queued /\ t \notin Held
    BY <1>1, HeldFacts DEF FateInv
  <1>3. /\ Queued' = Queued \cup {t}
        /\ \A i, j \in 1..Len(m_tasksQueue') : m_tasksQueue'[i] = m_tasksQueue'[j] => i = j
    BY <1>1, <1>2, QueueAppended
  <1>4. Held' = Held /\ Ending' = Ending BY <1>1 DEF Held, Ending
  <1>5. \A u \in Tasks : fate'[u] = IF u = t THEN "added" ELSE fate[u]
    BY <1>1 DEF TypeOK
  <1>6. \A w \in Workers : m_pTask[w] # NoTask /\ pc[w] = "exit" => m_pTask[w] # t
    BY <1>1 DEF PlaceInv
  <1>7. PlaceInv'
    BY <1>1, <1>3, <1>4, <1>5, <1>6 DEF PlaceInv, WithTask, TypeOK
  <1>8. FateInv'
    <2>1. \A u \in Queued' : fate'[u] = "added"
      BY <1>3, <1>5, QueueType DEF FateInv
    <2>2. \A w \in Workers : element[w] # NoTask => element[w] # t /\ element[w] \in Tasks
      BY <1>2, HeldFacts DEF TypeOK
    <2>3. \A u \in freed : u # t /\ u \in Tasks BY <1>1 DEF FateInv, TypeOK
    <2> QED BY <1>1, <1>4, <1>5, <2>1, <2>2, <2>3 DEF FateInv
  <1>9. OnceInv' BY <1>1, <1>2, <1>3, <1>4 DEF OnceInv
  <1>10. Executed' = Executed BY <1>1, <1>5 DEF Executed
  <1>11. EndedInv' BY <1>1, <1>4, <1>10 DEF EndedInv
  <1> QED BY <1>7, <1>8, <1>9, <1>11

(* AbortAllTasks and the destructor.                                         *)
Removes ==
    /\ m_tasksQueue' = <<>>
    /\ fate' = [t \in Tasks |-> IF t \in SeqSet(m_tasksQueue) THEN "removed" ELSE fate[t]]
    /\ freed' = freed \cup (SeqSet(m_tasksQueue) \cap AutoDelete)
    /\ UNCHANGED <<pc, m_pTask, element, ended>>

LEMMA RemoveStep ==
    ASSUME TypeOK, TaskInv, Removes
    PROVE  TaskInv'
  <1> USE DEF TaskInv
  <1>1. Queued' = {} BY DEF Removes, Queued, SeqSet
  <1>2. Held' = Held /\ Ending' = Ending BY DEF Removes, Held, Ending
  <1>3. /\ \A u \in Queued : u \in Tasks /\ fate'[u] = "removed"
        /\ \A u \in Tasks \ Queued : fate'[u] = fate[u]
        /\ freed' \subseteq freed \cup Queued
    BY QueueType DEF Removes, Queued
  <1>4. \A w \in Workers :
           /\ element[w] # NoTask => element[w] \in Tasks \ Queued
           /\ pc[w] = "exit" /\ m_pTask[w] # NoTask => m_pTask[w] \in Tasks \ Queued
    BY HeldFacts DEF OnceInv, PlaceInv, TypeOK
  <1>5. PlaceInv' BY <1>1, <1>2, <1>3, <1>4 DEF Removes, PlaceInv, WithTask
  <1>6. FateInv'
    <2>1. \A w \in Workers : element[w] # NoTask =>
             fate'[element[w]] = IF pc[w] = "clear" THEN "executed" ELSE "added"
      BY <1>3, <1>4 DEF FateInv
    <2>2. ASSUME NEW u \in freed' PROVE fate'[u] \in {"executed", "removed"} /\ u \notin Held
      <3>1. CASE u \in Queued BY <1>3, <3>1 DEF OnceInv
      <3>2. CASE u \notin Queued BY <1>3, <2>2, <3>2 DEF FateInv, TypeOK
      <3> QED BY <3>1, <3>2
    <2> QED BY <1>1, <1>2, <2>1, <2>2 DEF Removes, FateInv
  <1>7. OnceInv' BY <1>1, <1>2 DEF Removes, OnceInv
  <1>8. Executed' = Executed
    BY <1>3 DEF Executed, FateInv, TypeOK
  <1>9. EndedInv' BY <1>2, <1>8 DEF Removes, EndedInv
  <1> QED BY <1>5, <1>6, <1>7, <1>9

LEMMA TakeStep ==
    ASSUME TypeOK, TaskInv, NEW w \in Workers, GetNextTask(w)
    PROVE  TaskInv'
  <1> USE DEF TaskInv
  <1>1. /\ pc[w] = "fetch" /\ pc' = [pc EXCEPT ![w] = "store"]
        /\ UNCHANGED <<m_pTask, fate, freed, ended>>
    BY DEF GetNextTask, Take, Goto, ghostVars, postVars
  <1>2. element[w] = NoTask /\ m_pTask[w] = NoTask BY <1>1 DEF PlaceInv, WithTask
  <1>3. /\ pc'[w] = "store" /\ \A v \in Workers : v # w => pc'[v] = pc[v]
    BY <1>1 DEF TypeOK
  <1>4. Ending' = Ending BY <1>1, <1>3 DEF Ending
  <1>5. EndedInv' BY <1>1, <1>4 DEF EndedInv, Executed
  <1>6. CASE m_tasksQueue = <<>>
    <2>1. element' = [element EXCEPT ![w] = NoTask] /\ m_tasksQueue' = m_tasksQueue
      BY <1>6 DEF GetNextTask, Take
    <2>2. element' = element BY <1>2, <2>1 DEF TypeOK
    <2>3. Held' = Held /\ Queued' = Queued BY <2>1, <2>2 DEF Held, Queued, SeqSet
    <2>4. PlaceInv' BY <1>1, <1>2, <1>3, <2>2, <2>3 DEF PlaceInv, WithTask
    <2>5. FateInv' BY <1>1, <1>2, <1>3, <2>2, <2>3 DEF FateInv
    <2>6. OnceInv' BY <2>1, <2>2, <2>3 DEF OnceInv
    <2> QED BY <1>5, <2>4, <2>5, <2>6
  <1>7. CASE m_tasksQueue # <<>>
    <2> DEFINE t == Head(m_tasksQueue)
    <2>1. element' = [element EXCEPT ![w] = t] /\ m_tasksQueue' = Tail(m_tasksQueue)
      BY <1>7 DEF GetNextTask, Take
    <2>2. /\ t \in Queued /\ Queued' = Queued \ {t}
          /\ \A i, j \in 1..Len(m_tasksQueue') : m_tasksQueue'[i] = m_tasksQueue'[j] => i = j
      BY <1>7, <2>1, QueueTaken
    <2>3. t \in Tasks BY <2>2, QueueType
    <2> HIDE DEF t
    <2>4. Held' = Held \cup {t} BY <1>2, <2>1, <2>3, HeldTaken
    <2>5. element'[w] = t /\ \A v \in Workers : v # w => element'[v] = element[v]
      BY <2>1 DEF TypeOK
    <2>6. t \notin Held /\ t # NoTask /\ fate[t] = "added"
      BY <2>2, <2>3, PoolAssumption DEF OnceInv, FateInv
    <2>7. \A v \in Workers : element[v] # NoTask => element[v] # t
      BY <2>6, HeldFacts
    <2>8. PlaceInv'
      <3>1. ASSUME NEW v \in Workers, pc[v] = "exit", m_pTask[v] # NoTask
            PROVE  m_pTask[v] \notin Queued' \cup Held'
        <4>1. m_pTask[v] \notin Queued \cup Held BY <3>1 DEF PlaceInv
        <4> QED BY <2>2, <2>4, <4>1
      <3> QED BY <1>1, <1>2, <1>3, <2>5, <3>1 DEF PlaceInv, WithTask
    <2>9. FateInv'
      <3>1. \A u \in freed : fate[u] # "added" BY DEF FateInv
      <3> QED BY <1>1, <1>3, <2>2, <2>4, <2>5, <2>6, <3>1 DEF FateInv
    <2>10. OnceInv' BY <2>2, <2>4, <2>5, <2>6, <2>7 DEF OnceInv
    <2> QED BY <1>5, <2>8, <2>9, <2>10
  <1> QED BY <1>6, <1>7

LEMMA StoreStep ==
    ASSUME TypeOK, TaskInv, NEW w \in Workers, StoreTask(w)
    PROVE  TaskInv'
  <1> USE DEF TaskInv
  <1>1. /\ pc[w] = "store" /\ m_pTask' = [m_pTask EXCEPT ![w] = element[w]]
        /\ pc' = [pc EXCEPT ![w] = IF element[w] = NoTask THEN "loop" ELSE "guard"]
        /\ UNCHANGED <<m_tasksQueue, element, fate, freed, ended>>
    BY DEF StoreTask, Goto, queueVars, ghostVars, postVars
  <1>2. /\ pc'[w] = (IF element[w] = NoTask THEN "loop" ELSE "guard") /\ m_pTask'[w] = element[w]
        /\ \A v \in Workers : v # w => pc'[v] = pc[v] /\ m_pTask'[v] = m_pTask[v]
    BY <1>1 DEF TypeOK
  <1>3. Held' = Held /\ Queued' = Queued BY <1>1 DEF Held, Queued, SeqSet
  <1>4. Ending' = Ending BY <1>1, <1>2 DEF Ending
  <1>5. PlaceInv' BY <1>1, <1>2, <1>3 DEF PlaceInv, WithTask
  <1>6. FateInv' BY <1>1, <1>2, <1>3 DEF FateInv
  <1>7. OnceInv' BY <1>1, <1>3 DEF OnceInv
  <1>8. EndedInv' BY <1>1, <1>4 DEF EndedInv, Executed
  <1> QED BY <1>5, <1>6, <1>7, <1>8

LEMMA GuardStep ==
    ASSUME TypeOK, TaskInv, NEW w \in Workers, Guard(w)
    PROVE  TaskInv'
  <1> USE DEF TaskInv
  <1>1. /\ pc[w] = "guard" /\ pc' = [pc EXCEPT ![w] = IF m_abort[w] THEN "exit" ELSE "exec"]
        /\ element' = [element EXCEPT ![w] = IF m_abort[w] THEN NoTask ELSE @]
        /\ UNCHANGED <<m_tasksQueue, m_pTask, fate, freed, ended>>
    BY DEF Guard, Goto, queueVars, ghostVars, postVars
  <1>2. /\ pc'[w] = (IF m_abort[w] THEN "exit" ELSE "exec")
        /\ \A v \in Workers : v # w => pc'[v] = pc[v] /\ element'[v] = element[v]
    BY <1>1 DEF TypeOK
  <1>3. Queued' = Queued /\ Ending' = Ending BY <1>1, <1>2 DEF Queued, SeqSet, Ending
  <1>4. EndedInv' BY <1>1, <1>3 DEF EndedInv, Executed
  <1>5. m_pTask[w] = element[w] /\ element[w] # NoTask /\ fate[element[w]] = "added"
    BY <1>1 DEF PlaceInv, WithTask, FateInv
  <1>6. CASE m_abort[w]
    <2>1. element' = [element EXCEPT ![w] = NoTask] BY <1>1, <1>6
    <2>2. Held' = Held \ {element[w]} /\ element'[w] = NoTask
      BY <2>1, HeldReleased DEF TypeOK
    <2>3. element[w] \notin Queued BY <1>5, HeldFacts DEF OnceInv
    <2>4. PlaceInv'
      <3>1. ASSUME NEW v \in Workers, v # w, pc[v] = "exit", m_pTask[v] # NoTask
            PROVE  m_pTask[v] \notin Queued' \cup Held'
        BY <1>3, <2>2, <3>1 DEF PlaceInv
      <3> QED BY <1>1, <1>2, <1>3, <1>5, <1>6, <2>2, <2>3, <3>1 DEF PlaceInv, WithTask
    <2>5. FateInv' BY <1>1, <1>2, <1>3, <2>2 DEF FateInv
    <2>6. OnceInv' BY <1>1, <1>2, <1>3, <2>2 DEF OnceInv
    <2> QED BY <1>4, <2>4, <2>5, <2>6
  <1>7. CASE ~m_abort[w]
    <2>1. element' = element BY <1>1, <1>7 DEF TypeOK
    <2>2. Held' = Held BY <2>1 DEF Held
    <2>3. PlaceInv' BY <1>1, <1>2, <1>3, <1>7, <2>1, <2>2 DEF PlaceInv, WithTask
    <2>4. FateInv' BY <1>1, <1>2, <1>3, <1>7, <2>1, <2>2 DEF FateInv
    <2>5. OnceInv' BY <1>1, <1>3, <2>1, <2>2 DEF OnceInv
    <2> QED BY <1>4, <2>3, <2>4, <2>5
  <1> QED BY <1>6, <1>7

LEMMA ExecuteStep ==
    ASSUME TypeOK, TaskInv, NEW w \in Workers, Execute(w)
    PROVE  TaskInv'
  <1> USE DEF TaskInv
  <1> DEFINE t == element[w]
  <1>1. /\ pc[w] = "exec" /\ pc' = [pc EXCEPT ![w] = "clear"]
        /\ fate' = [fate EXCEPT ![m_pTask[w]] = "executed"]
        /\ UNCHANGED <<m_tasksQueue, m_pTask, element, freed, ended>>
    BY DEF Execute, Goto, queueVars, taskVars, postVars
  <1>2. pc'[w] = "clear" /\ \A v \in Workers : v # w => pc'[v] = pc[v]
    BY <1>1 DEF TypeOK
  <1>3. m_pTask[w] = t /\ t # NoTask /\ t \in Tasks /\ t \in Held /\ t \notin Queued
    BY <1>1, HeldFacts DEF PlaceInv, WithTask, OnceInv
  <1>4. fate[t] = "added" BY <1>1, <1>3 DEF FateInv
  <1>5. fate'[t] = "executed" /\ \A u \in Tasks : u # t => fate'[u] = fate[u]
    BY <1>1, <1>3 DEF TypeOK
  <1>6. Queued' = Queued /\ Held' = Held BY <1>1 DEF Queued, SeqSet, Held
  <1>7. \A v \in Workers : v # w /\ element[v] # NoTask => element[v] # t /\ element[v] \in Tasks
    BY <1>3 DEF OnceInv, TypeOK
  <1> HIDE DEF t
  <1>8. PlaceInv'
    <2>1. ASSUME NEW v \in Workers, pc[v] = "exit", m_pTask[v] # NoTask
          PROVE  fate'[m_pTask[v]] = "added" /\ m_pTask[v] \notin Queued' \cup Held'
      <3>1. m_pTask[v] \notin Queued \cup Held /\ fate[m_pTask[v]] = "added" BY <2>1 DEF PlaceInv
      <3>2. m_pTask[v] # t /\ m_pTask[v] \in Tasks BY <1>3, <2>1, <3>1 DEF TypeOK
      <3> QED BY <1>5, <1>6, <3>1, <3>2
    <2> QED BY <1>1, <1>2, <2>1 DEF PlaceInv, WithTask
  <1>9. FateInv'
    <2>1. \A u \in Queued' : fate'[u] = "added"
      BY <1>3, <1>5, <1>6, QueueType DEF FateInv
    <2>2. ASSUME NEW v \in Workers, element[v] # NoTask
          PROVE  fate'[element[v]] = IF pc'[v] = "clear" THEN "executed" ELSE "added"
      <3>1. CASE v = w BY <1>2, <1>5, <3>1 DEF t
      <3>2. CASE v # w BY <1>2, <1>5, <1>7, <2>2, <3>2 DEF FateInv
      <3> QED BY <3>1, <3>2
    <2>3. \A u \in freed : fate'[u] \in {"executed", "removed"} /\ u \notin Held'
      BY <1>5, <1>6 DEF FateInv, TypeOK
    <2> QED BY <1>1, <2>1, <2>2, <2>3 DEF FateInv
  <1>10. OnceInv' BY <1>1, <1>6 DEF OnceInv
  <1>11. EndedInv'
    <2>1. Executed' = Executed \cup {t} /\ t \notin Executed
      BY <1>3, <1>4, <1>5 DEF Executed
    <2>2. Ending' = Ending \cup {w} /\ w \notin Ending BY <1>1, <1>2 DEF Ending
    <2>3. Cardinality(Executed') = Cardinality(Executed) + 1
      BY <2>1, EndingFinite, FS_AddElement
    <2>4. Cardinality(Ending') = Cardinality(Ending) + 1
      BY <2>2, EndingFinite, FS_AddElement
    <2> QED BY <1>1, <2>3, <2>4, EndingFinite DEF EndedInv, TypeOK
  <1> QED BY <1>8, <1>9, <1>10, <1>11

LEMMA ClearStep ==
    ASSUME TypeOK, TaskInv, NEW w \in Workers, ClearTask(w)
    PROVE  TaskInv'
  <1> USE DEF TaskInv
  <1>1. /\ pc[w] = "clear" /\ pc' = [pc EXCEPT ![w] = "done"]
        /\ m_pTask' = [m_pTask EXCEPT ![w] = NoTask]
        /\ freed' = freed \cup ({element[w]} \cap AutoDelete)
        /\ element' = [element EXCEPT ![w] = NoTask]
        /\ UNCHANGED <<m_tasksQueue, fate, ended>>
    BY DEF ClearTask, Goto, queueVars, postVars
  <1>2. /\ pc'[w] = "done" /\ m_pTask'[w] = NoTask /\ element'[w] = NoTask
        /\ \A v \in Workers : v # w => /\ pc'[v] = pc[v] /\ m_pTask'[v] = m_pTask[v]
                                       /\ element'[v] = element[v]
    BY <1>1 DEF TypeOK
  <1>3. Queued' = Queued /\ Ending' = Ending BY <1>1, <1>2 DEF Queued, SeqSet, Ending
  <1>4. Held' = Held \ {element[w]} BY <1>1, HeldReleased
  <1>5. element[w] # NoTask /\ fate[element[w]] = "executed"
    BY <1>1 DEF PlaceInv, WithTask, FateInv
  <1>6. PlaceInv'
    <2>1. ASSUME NEW v \in Workers, v # w, pc[v] = "exit", m_pTask[v] # NoTask
          PROVE  m_pTask[v] \notin Queued' \cup Held'
      BY <1>3, <1>4, <2>1 DEF PlaceInv
    <2> QED BY <1>1, <1>2, <2>1 DEF PlaceInv, WithTask
  <1>7. FateInv' BY <1>1, <1>2, <1>3, <1>4, <1>5 DEF FateInv
  <1>8. OnceInv' BY <1>1, <1>2, <1>3, <1>4 DEF OnceInv
  <1>9. EndedInv' BY <1>1, <1>3 DEF EndedInv, Executed
  <1> QED BY <1>6, <1>7, <1>8, <1>9

LEMMA DoneStep ==
    ASSUME TypeOK, TaskInv, NEW w \in Workers, TaskDone(w)
    PROVE  TaskInv'
  <1> USE DEF TaskInv
  <1>1. /\ pc[w] = "done" /\ pc' = [pc EXCEPT ![w] = "loop"] /\ ended' = ended + 1
        /\ UNCHANGED <<m_tasksQueue, m_pTask, element, fate, freed>>
    BY DEF TaskDone, Goto, queueVars, taskVars, ghostVars
  <1>2. pc'[w] = "loop" /\ \A v \in Workers : v # w => pc'[v] = pc[v]
    BY <1>1 DEF TypeOK
  <1>3. Queued' = Queued /\ Held' = Held /\ Executed' = Executed
    BY <1>1 DEF Queued, SeqSet, Held, Executed
  <1>4. PlaceInv' BY <1>1, <1>2, <1>3 DEF PlaceInv, WithTask
  <1>5. FateInv' BY <1>1, <1>2, <1>3 DEF FateInv
  <1>6. OnceInv' BY <1>1, <1>3 DEF OnceInv
  <1>7. EndedInv'
    <2>1. Ending' = Ending \ {w} /\ w \in Ending BY <1>1, <1>2 DEF Ending
    <2>2. Cardinality(Ending') = Cardinality(Ending) - 1
      BY <2>1, EndingFinite, FS_RemoveElement
    <2> QED BY <1>1, <1>3, <2>2, EndingFinite DEF EndedInv, TypeOK
  <1> QED BY <1>4, <1>5, <1>6, <1>7

LEMMA DieStep ==
    ASSUME TypeOK, TaskInv, NEW w \in Workers, Die(w)
    PROVE  TaskInv'
  <1> USE DEF TaskInv
  <1>1. /\ pc[w] = "exit" /\ pc' = [pc EXCEPT ![w] = "dead"]
        /\ m_pTask' = [m_pTask EXCEPT ![w] = NoTask]
        /\ UNCHANGED <<m_tasksQueue, element, fate, freed, ended>>
    BY DEF Die, Goto, queueVars, ghostVars, postVars
  <1>2. /\ pc'[w] = "dead" /\ m_pTask'[w] = NoTask
        /\ \A v \in Workers : v # w => pc'[v] = pc[v] /\ m_pTask'[v] = m_pTask[v]
    BY <1>1 DEF TypeOK
  <1>3. Queued' = Queued /\ Held' = Held /\ Executed' = Executed /\ Ending' = Ending
    BY <1>1, <1>2 DEF Queued, SeqSet, Held, Executed, Ending
  <1>4. PlaceInv' BY <1>1, <1>2, <1>3 DEF PlaceInv, WithTask
  <1>5. FateInv' BY <1>1, <1>2, <1>3 DEF FateInv
  <1>6. OnceInv' BY <1>1, <1>3 DEF OnceInv
  <1>7. EndedInv' BY <1>1, <1>3 DEF EndedInv
  <1> QED BY <1>4, <1>5, <1>6, <1>7

-----------------------------------------------------------------------------
(* The steps that do nothing to a task. Only the end of a worker's round touches
   the announcement.                                                         *)
Announcements == UNCHANGED <<allDone, m_taskAdded>>
QuietOwnerStep ==
    \/ BatchBegin \/ BatchEnd \/ \E n \in Sizes : SetConcurrentThreads(n)
    \/ ClearSchedule \/ ApplySize
QuietWorkerStep(w) == Check(w) \/ WorkingThread(w) \/ Loop(w) \/ Wait(w)

LEMMA QuietSteps ==
    ASSUME PoolInv, QuietOwnerStep \/ \E w \in Workers : QuietWorkerStep(w)
    PROVE  TasksStay /\ QuietMoves /\ Announcements
  <1> USE DEF queueVars, sizeVars, semVars, taskVars, ghostVars, postVars,
              TasksStay, Announcements
  <1>a. TypeOK BY DEF PoolInv
  <1>1. CASE pc' = pc /\ TasksStay /\ Announcements BY <1>1 DEF QuietMoves
  <1>2. CASE BatchBegin \/ BatchEnd \/ ClearSchedule \/ \E n \in Sizes : SetConcurrentThreads(n)
    BY <1>1, <1>2 DEF BatchBegin, BatchEnd, ClearSchedule, SetConcurrentThreads
  <1>3. CASE ApplySize
    <2>1. TasksStay /\ Announcements BY <1>3 DEF ApplySize
    <2>2. CASE m_workingThreads = 0
      <3>1. PICK new \in SUBSET Workers, s \in Semaphores : Generation(call.size, pc, new, s)
        BY <1>3, <2>2, ApplyGeneration
      <3>2. \A v \in Workers :
               pc[v] = pc[v] \/ (pc[v] \in Quiet \cup {"exit"} /\ pc[v] = "exit")
        OBVIOUS
      <3>3. QuietMoves BY <1>a, <3>1, <3>2, GenerationIsQuiet
      <3> QED BY <2>1, <3>3
    <2>3. CASE m_workingThreads # 0 BY <1>1, <1>3, <2>1, <2>3 DEF ApplySize
    <2> QED BY <2>2, <2>3
  <1>4. ASSUME NEW w \in Workers, QuietWorkerStep(w)
        PROVE  TasksStay /\ QuietMoves /\ Announcements
    <2>1. TasksStay /\ Announcements
      BY <1>4 DEF QuietWorkerStep, Check, WorkingThread, Loop, Wait
    <2>2. \E label \in Quiet \cup {"exit"} :
             pc[w] \in Quiet /\ pc' = [pc EXCEPT ![w] = label]
      BY <1>4 DEF QuietWorkerStep, Check, WorkingThread, Loop, Wait, Goto, Quiet
    <2>3. pc[w] # "exit" BY <2>2 DEF Quiet
    <2>4. QuietMoves BY <1>a, <2>2, <2>3, QuietWorker
    <2> QED BY <2>1, <2>4
  <1> QED BY <1>2, <1>3, <1>4 DEF QuietOwnerStep

LEMMA LeaveSteps ==
    ASSUME PoolInv, NEW w \in Workers, Leave(w) \/ LastLeave(w)
    PROVE  /\ TasksStay /\ QuietMoves
           /\ workingThread[w] /\ pc[w] \in {"leave", "exit"}
           /\ \E label \in {"wait", "exit"} : WaitingThread(w, label)
  <1>1. CASE Leave(w)
    <2>1. pc[w] = "leave" /\ WaitingThread(w, "wait") BY <1>1 DEF Leave
    <2>2. workingThread[w] BY <2>1 DEF PoolInv, LabelsAgree, Busy
    <2>3. "wait" \in {"wait", "exit"} OBVIOUS
    <2>4. TasksStay /\ QuietMoves BY <2>1, <2>3, LeaveIsQuiet
    <2> QED BY <2>1, <2>2, <2>3, <2>4
  <1>2. CASE LastLeave(w)
    <2>1. pc[w] = "exit" /\ workingThread[w] /\ WaitingThread(w, "exit")
      BY <1>2 DEF LastLeave
    <2>2. "exit" \in {"wait", "exit"} OBVIOUS
    <2>3. TasksStay /\ QuietMoves BY <2>1, <2>2, LeaveIsQuiet
    <2> QED BY <2>1, <2>2, <2>3
  <1> QED BY <1>1, <1>2

LEMMA RemovingSteps ==
    ASSUME AbortAllTasks \/ Destroy
    PROVE  Removes /\ Announcements
  BY DEF AbortAllTasks, Destroy, Removes, Announcements, taskVars, postVars

(* A step of the pool is one of these.                                       *)
LEMMA StepsOfThePool ==
    ASSUME [Next]_vars
    PROVE  \/ UNCHANGED vars
           \/ QuietOwnerStep \/ AbortAllTasks \/ Destroy
           \/ \E t \in Tasks : AddTask(t)
           \/ \E w \in Workers :
                 \/ QuietWorkerStep(w) \/ Leave(w) \/ LastLeave(w)
                 \/ GetNextTask(w) \/ StoreTask(w) \/ Guard(w) \/ Execute(w)
                 \/ ClearTask(w) \/ TaskDone(w) \/ Die(w)
  BY DEF Next, Owner, Worker, QuietOwnerStep, QuietWorkerStep

LEMMA TaskInvStep == PoolInv /\ TaskInv /\ [Next]_vars => TaskInv'
  <1> SUFFICES ASSUME PoolInv, TaskInv, [Next]_vars PROVE TaskInv'
    OBVIOUS
  <1>a. TypeOK BY DEF PoolInv
  <1>1. CASE UNCHANGED vars
    <2>1. TasksStay /\ QuietMoves
      BY <1>1 DEF vars, queueVars, taskVars, ghostVars, postVars, TasksStay, QuietMoves
    <2> QED BY <1>a, <2>1, QuietStep
  <1>2. CASE QuietOwnerStep \/ \E w \in Workers : QuietWorkerStep(w)
    BY <1>a, <1>2, QuietSteps, QuietStep
  <1>3. CASE AbortAllTasks \/ Destroy BY <1>a, <1>3, RemovingSteps, RemoveStep
  <1>4. CASE \E t \in Tasks : AddTask(t) BY <1>a, <1>4, AddStep
  <1>5. ASSUME NEW w \in Workers, Leave(w) \/ LastLeave(w) PROVE TaskInv'
    BY <1>a, <1>5, LeaveSteps, QuietStep
  <1>6. ASSUME NEW w \in Workers, GetNextTask(w) PROVE TaskInv' BY <1>a, <1>6, TakeStep
  <1>7. ASSUME NEW w \in Workers, StoreTask(w) PROVE TaskInv' BY <1>a, <1>7, StoreStep
  <1>8. ASSUME NEW w \in Workers, Guard(w) PROVE TaskInv' BY <1>a, <1>8, GuardStep
  <1>9. ASSUME NEW w \in Workers, Execute(w) PROVE TaskInv' BY <1>a, <1>9, ExecuteStep
  <1>10. ASSUME NEW w \in Workers, ClearTask(w) PROVE TaskInv' BY <1>a, <1>10, ClearStep
  <1>11. ASSUME NEW w \in Workers, TaskDone(w) PROVE TaskInv' BY <1>a, <1>11, DoneStep
  <1>12. ASSUME NEW w \in Workers, Die(w) PROVE TaskInv' BY <1>a, <1>12, DieStep
  <1> QED BY <1>1, <1>2, <1>3, <1>4, <1>5, <1>6, <1>7, <1>8, <1>9, <1>10, <1>11, <1>12,
             StepsOfThePool, Zenon

LEMMA TaskInvInit == Init => TaskInv
  <1> SUFFICES ASSUME Init PROVE TaskInv
    OBVIOUS
  <1>1. Queued = {} /\ Held = {} BY DEF Init, Queued, SeqSet, Held
  <1>2. PlaceInv BY DEF Init, PlaceInv, WithTask
  <1>3. FateInv BY <1>1 DEF Init, FateInv
  <1>4. OnceInv BY <1>1 DEF Init, OnceInv
  <1>5. Ending = {} /\ Executed = {} BY DEF Init, Ending, Executed
  <1>6. EndedInv BY <1>5, FS_EmptySet DEF Init, EndedInv
  <1> QED BY <1>2, <1>3, <1>4, <1>6 DEF TaskInv

(* The inductive invariant of the tasks: where a task is, what has become of it,
   and that it is in one place only.                                         *)
THEOREM TaskInvariant == Spec => [](PoolInv /\ TaskInv)
  <1>1. Init => PoolInv /\ TaskInv BY InitialInv, TaskInvInit
  <1>2. PoolInv /\ TaskInv /\ [Next]_vars => (PoolInv /\ TaskInv)'
    BY InductiveStep, TaskInvStep
  <1> QED BY <1>1, <1>2, PTL DEF Spec

-----------------------------------------------------------------------------
(* What follows from the invariant.                                          *)

(* AbortTask, Execute and the destructor never touch a deleted task, for any number
   of workers and resizes.                                                   *)
THEOREM NoTaskDangles == Spec => []NoDanglingTask
  <1>1. PoolInv /\ TaskInv => NoDanglingTask
    <2> SUFFICES ASSUME PoolInv, TaskInv PROVE NoDanglingTask
      OBVIOUS
    <2>a. TypeOK BY DEF PoolInv
    <2>1. \A t \in freed : t # NoTask /\ fate[t] \in {"executed", "removed"} /\ t \notin Held
      BY <2>a, PoolAssumption DEF TaskInv, FateInv, TypeOK
    <2>2. Queued \cap freed = {} BY <2>1 DEF TaskInv, FateInv
    <2>3. \A w \in Workers : element[w] \notin freed BY <2>a, <2>1, HeldFacts
    <2>4. \A w \in Workers : m_pTask[w] \notin freed
      BY <2>1, <2>3 DEF TaskInv, PlaceInv
    <2> QED BY <2>2, <2>3, <2>4 DEF NoDanglingTask
  <1> QED BY <1>1, TaskInvariant, PTL

(* What happens to the tasks that wait or are held, for the next two theorems.  *)
Running == {t \in Held : fate[t] = "added"}
Dropped == {t \in Tasks : \/ fate[t] = "removed"
                          \/ fate[t] = "added" /\ t \notin Queued \cup Held}

LEMMA QuietMeans ==
    ASSUME TasksStay
    PROVE  /\ Queued' = Queued /\ Held' = Held /\ Running' = Running
           /\ Executed' = Executed /\ Dropped' = Dropped
  BY DEF TasksStay, Queued, SeqSet, Held, Running, Executed, Dropped

(* When the last counted worker leaves, nobody has a task or an event to post.  *)
LEMMA LastOutIsAlone ==
    ASSUME PoolInv, TaskInv, NEW w \in Workers, workingThread[w], pc[w] \in {"leave", "exit"},
           m_workingThreads - 1 <= 0
    PROVE  Held = {} /\ Ending = {}
  <1>1. TypeOK /\ LabelsAgree /\ WorkingCount BY DEF PoolInv
  <1>2. w \in Counted BY DEF Counted
  <1>3. \A v \in Counted : v = w
    <2>1. Cardinality(Counted \ {w}) = Cardinality(Counted) - 1
      BY <1>2, CountedFinite, FS_RemoveElement
    <2>2. IsFiniteSet(Counted \ {w}) BY CountedFinite, FS_Subset
    <2>3. Cardinality(Counted) > 0 BY <1>2, CountedFinite
    <2>4. Cardinality(Counted \ {w}) = 0
      BY <1>1, <2>1, <2>3, CountedFinite DEF WorkingCount
    <2>5. Counted \ {w} = {} BY <2>2, <2>4, FS_EmptySet
    <2> QED BY <2>5
  <1>4. \A v \in Workers : pc[v] \in WithTask \cup {"store", "done"} => FALSE
    BY <1>1, <1>3 DEF LabelsAgree, Busy, Counted, WithTask
  <1>5. \A v \in Workers : element[v] = NoTask BY <1>4 DEF TaskInv, PlaceInv
  <1>6. Ending = {} BY <1>4 DEF Ending, WithTask
  <1>7. Held = {} BY <1>5 DEF Held
  <1> QED BY <1>6, <1>7

LEMMA AnnouncementStep ==
    ASSUME PoolInv, TaskInv, NEW w \in Workers, Leave(w) \/ LastLeave(w)
    PROVE  \/ UNCHANGED <<allDone, m_taskAdded>>
           \/ /\ m_taskAdded /\ ~m_taskAdded' /\ allDone' = allDone + 1
              /\ m_tasksQueue = <<>> /\ Held = {} /\ Ending = {}
  <1>1. PICK label \in {"wait", "exit"} : WaitingThread(w, label) BY LeaveSteps
  <1>2. /\ allDone' = IF LastOut /\ m_taskAdded THEN allDone + 1 ELSE allDone
        /\ m_taskAdded' = (m_taskAdded /\ ~LastOut)
    BY <1>1 DEF WaitingThread
  <1>3. m_taskAdded \in BOOLEAN BY DEF PoolInv, TypeOK
  <1>4. CASE LastOut /\ m_taskAdded
    <2>1. m_tasksQueue = <<>> /\ m_workingThreads - 1 <= 0 BY <1>4 DEF LastOut
    <2>2. workingThread[w] /\ pc[w] \in {"leave", "exit"} BY LeaveSteps
    <2>3. Held = {} /\ Ending = {} BY <2>1, <2>2, LastOutIsAlone
    <2> QED BY <1>2, <1>4, <2>1, <2>3, Zenon
  <1>5. CASE ~(LastOut /\ m_taskAdded)
    <2>1. allDone' = allDone BY <1>2, <1>5
    <2>2. m_taskAdded' = m_taskAdded BY <1>2, <1>3, <1>5, Zenon
    <2> QED BY <2>1, <2>2
  <1> QED BY <1>4, <1>5

(* THREADTASK_ALLDONE comes after everything it is about: the queue is empty, no
   worker has a task, and each executed task has posted its own event.        *)
THEOREM AllDoneComesLast == Spec => AllDoneIsLast
  <1> DEFINE A == allDone' # allDone =>
                     /\ m_tasksQueue = <<>> /\ Held = {}
                     /\ ended = Cardinality({t \in Tasks : fate[t] = "executed"})
  <1>1. PoolInv /\ TaskInv /\ [Next]_vars => [A]_vars
    <2> SUFFICES ASSUME PoolInv, TaskInv, [Next]_vars, allDone' # allDone PROVE A
      OBVIOUS
    <2>1. PICK w \in Workers : Leave(w) \/ LastLeave(w)
      BY QuietSteps, RemovingSteps, StepsOfThePool
         DEF vars, queueVars, taskVars, ghostVars, postVars, Announcements,
             AddTask, GetNextTask, Take, StoreTask, Guard, Execute, ClearTask, TaskDone, Die
    <2>2. m_tasksQueue = <<>> /\ Held = {} /\ Ending = {} BY <2>1, AnnouncementStep
    <2>3. Cardinality(Ending) = 0 BY <2>2, FS_EmptySet
    <2>4. ended = Cardinality(Executed)
      BY <2>3 DEF TaskInv, EndedInv, PoolInv, TypeOK
    <2> QED BY <2>2, <2>4 DEF Executed
  <1> QED BY <1>1, TaskInvariant, PTL DEF Spec, AllDoneIsLast

-----------------------------------------------------------------------------
(* What each step does to where the tasks are.                               *)
LEMMA AddMeans ==
    ASSUME TypeOK, TaskInv, NEW t \in Tasks, AddTask(t)
    PROVE  /\ t \notin Queued \cup Running \cup Executed \cup Dropped
           /\ m_tasksQueue' = Append(m_tasksQueue, t) /\ m_taskAdded'
           /\ UNCHANGED <<Running, Executed, Dropped, allDone>>
           /\ Queued' = Queued \cup {t} /\ Held' = Held
  <1>1. /\ fate[t] = "new" /\ m_tasksQueue' = Append(m_tasksQueue, t) /\ m_taskAdded'
        /\ fate' = [fate EXCEPT ![t] = "added"]
        /\ UNCHANGED <<element, allDone>>
    BY DEF AddTask, taskVars, postVars
  <1>2. t \notin Queued /\ t \notin Held BY <1>1, HeldFacts DEF TaskInv, FateInv
  <1>3. Queued' = Queued \cup {t} BY <1>1, <1>2, QueueAppended DEF TaskInv
  <1>4. Held' = Held BY <1>1 DEF Held
  <1>5. \A u \in Tasks : fate'[u] = IF u = t THEN "added" ELSE fate[u]
    BY <1>1 DEF TypeOK
  <1>6. Running' = Running /\ Executed' = Executed /\ Dropped' = Dropped
    BY <1>1, <1>2, <1>3, <1>4, <1>5, HeldFacts DEF Running, Executed, Dropped
  <1> QED BY <1>1, <1>2, <1>3, <1>4, <1>6 DEF Running, Executed, Dropped

LEMMA RemoveMeans ==
    ASSUME TypeOK, TaskInv, Removes
    PROVE  /\ m_tasksQueue' = <<>> /\ Held' = Held
           /\ Dropped' = Dropped \cup Queued /\ UNCHANGED <<Running, Executed>>
           /\ \A t \in Queued : fate'[t] = "removed"
  <1>1. Queued' = {} /\ Held' = Held BY DEF Removes, Queued, SeqSet, Held
  <1>2. /\ \A u \in Queued : u \in Tasks /\ fate[u] = "added" /\ fate'[u] = "removed"
        /\ \A u \in Tasks \ Queued : fate'[u] = fate[u]
    BY QueueType DEF Removes, Queued, TaskInv, FateInv
  <1>3. Held \cap Queued = {} BY DEF TaskInv, OnceInv
  <1>4. Running' = Running BY <1>1, <1>2, <1>3, HeldFacts DEF Running
  <1>5. Executed' = Executed BY <1>2 DEF Executed
  <1>6. Dropped' = Dropped \cup Queued BY <1>1, <1>2 DEF Dropped
  <1> QED BY <1>1, <1>2, <1>4, <1>5, <1>6 DEF Removes

LEMMA TakeMeans ==
    ASSUME TypeOK, TaskInv, NEW w \in Workers, GetNextTask(w)
    PROVE  /\ UNCHANGED <<fate, Executed, Dropped, allDone, m_taskAdded>>
           /\ \/ UNCHANGED <<m_tasksQueue, element, Queued, Held, Running>>
              \/ /\ m_tasksQueue # <<>> /\ m_tasksQueue' = Tail(m_tasksQueue)
                 /\ Running' = Running \cup {Head(m_tasksQueue)}
                 /\ Held' = Held \cup {Head(m_tasksQueue)}
                 /\ Queued' = Queued \ {Head(m_tasksQueue)}
  <1>1. pc[w] = "fetch" /\ UNCHANGED <<fate, allDone, m_taskAdded>>
    BY DEF GetNextTask, Take, ghostVars, postVars
  <1>2. element[w] = NoTask BY <1>1 DEF TaskInv, PlaceInv, WithTask
  <1>3. Executed' = Executed BY <1>1 DEF Executed
  <1>4. CASE m_tasksQueue = <<>>
    <2>1. element' = [element EXCEPT ![w] = NoTask] /\ m_tasksQueue' = m_tasksQueue
      BY <1>4 DEF GetNextTask, Take
    <2>2. element' = element BY <1>2, <2>1 DEF TypeOK
    <2>3. Held' = Held /\ Queued' = Queued BY <2>1, <2>2 DEF Held, Queued, SeqSet
    <2>4. Running' = Running /\ Dropped' = Dropped BY <1>1, <2>3 DEF Running, Dropped
    <2> QED BY <1>1, <1>3, <2>1, <2>2, <2>3, <2>4
  <1>5. CASE m_tasksQueue # <<>>
    <2> DEFINE t == Head(m_tasksQueue)
    <2>1. element' = [element EXCEPT ![w] = t] /\ m_tasksQueue' = Tail(m_tasksQueue)
      BY <1>5 DEF GetNextTask, Take
    <2>2. t \in Queued /\ Queued' = Queued \ {t} BY <1>5, <2>1, QueueTaken DEF TaskInv
    <2>3. t \in Tasks /\ fate[t] = "added" BY <2>2, QueueType DEF TaskInv, FateInv
    <2> HIDE DEF t
    <2>4. Held' = Held \cup {t} BY <1>2, <2>1, <2>3, HeldTaken
    <2>5. Running' = Running \cup {t} BY <1>1, <2>3, <2>4 DEF Running
    <2>6. Dropped' = Dropped BY <1>1, <2>2, <2>4 DEF Dropped
    <2> QED BY <1>1, <1>3, <1>5, <2>1, <2>2, <2>4, <2>5, <2>6 DEF t
  <1> QED BY <1>4, <1>5

LEMMA GuardMeans ==
    ASSUME TypeOK, TaskInv, NEW w \in Workers, Guard(w)
    PROVE  /\ UNCHANGED <<m_tasksQueue, fate, Queued, Executed, allDone, m_taskAdded>>
           /\ \/ ~m_abort[w] /\ UNCHANGED <<element, Held, Running, Dropped>>
              \/ /\ m_abort[w] /\ element[w] \in Running
                 /\ Held' = Held \ {element[w]}
                 /\ Running' = Running \ {element[w]}
                 /\ Dropped' = Dropped \cup {element[w]}
  <1>1. /\ pc[w] = "guard"
        /\ element' = [element EXCEPT ![w] = IF m_abort[w] THEN NoTask ELSE @]
        /\ UNCHANGED <<m_tasksQueue, fate, allDone, m_taskAdded>>
    BY DEF Guard, queueVars, ghostVars, postVars
  <1>2. Queued' = Queued /\ Executed' = Executed BY <1>1 DEF Queued, SeqSet, Executed
  <1>3. /\ element[w] \in Held /\ fate[element[w]] = "added" /\ element[w] \in Tasks
        /\ element[w] \notin Queued
    BY <1>1, HeldFacts DEF TaskInv, PlaceInv, WithTask, FateInv, OnceInv
  <1>4. CASE m_abort[w]
    <2>1. Held' = Held \ {element[w]} BY <1>1, <1>4, HeldReleased DEF TaskInv
    <2>2. Running' = Running \ {element[w]} BY <1>1, <2>1 DEF Running
    <2>3. Dropped' = Dropped \cup {element[w]} BY <1>1, <1>2, <1>3, <2>1 DEF Dropped
    <2> QED BY <1>1, <1>2, <1>3, <1>4, <2>1, <2>2, <2>3 DEF Running
  <1>5. CASE ~m_abort[w]
    <2>1. element' = element BY <1>1, <1>5 DEF TypeOK
    <2>2. Held' = Held BY <2>1 DEF Held
    <2> QED BY <1>1, <1>2, <1>5, <2>1, <2>2 DEF Running, Dropped
  <1> QED BY <1>4, <1>5

LEMMA ExecuteMeans ==
    ASSUME TypeOK, TaskInv, NEW w \in Workers, Execute(w)
    PROVE  /\ UNCHANGED <<m_tasksQueue, element, Queued, Held, Dropped, allDone, m_taskAdded>>
           /\ element[w] \in Running /\ fate'[element[w]] = "executed"
           /\ Running' = Running \ {element[w]} /\ Executed' = Executed \cup {element[w]}
  <1>1. /\ pc[w] = "exec" /\ fate' = [fate EXCEPT ![m_pTask[w]] = "executed"]
        /\ UNCHANGED <<m_tasksQueue, element, allDone, m_taskAdded>>
    BY DEF Execute, queueVars, taskVars, postVars
  <1>2. /\ m_pTask[w] = element[w] /\ element[w] \in Held /\ element[w] \in Tasks
        /\ fate[element[w]] = "added"
    BY <1>1, HeldFacts DEF TaskInv, PlaceInv, WithTask, FateInv
  <1>3. /\ fate'[element[w]] = "executed"
        /\ \A u \in Tasks : u # element[w] => fate'[u] = fate[u]
    BY <1>1, <1>2 DEF TypeOK
  <1>4. Queued' = Queued /\ Held' = Held BY <1>1 DEF Queued, SeqSet, Held
  <1>5. Running' = Running \ {element[w]} BY <1>2, <1>3, <1>4, HeldFacts DEF Running
  <1>6. Executed' = Executed \cup {element[w]} BY <1>2, <1>3 DEF Executed
  <1>7. Dropped' = Dropped BY <1>2, <1>3, <1>4 DEF Dropped
  <1> QED BY <1>1, <1>2, <1>3, <1>4, <1>5, <1>6, <1>7 DEF Running

LEMMA ClearMeans ==
    ASSUME TypeOK, TaskInv, NEW w \in Workers, ClearTask(w)
    PROVE  /\ UNCHANGED <<m_tasksQueue, fate, Queued, Running, Executed, Dropped, allDone,
                          m_taskAdded>>
           /\ fate[element[w]] = "executed" /\ Held' = Held \ {element[w]}
  <1>1. /\ pc[w] = "clear" /\ element' = [element EXCEPT ![w] = NoTask]
        /\ UNCHANGED <<m_tasksQueue, fate, allDone, m_taskAdded>>
    BY DEF ClearTask, queueVars, postVars
  <1>2. fate[element[w]] = "executed" BY <1>1 DEF TaskInv, PlaceInv, WithTask, FateInv
  <1>3. Held' = Held \ {element[w]} BY <1>1, HeldReleased DEF TaskInv
  <1>4. Queued' = Queued /\ Executed' = Executed BY <1>1 DEF Queued, SeqSet, Executed
  <1>5. Running' = Running /\ Dropped' = Dropped
    BY <1>1, <1>2, <1>3, <1>4 DEF Running, Dropped
  <1> QED BY <1>1, <1>2, <1>3, <1>4, <1>5

LEMMA OthersMean ==
    ASSUME NEW w \in Workers, StoreTask(w) \/ TaskDone(w) \/ Die(w)
    PROVE  UNCHANGED <<m_tasksQueue, fate, Queued, Held, Running, Executed, Dropped, allDone,
                       m_taskAdded>>
  <1>1. UNCHANGED <<m_tasksQueue, element, fate, allDone, m_taskAdded>>
    BY DEF StoreTask, TaskDone, Die, queueVars, taskVars, ghostVars, postVars
  <1> QED BY <1>1 DEF Queued, SeqSet, Held, Running, Executed, Dropped

LEMMA QuietStepsMean ==
    ASSUME TasksStay
    PROVE  UNCHANGED <<m_tasksQueue, fate, Queued, Held, Running, Executed, Dropped>>
  BY QuietMeans DEF TasksStay

-----------------------------------------------------------------------------
(* TaskPool's variables, as KeepsPromise maps them.                          *)
PromiseStays == UNCHANGED <<m_tasksQueue, Running, Executed, Dropped, allDone, m_taskAdded>>

LEMMA PromiseSteps ==
    /\ PromiseStays => UNCHANGED Promise!vars
    /\ \A t \in Tasks :
          /\ t \notin Queued \cup Running \cup Executed \cup Dropped
          /\ m_tasksQueue' = Append(m_tasksQueue, t) /\ m_taskAdded' = TRUE
          /\ UNCHANGED <<Running, Executed, Dropped, allDone>>
          => Promise!Add(t)
    /\ /\ m_tasksQueue # <<>> /\ m_tasksQueue' = Tail(m_tasksQueue)
       /\ Running' = Running \cup {Head(m_tasksQueue)}
       /\ UNCHANGED <<Executed, Dropped, allDone, m_taskAdded>>
       => Promise!Start
    /\ \A t \in Running :
          /\ Running' = Running \ {t} /\ Executed' = Executed \cup {t}
          /\ UNCHANGED <<m_tasksQueue, Dropped, allDone, m_taskAdded>>
          => Promise!Finish(t)
    /\ \A t \in Running :
          /\ Running' = Running \ {t} /\ Dropped' = Dropped \cup {t}
          /\ UNCHANGED <<m_tasksQueue, Executed, allDone, m_taskAdded>>
          => Promise!Abandon(t)
    /\ /\ Dropped' = Dropped \cup Queued /\ m_tasksQueue' = <<>>
       /\ UNCHANGED <<Running, Executed, allDone, m_taskAdded>>
       => Promise!Remove
    /\ /\ m_taskAdded /\ m_tasksQueue = <<>> /\ Running = {}
       /\ m_taskAdded' = FALSE /\ allDone' = allDone + 1
       /\ UNCHANGED <<m_tasksQueue, Running, Executed, Dropped>>
       => Promise!AllDone
  BY Zenon DEF PromiseStays, Running, Executed, Dropped, Queued, SeqSet, Promise!vars, Promise!Add,
     Promise!Start, Promise!Finish, Promise!Abandon, Promise!Remove, Promise!AllDone,
     Promise!Waiting, Promise!Known

LEMMA PromiseInit == Init => Promise!Init
  <1> SUFFICES ASSUME Init PROVE Promise!Init
    OBVIOUS
  <1>1. Held = {} BY DEF Init, Held
  <1>2. {t \in Held : fate[t] = "added"} = {} BY <1>1
  <1>3. {t \in Tasks : fate[t] = "executed"} = {} BY DEF Init
  <1>4. {t \in Tasks : \/ fate[t] = "removed"
                       \/ fate[t] = "added" /\ t \notin Queued \cup Held} = {}
    BY DEF Init
  <1> QED BY <1>2, <1>3, <1>4 DEF Init, Promise!Init

LEMMA PromiseStep == PoolInv /\ TaskInv /\ [Next]_vars => [Promise!Next]_Promise!vars
  <1> SUFFICES ASSUME PoolInv, TaskInv, [Next]_vars
               PROVE  Promise!Next \/ UNCHANGED Promise!vars
    OBVIOUS
  <1>a. TypeOK BY DEF PoolInv
  <1>1. CASE UNCHANGED vars
    BY <1>1 DEF vars, queueVars, taskVars, ghostVars, postVars, Promise!vars, Held, Queued, SeqSet
  <1>2. CASE QuietOwnerStep \/ \E w \in Workers : QuietWorkerStep(w)
    <2>1. TasksStay /\ Announcements BY <1>2, QuietSteps
    <2>2. PromiseStays BY <2>1, QuietStepsMean DEF PromiseStays, Announcements
    <2> QED BY <2>2, PromiseSteps
  <1>3. CASE AbortAllTasks \/ Destroy
    <2>1. Removes /\ Announcements BY <1>3, RemovingSteps
    <2>2. Promise!Remove BY <1>a, <2>1, RemoveMeans, PromiseSteps DEF Announcements
    <2> QED BY <2>2 DEF Promise!Next
  <1>4. ASSUME NEW t \in Tasks, AddTask(t) PROVE Promise!Next
    <2>1. m_taskAdded' = TRUE BY <1>4 DEF AddTask
    <2>2. Promise!Add(t) BY <1>a, <1>4, <2>1, AddMeans, PromiseSteps
    <2> QED BY <2>2 DEF Promise!Next
  <1>5. ASSUME NEW w \in Workers, Leave(w) \/ LastLeave(w)
        PROVE  Promise!Next \/ UNCHANGED Promise!vars
    <2>1. UNCHANGED <<m_tasksQueue, Running, Executed, Dropped>>
      BY <1>5, LeaveSteps, QuietStepsMean
    <2>2. CASE UNCHANGED <<allDone, m_taskAdded>>
      <3>1. PromiseStays BY <2>1, <2>2 DEF PromiseStays
      <3> QED BY <3>1, PromiseSteps
    <2>3. CASE ~UNCHANGED <<allDone, m_taskAdded>>
      <3>1. /\ m_taskAdded /\ ~m_taskAdded' /\ allDone' = allDone + 1
            /\ m_tasksQueue = <<>> /\ Held = {}
        BY <1>5, <2>3, AnnouncementStep
      <3>2. m_taskAdded' \in BOOLEAN BY TypeStep DEF TypeOK
      <3>3. m_taskAdded' = FALSE BY <3>1, <3>2
      <3>4. Running = {} BY <3>1 DEF Running
      <3>5. Promise!AllDone BY <2>1, <3>1, <3>3, <3>4, PromiseSteps
      <3> QED BY <3>5 DEF Promise!Next
    <2> QED BY <2>2, <2>3
  <1>6. ASSUME NEW w \in Workers, GetNextTask(w) PROVE Promise!Next \/ UNCHANGED Promise!vars
    <2>1. CASE UNCHANGED <<m_tasksQueue, Running>>
      <3>1. PromiseStays BY <1>a, <1>6, <2>1, TakeMeans DEF PromiseStays
      <3> QED BY <3>1, PromiseSteps
    <2>2. CASE ~UNCHANGED <<m_tasksQueue, Running>>
      <3>1. Promise!Start BY <1>a, <1>6, <2>2, TakeMeans, PromiseSteps
      <3> QED BY <3>1 DEF Promise!Next
    <2> QED BY <2>1, <2>2
  <1>7. ASSUME NEW w \in Workers, Guard(w) PROVE Promise!Next \/ UNCHANGED Promise!vars
    <2>1. CASE ~m_abort[w]
      <3>1. PromiseStays BY <1>a, <1>7, <2>1, GuardMeans DEF PromiseStays
      <3> QED BY <3>1, PromiseSteps
    <2>2. CASE m_abort[w]
      <3>1. PICK t \in Running :
              /\ Running' = Running \ {t} /\ Dropped' = Dropped \cup {t}
              /\ UNCHANGED <<m_tasksQueue, Executed, allDone, m_taskAdded>>
        BY <1>a, <1>7, <2>2, GuardMeans
      <3>2. Promise!Abandon(t) BY <3>1, PromiseSteps
      <3>3. t \in Tasks BY <1>a, HeldFacts DEF Running
      <3> QED BY <3>2, <3>3 DEF Promise!Next
    <2> QED BY <2>1, <2>2
  <1>8. ASSUME NEW w \in Workers, Execute(w) PROVE Promise!Next
    <2>1. PICK t \in Running :
            /\ Running' = Running \ {t} /\ Executed' = Executed \cup {t}
            /\ UNCHANGED <<m_tasksQueue, Dropped, allDone, m_taskAdded>>
      BY <1>a, <1>8, ExecuteMeans
    <2>2. Promise!Finish(t) BY <2>1, PromiseSteps
    <2>3. t \in Tasks BY <1>a, HeldFacts DEF Running
    <2> QED BY <2>2, <2>3 DEF Promise!Next
  <1>9. ASSUME NEW w \in Workers, ClearTask(w) PROVE UNCHANGED Promise!vars
    <2>1. PromiseStays BY <1>a, <1>9, ClearMeans DEF PromiseStays
    <2> QED BY <2>1, PromiseSteps
  <1>10. ASSUME NEW w \in Workers, StoreTask(w) \/ TaskDone(w) \/ Die(w)
         PROVE  UNCHANGED Promise!vars
    <2>1. PromiseStays BY <1>10, OthersMean DEF PromiseStays
    <2> QED BY <2>1, PromiseSteps
  <1> QED BY <1>1, <1>2, <1>3, <1>4, <1>5, <1>6, <1>7, <1>8, <1>9, <1>10, StepsOfThePool, Zenon

(* The pool with its threads, semaphores, resizes and aborts implements what its
   interface promises: every step is a step of TaskPool, or none.            *)
THEOREM PoolKeepsPromise == Spec => KeepsPromise
  BY PromiseInit, PromiseStep, TaskInvariant, PTL DEF Spec, KeepsPromise, Promise!Spec

(* A task that was added stays in the queue or with a worker until it is executed or
   removed, unless its worker was aborted by a resize after it had taken the task.  *)
THEOREM TasksAreAccountedFor == Spec => TasksAccountedFor
  <1> DEFINE A == \A t \in Queued \cup Held :
                     fate[t] = "added" /\ fate'[t] = "added" =>
                        \/ t \in (Queued \cup Held)'
                        \/ \E w \in Workers : element[w] = t /\ m_abort[w]
  <1>1. PoolInv /\ TaskInv /\ [Next]_vars => [A]_vars
    <2> SUFFICES ASSUME PoolInv, TaskInv, [Next]_vars,
                        NEW t \in Queued \cup Held, fate[t] = "added", fate'[t] = "added",
                        t \notin (Queued \cup Held)'
                 PROVE  \E w \in Workers : element[w] = t /\ m_abort[w]
      OBVIOUS
    <2>a. TypeOK BY DEF PoolInv
    <2>1. CASE TasksStay BY <2>1, QuietStepsMean
    <2>2. CASE UNCHANGED vars BY <2>1, <2>2 DEF vars, queueVars, taskVars, ghostVars, postVars, TasksStay
    <2>3. CASE QuietOwnerStep \/ \E w \in Workers : QuietWorkerStep(w) BY <2>1, <2>3, QuietSteps
    <2>4. CASE AbortAllTasks \/ Destroy BY <2>a, <2>4, RemovingSteps, RemoveMeans
    <2>5. ASSUME NEW u \in Tasks, AddTask(u) PROVE FALSE BY <2>a, <2>5, AddMeans
    <2>6. ASSUME NEW w \in Workers, Leave(w) \/ LastLeave(w) PROVE FALSE
      BY <2>6, LeaveSteps, QuietStepsMean
    <2>7. ASSUME NEW w \in Workers, GetNextTask(w) PROVE FALSE BY <2>a, <2>7, TakeMeans
    <2>8. ASSUME NEW w \in Workers, Guard(w) PROVE element[w] = t /\ m_abort[w]
      BY <2>a, <2>8, GuardMeans
    <2>9. ASSUME NEW w \in Workers, Execute(w) PROVE FALSE BY <2>a, <2>9, ExecuteMeans
    <2>10. ASSUME NEW w \in Workers, ClearTask(w) PROVE FALSE BY <2>a, <2>10, ClearMeans
    <2>11. ASSUME NEW w \in Workers, StoreTask(w) \/ TaskDone(w) \/ Die(w) PROVE FALSE
      BY <2>11, OthersMean
    <2> QED BY <2>2, <2>3, <2>4, <2>5, <2>6, <2>7, <2>8, <2>9, <2>10, <2>11, StepsOfThePool, Zenon
  <1> QED BY <1>1, TaskInvariant, PTL DEF Spec, TasksAccountedFor
=============================================================================
