---------------------------- MODULE MCThreadPool ----------------------------
(* Instances of ThreadPool for TLC.                                          *)
EXTENDS ThreadPool, TLC

(* The names of threads, semaphores and tasks are interchangeable.           *)
Symmetry == Permutations(Workers) \cup Permutations(Semaphores) \cup Permutations(Tasks)

(* TLC cannot use symmetry with liveness: start from one of the equivalent
   initial states instead of all of them.                                    *)
MCInit ==
    /\ Init
    /\ m_threads = CHOOSE S \in SUBSET Workers : Cardinality(S) = InitialThreads
    /\ m_semaphore = CHOOSE s \in Semaphores : TRUE
MCFairSpec == MCInit /\ [][Next]_vars /\ Fairness

(* A pool of the size it was made with, and no trace of another generation.   *)
Fixed ==
    /\ call.op # "apply" /\ m_concurrentThreadsSchedule = 0
    /\ m_concurrentThreads = InitialThreads
    /\ \A w \in Workers : pc[w] # "dead" <=> w \in m_threads

(* Three tasks for a pool of fixed size; while it is resized, one is enough.   *)
FewTasks == Fixed \/ Cardinality({t \in Tasks : fate[t] # "new"}) <= 1
=============================================================================
