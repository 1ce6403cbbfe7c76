------------------------------ MODULE TaskPool ------------------------------
(* What the interface of cbThreadPool promises its owner (the comments of
   src/include/cbthreadpool.h), without threads, semaphores or sizes: tasks
   start in the order they were added, each is executed at most once or removed,
   and THREADTASK_ALLDONE says that a round of added tasks is over.          *)
EXTENDS Integers, Sequences

CONSTANT Tasks

VARIABLES
    pending,   \* the tasks that wait, oldest first
    running,   \* the tasks a thread has taken
    executed,  \* the tasks whose Execute has returned
    dropped,   \* the tasks that will never execute
    rounds,    \* how many times ALLDONE was announced
    open       \* a task was added since the last announcement

vars == <<pending, running, executed, dropped, rounds, open>>

Waiting == {pending[i] : i \in 1..Len(pending)}
Known == Waiting \cup running \cup executed \cup dropped

Init ==
    /\ pending = <<>> /\ running = {} /\ executed = {} /\ dropped = {}
    /\ rounds = 0 /\ open = FALSE

Add(t) ==
    /\ t \notin Known
    /\ pending' = Append(pending, t)
    /\ open' = TRUE
    /\ UNCHANGED <<running, executed, dropped, rounds>>

Start ==
    /\ pending # <<>>
    /\ running' = running \cup {Head(pending)}
    /\ pending' = Tail(pending)
    /\ UNCHANGED <<executed, dropped, rounds, open>>

Finish(t) ==
    /\ t \in running
    /\ running' = running \ {t}
    /\ executed' = executed \cup {t}
    /\ UNCHANGED <<pending, dropped, rounds, open>>

(* A thread told to stop by a resize lets go of the task it has just taken.  *)
Abandon(t) ==
    /\ t \in running
    /\ running' = running \ {t}
    /\ dropped' = dropped \cup {t}
    /\ UNCHANGED <<pending, executed, rounds, open>>

(* AbortAllTasks and the destructor remove what waits.                       *)
Remove ==
    /\ dropped' = dropped \cup Waiting
    /\ pending' = <<>>
    /\ UNCHANGED <<running, executed, rounds, open>>

AllDone ==
    /\ open /\ pending = <<>> /\ running = {}
    /\ open' = FALSE
    /\ rounds' = rounds + 1
    /\ UNCHANGED <<pending, running, executed, dropped>>

Next == Start \/ Remove \/ AllDone \/ \E t \in Tasks : Add(t) \/ Finish(t) \/ Abandon(t)

Spec == Init /\ [][Next]_vars
=============================================================================
