---------------------------- MODULE CompilerBuild ----------------------------
(* The build scheduler of the compiler plugin, src/plugins/compilergcc/compilergcc.cpp:
   a list of job targets, a state machine that turns every target into stages of
   commands, a command queue, and a fixed number of processes that run them.

   Everything runs on the GUI thread, but Manager::Yield() lets other handlers run
   in the middle of BuildStateManagement: the end of a process, or the user's abort.
   stack holds the unfinished calls, innermost last; only a call that yields, or
   an empty stack, lets the event loop in. Calls in tail position reuse the frame
   of their caller. Running the built program, and messages, are left out.     *)
EXTENDS Integers, Sequences, SequencesExt, FiniteSets

CONSTANTS
    Targets, NoTarget,      \* the build targets of the open projects, and none
    ProjectOf,              \* the project of every target
    ProjectJobs,            \* the job lists PreprocessJob makes for the active project ...
    WorkspaceJobs,          \* ... and for the workspace, in the order of dependencies
    PreBuild, PostBuild,    \* the targets and projects with pre-build and post-build steps
    AlwaysPost,             \* those whose post-build steps always run
    Linked,                 \* the targets whose link stage makes a command
    Compiles,               \* how many files of a target may be out of date
    Slots,                  \* m_CompilerProcessList is 1..Slots
    Requests,               \* the operations the user asks for in this instance
    EventsFirst,            \* once the event loop handles posted events, does it handle
                            \* them all before it reports further terminations?
    MaxRequests, MaxAborts, MaxRefusals   \* bounds

Projects == {ProjectOf[t] : t \in Targets}

ASSUME BuildAssumption ==
    /\ NoTarget \notin Targets /\ Linked \subseteq Targets
    /\ ProjectJobs \subseteq Seq(Targets) /\ WorkspaceJobs \subseteq Seq(Targets)
    /\ Compiles \subseteq Nat /\ Slots \in Nat \ {0}
    /\ EventsFirst \in BOOLEAN
    /\ MaxRequests \in Nat /\ MaxAborts \in Nat /\ MaxRefusals \in Nat

VARIABLES
    stack,
    m_BuildJob, m_BuildState, m_NextBuildState,
    building,               \* m_pBuildingProject with m_BuildingTargetName
    m_Clean, m_Build, m_LastBuildStep, m_IsWorkspaceOperation,
    m_RunTargetPostBuild, m_RunProjectPostBuild,
    m_BuildJobTargetsList, m_CommandQueue,
    pProcess, PID,          \* per process slot: is the member set?
    processes,              \* what the operating system runs, and for which slot
    events, handling,       \* cbEVT_PIPEDPROCESS_TERMINATED events that are posted; is
                            \* the event loop about to handle the rest of them?
    m_LastExitCode,
    requests, aborts, refusals,           \* counters for the bounds
    finished, reported,     \* cbEVT_COMPILER_FINISHED events sent, and the last one's code
    asked,                  \* the last request
    failed, aborted,        \* since it: has a command failed, has the user aborted?
    due, built              \* the targets that are to be built, and those built, in order

jobVars   == <<m_BuildJob, m_BuildState, m_NextBuildState, building>>
modeVars  == <<m_Clean, m_Build, m_LastBuildStep, m_IsWorkspaceOperation>>
postVars  == <<m_RunTargetPostBuild, m_RunProjectPostBuild>>
procVars  == <<pProcess, PID, processes, events, handling>>
exitVars  == <<m_LastExitCode, finished, reported>>
ghostVars == <<asked, failed, aborted, due, built>>
boundVars == <<requests, aborts, refusals>>
vars == <<stack, jobVars, modeVars, postVars, m_BuildJobTargetsList, m_CommandQueue,
          procVars, exitVars, ghostVars, boundVars>>

Jobs == {"bjIdle", "bjWorkspace", "bjProject"}
States == {"bsNone", "bsProjectPreBuild", "bsTargetClean", "bsTargetPreBuild", "bsTargetBuild",
           "bsTargetPostBuild", "bsTargetDone", "bsProjectPostBuild", "bsProjectDone"}
Yields == {"yield", "commands", "last"}
Labels == Yields \cup {"run", "queueLoop", "queueTest", "endLoop", "endTest", "projectDone", "rebuild"}
NoRequest == [workspace |-> FALSE, jobs |-> <<>>]

Command(t, stage, n, wait) == [target |-> t, stage |-> stage, no |-> n, wait |-> wait]
Commands == [target : Targets, stage : {"pre", "compile", "link", "post"}, no : Nat, wait : BOOLEAN]

-----------------------------------------------------------------------------
(* The stack of calls. A frame has a label, the state its BuildStateManagement has
   entered with the commands it is about to queue, and the slot its DoRunQueue
   chose.                                                                    *)
Frames == [at : Labels, state : States, commands : Seq(Commands), slot : 0..Slots]
Frame(label) == [at |-> label, state |-> "bsNone", commands |-> <<>>, slot |-> 0]
At(label) == stack # <<>> /\ Last(stack).at = label
Below == Front(stack)
Jump(label) == Append(Below, [Last(stack) EXCEPT !.at = label])

(* The event loop gets in: the GUI thread is at rest or yields. Commands are made
   with a yield after every file, and after pre-build or post-build steps.    *)
Looping ==
    /\ stack # <<>> => Last(stack).at \in Yields
    /\ At("commands") => Last(stack).state = "bsTargetBuild" \/ Last(stack).commands # <<>>

IsProcessRunning == \E i \in 1..Slots : pProcess[i]
FaultEndedIsAvailable == {i \in 1..Slots : ~pProcess[i]}
Available == {i \in 1..Slots : ~pProcess[i] /\ ~PID[i]}
GetNextAvailableProcessIndex == CHOOSE i \in Available : \A j \in Available : i <= j

IsRunning == m_BuildJob # "bjIdle" \/ IsProcessRunning \/ m_CommandQueue # <<>>

FaultResetKeepsQueue ==
    /\ m_BuildJob' = "bjIdle"
    /\ m_BuildState' = "bsNone" /\ m_NextBuildState' = "bsNone"
    /\ building' = NoTarget
    /\ UNCHANGED m_CommandQueue
ResetBuildState ==
    /\ m_BuildJob' = "bjIdle"
    /\ m_BuildState' = "bsNone" /\ m_NextBuildState' = "bsNone"
    /\ building' = NoTarget
    /\ m_CommandQueue' = <<>>

(* NotifyJobDone; code is m_LastExitCode as the caller has left it.          *)
NotifyJobDone(code, running) ==
    IF m_LastBuildStep /\ ~running
    THEN finished' = finished + 1 /\ reported' = code /\ m_LastExitCode' = 0
    ELSE m_LastExitCode' = code /\ UNCHANGED <<finished, reported>>

(* The commands DirectCommands makes for the stages of a target.             *)
Step(owner, t, stage, having) ==
    IF owner \in having THEN <<Command(t, stage, 0, TRUE)>> ELSE <<>>
Link(t) == IF t \in Linked THEN <<Command(t, "link", 0, TRUE)>> ELSE <<>>
CompileCommands(t) ==
    {<<>>, Link(t)} \cup {[i \in 1..n |-> Command(t, "compile", i, FALSE)] \o Link(t) : n \in Compiles \ {0}}

StageCommands(state, t) ==
    CASE state = "bsProjectPreBuild" ->
            {IF m_Build THEN Step(ProjectOf[t], t, "pre", PreBuild) ELSE <<>>}
      [] state = "bsTargetPreBuild" -> {Step(t, t, "pre", PreBuild)}
      [] state = "bsTargetBuild" -> CompileCommands(t)
      [] state = "bsTargetPostBuild" ->
            {IF m_RunTargetPostBuild \/ t \in AlwaysPost
             THEN Step(t, t, "post", PostBuild) ELSE <<>>}
      [] state = "bsProjectPostBuild" ->
            {IF m_RunProjectPostBuild \/ ProjectOf[t] \in AlwaysPost
             THEN Step(ProjectOf[t], t, "post", PostBuild) ELSE <<>>}
      [] OTHER -> {<<>>}

FirstTargetState == IF m_Clean /\ ~m_Build THEN "bsTargetClean" ELSE "bsTargetPreBuild"

(* A job list starts with its first target's project.                        *)
InitBuildState(job) ==
    /\ m_BuildJob' = job
    /\ m_BuildState' = "bsNone" /\ m_NextBuildState' = "bsProjectPreBuild"
    /\ m_CommandQueue' = <<>>

AddToCommandQueue(commands) == m_CommandQueue' = m_CommandQueue \o commands

(* The next job becomes the one that is built.                               *)
GetNextJob ==
    /\ building' = Head(m_BuildJobTargetsList)
    /\ m_BuildJobTargetsList' = Tail(m_BuildJobTargetsList)

(* Is the next job another target of the project that is being built?        *)
SameProject ==
    /\ m_BuildJobTargetsList # <<>>
    /\ ProjectOf[Head(m_BuildJobTargetsList)] = ProjectOf[building]

(* GetNextStateBasedOnJob, but for bsProjectDone, which starts the next project. *)
GetNextStateBasedOnJob ==
    CASE m_BuildState = "bsProjectPreBuild" -> FirstTargetState
      [] m_BuildState = "bsTargetPreBuild" ->
            IF m_Clean THEN "bsTargetClean" ELSE IF m_Build THEN "bsTargetBuild" ELSE "bsTargetPostBuild"
      [] m_BuildState = "bsTargetClean" -> IF m_Build THEN "bsTargetBuild" ELSE "bsTargetDone"
      [] m_BuildState = "bsTargetBuild" -> "bsTargetPostBuild"
      [] m_BuildState = "bsTargetPostBuild" -> "bsTargetDone"
      [] m_BuildState = "bsTargetDone" ->
            IF SameProject THEN FirstTargetState
            ELSE IF m_Build THEN "bsProjectPostBuild" ELSE "bsProjectDone"
      [] m_BuildState = "bsProjectPostBuild" -> "bsProjectDone"
      [] OTHER -> "bsNone"

AllocProcesses ==
    /\ pProcess = [i \in 1..Slots |-> FALSE]
    /\ PID = [i \in 1..Slots |-> FALSE]

Init ==
    /\ stack = <<>>
    /\ m_BuildJob = "bjIdle" /\ m_BuildState = "bsNone" /\ m_NextBuildState = "bsNone"
    /\ building = NoTarget
    /\ m_Clean = FALSE /\ m_Build = FALSE
    /\ m_LastBuildStep = TRUE /\ m_IsWorkspaceOperation = FALSE
    /\ m_RunTargetPostBuild = FALSE /\ m_RunProjectPostBuild = FALSE
    /\ m_BuildJobTargetsList = <<>> /\ m_CommandQueue = <<>>
    /\ AllocProcesses
    /\ processes = {} /\ events = <<>> /\ handling = FALSE
    /\ m_LastExitCode = 0 /\ asked = NoRequest
    /\ requests = 0 /\ aborts = 0 /\ refusals = 0
    /\ finished = 0 /\ reported = 0
    /\ failed = FALSE /\ aborted = FALSE /\ due = <<>> /\ built = <<>>

-----------------------------------------------------------------------------
(* DoBuild(target, clean, build) and DoWorkspaceBuild. m_IsWorkspaceOperation is
   set before PreprocessJob, which reads it, and reset after the first call of
   BuildStateManagement, in which nothing reads it. rest is the caller's frame. *)
PreprocessJob(request) ==
    (IF m_IsWorkspaceOperation \/ request.workspace THEN m_BuildJobTargetsList ELSE <<>>)
        \o request.jobs

DoBuild(request, clean, build, lastStep, rest) ==
    LET list == PreprocessJob(request)
    IN  /\ m_LastBuildStep' = lastStep
        /\ asked' = request /\ due' = list /\ built' = <<>>
        /\ \/ /\ list = <<>>
              /\ IF lastStep THEN finished' = finished + 1 /\ reported' = m_LastExitCode
                              ELSE UNCHANGED <<finished, reported>>
              /\ m_LastExitCode' = IF lastStep THEN 0 ELSE m_LastExitCode
              /\ m_BuildJobTargetsList' = list
              /\ m_IsWorkspaceOperation' = (m_IsWorkspaceOperation \/ request.workspace)
              /\ stack' = rest
              /\ UNCHANGED <<jobVars, m_CommandQueue, m_Clean, m_Build>>
           \/ /\ list # <<>>
              /\ InitBuildState(IF request.workspace THEN "bjWorkspace" ELSE "bjProject")
              /\ building' = Head(list) /\ m_BuildJobTargetsList' = Tail(list)
              /\ m_Clean' = clean /\ m_Build' = build
              /\ m_IsWorkspaceOperation' = (m_IsWorkspaceOperation /\ ~request.workspace)
              /\ stack' = rest \o <<Frame("run"), Frame("yield")>>
              /\ UNCHANGED exitVars
        /\ UNCHANGED <<postVars, procVars, aborts, refusals>>

(* The user can ask for a build when the menu is enabled (OnUpdateUI), which is
   found out when the event loop has nothing else to do.                      *)
Ask(op) ==
    /\ op \in Requests /\ requests < MaxRequests
    /\ stack = <<>> /\ events = <<>> /\ ~IsRunning
    /\ requests' = requests + 1
    /\ failed' = FALSE /\ aborted' = FALSE

ProjectRequest == {[workspace |-> FALSE, jobs |-> jobs] : jobs \in ProjectJobs}
WorkspaceRequest == {[workspace |-> TRUE, jobs |-> jobs] : jobs \in WorkspaceJobs}

Build ==
    Ask("Build") /\ \E r \in ProjectRequest : DoBuild(r, FALSE, TRUE, TRUE, <<>>)
Clean ==
    Ask("Clean") /\ \E r \in ProjectRequest : DoBuild(r, TRUE, FALSE, TRUE, <<>>)
BuildWorkspace ==
    Ask("BuildWorkspace") /\ \E r \in WorkspaceRequest : DoBuild(r, FALSE, TRUE, m_LastBuildStep, <<>>)
CleanWorkspace ==
    Ask("CleanWorkspace") /\ \E r \in WorkspaceRequest : DoBuild(r, TRUE, FALSE, m_LastBuildStep, <<>>)

(* Rebuild and RebuildWorkspace: in one go if /rebuild_seperately is set, otherwise
   a clean and then a build.                                                 *)
Rebuild ==
    /\ Ask("Rebuild")
    /\ \E r \in ProjectRequest \cup WorkspaceRequest :
           \/ DoBuild(r, TRUE, TRUE, TRUE, <<>>)
           \/ DoBuild(r, TRUE, FALSE, FALSE, <<Frame("rebuild")>>)
FaultNeverLastStep ==
    /\ At("rebuild")
    /\ DoBuild(asked, FALSE, TRUE, FALSE, Below)
    /\ UNCHANGED <<requests, failed, aborted>>
RebuildCleaned ==
    /\ At("rebuild")
    /\ DoBuild(asked, FALSE, TRUE, TRUE, Below)
    /\ UNCHANGED <<requests, failed, aborted>>

(* CompileFile, of a file of the project with a valid target: a command without a
   build job.                                                                *)
CompileFile ==
    /\ Ask("CompileFile")
    /\ \E t \in Targets : m_CommandQueue' = <<Command(t, "compile", 1, FALSE)>>
    /\ stack' = <<Frame("run")>>
    /\ asked' = NoRequest /\ due' = <<>> /\ built' = <<>>
    /\ UNCHANGED <<jobVars, modeVars, postVars, m_BuildJobTargetsList, procVars, exitVars,
                   aborts, refusals>>

(* The user aborts, also while a handler yields. The processes get a signal.  *)
KillProcess ==
    /\ Looping /\ IsRunning /\ aborts < MaxAborts
    /\ ResetBuildState
    /\ aborts' = aborts + 1 /\ aborted' = TRUE
    /\ UNCHANGED <<stack, modeVars, postVars, m_BuildJobTargetsList, procVars, exitVars,
                   requests, refusals, asked, failed, due, built>>

-----------------------------------------------------------------------------
(* DoRunQueue. Its recursive calls are in tail position.                      *)

Execute(i, command) ==
    /\ pProcess' = [pProcess EXCEPT ![i] = TRUE]
    /\ PID' = [PID EXCEPT ![i] = TRUE]
    /\ processes' = processes \cup {[slot |-> i, command |-> command]}
    /\ UNCHANGED <<events, handling>>

FaultNoWait == FALSE
CommandMustWait == IsProcessRunning /\ m_CommandQueue # <<>> /\ Head(m_CommandQueue).wait

(* -2, -3, or 0: no free slot, a command that has to wait, or nothing to start
   before the processes end.                                                 *)
QueueWaits ==
    /\ At("run")
    /\ \/ Available = {}
       \/ CommandMustWait
       \/ m_CommandQueue = <<>> /\ IsProcessRunning
    /\ stack' = Below
    /\ UNCHANGED <<jobVars, modeVars, postVars, m_BuildJobTargetsList, m_CommandQueue,
                   procVars, exitVars, ghostVars, boundVars>>

StartCommand(i) ==
    /\ m_CommandQueue # <<>>
    /\ Execute(i, Head(m_CommandQueue))
    /\ m_CommandQueue' = Tail(m_CommandQueue)
    /\ stack' = Jump("run")
    /\ UNCHANGED <<jobVars, modeVars, postVars, m_BuildJobTargetsList, exitVars, ghostVars,
                   boundVars>>

(* wxExecute refuses the command.                                            *)
RefuseCommand ==
    /\ m_CommandQueue # <<>> /\ refusals < MaxRefusals
    /\ refusals' = refusals + 1
    /\ failed' = TRUE
    /\ ResetBuildState
    /\ stack' = Jump("run")
    /\ UNCHANGED <<modeVars, postVars, m_BuildJobTargetsList, procVars, exitVars, asked,
                   aborted, due, built, requests, aborts>>

RunCommand ==
    /\ At("run") /\ Available # {} /\ ~CommandMustWait
    /\ StartCommand(GetNextAvailableProcessIndex) \/ RefuseCommand

(* The queue is empty and nothing runs: the loop around BuildStateManagement. *)
QueueEmpty ==
    /\ At("run") /\ Available # {} /\ m_CommandQueue = <<>> /\ ~IsProcessRunning
    /\ stack' = Append(Below, [Frame("queueLoop") EXCEPT !.slot = GetNextAvailableProcessIndex])
    /\ UNCHANGED <<jobVars, modeVars, postVars, m_BuildJobTargetsList, m_CommandQueue,
                   procVars, exitVars, ghostVars, boundVars>>

Manage(from, to) ==
    /\ At(from)
    /\ stack' = IF IsProcessRunning THEN Jump(to) ELSE Append(Jump(to), Frame("yield"))
    /\ UNCHANGED <<jobVars, modeVars, postVars, m_BuildJobTargetsList, m_CommandQueue,
                   procVars, exitVars, ghostVars, boundVars>>

JobsEnded == m_CommandQueue = <<>> /\ m_BuildState = "bsNone" /\ m_NextBuildState = "bsNone"

(* The loop has found a command: it runs in the slot chosen before the loop.  *)
QueueFound ==
    At("queueTest") /\ (StartCommand(Last(stack).slot) \/ RefuseCommand)

QueueEnds ==
    /\ At("queueTest") /\ JobsEnded
    /\ NotifyJobDone(m_LastExitCode, IsProcessRunning)
    /\ ResetBuildState
    /\ stack' = Below
    /\ UNCHANGED <<modeVars, postVars, m_BuildJobTargetsList, procVars, ghostVars, boundVars>>

GoOn(from, to) ==
    /\ At(from) /\ m_CommandQueue = <<>> /\ ~JobsEnded
    /\ stack' = Jump(to)
    /\ UNCHANGED <<jobVars, modeVars, postVars, m_BuildJobTargetsList, m_CommandQueue,
                   procVars, exitVars, ghostVars, boundVars>>

-----------------------------------------------------------------------------
(* Processes and OnJobEnd.                                                   *)

(* PipedProcess::OnTerminate clears the slot's pProcess and posts the event.  *)
Terminate(process, code) ==
    /\ Looping /\ process \in processes
    /\ EventsFirst => ~handling
    /\ processes' = processes \ {process}
    /\ pProcess' = [pProcess EXCEPT ![process.slot] = FALSE]
    /\ events' = Append(events, [slot |-> process.slot, code |-> code])
    /\ UNCHANGED <<stack, jobVars, modeVars, postVars, m_BuildJobTargetsList, m_CommandQueue,
                   PID, handling, exitVars, ghostVars, boundVars>>

(* The slot is free again; a code of 0 stands for all that statusSuccess allows. *)
TakeEvent(code) ==
    /\ Looping /\ events # <<>> /\ Head(events).code = code
    /\ events' = Tail(events)
    /\ handling' = (Tail(events) # <<>>)
    /\ PID' = [PID EXCEPT ![Head(events).slot] = FALSE]
    /\ pProcess' = [pProcess EXCEPT ![Head(events).slot] = FALSE]
    /\ UNCHANGED processes
FaultNoneRuns == FALSE
StillRunning == \E i \in 1..Slots : i # Head(events).slot /\ pProcess[i]

(* The command has succeeded: go on with the queue, or with the next state.   *)
JobSucceeds ==
    /\ TakeEvent(0)
    /\ m_LastExitCode' = 0
    /\ stack' = Append(stack, Frame(IF m_CommandQueue # <<>> \/ StillRunning
                                    THEN "run" ELSE "endLoop"))
    /\ UNCHANGED <<jobVars, modeVars, postVars, m_BuildJobTargetsList, m_CommandQueue,
                   finished, reported, ghostVars, boundVars>>

JobFails ==
    /\ TakeEvent(1)
    /\ ResetBuildState
    /\ m_BuildJobTargetsList' = <<>>
    /\ NotifyJobDone(1, StillRunning)
    /\ failed' = TRUE
    /\ UNCHANGED <<stack, modeVars, postVars, asked, aborted, due, built,
                   boundVars>>

EndFound ==
    /\ At("endTest") /\ m_CommandQueue # <<>>
    /\ stack' = Jump("run")
    /\ UNCHANGED <<jobVars, modeVars, postVars, m_BuildJobTargetsList, m_CommandQueue,
                   procVars, exitVars, ghostVars, boundVars>>

EndJobs ==
    /\ At("endTest") /\ JobsEnded
    /\ ResetBuildState
    /\ m_BuildJobTargetsList' = <<>>
    /\ NotifyJobDone(m_LastExitCode, IsProcessRunning)
    /\ stack' = Below
    /\ UNCHANGED <<modeVars, postVars, procVars, ghostVars, boundVars>>

-----------------------------------------------------------------------------
(* BuildStateManagement, which has found no process running: its first yield, ... *)

(* ... after which the job may be gone, ...                                   *)
ManageNothing ==
    /\ At("yield") /\ building = NoTarget
    /\ ResetBuildState
    /\ stack' = Below
    /\ UNCHANGED <<modeVars, postVars, m_BuildJobTargetsList, procVars, exitVars, ghostVars,
                   boundVars>>

(* ... the commands of the new state, made with a yield after every file; ...  *)
EnterState ==
    /\ At("yield") /\ building # NoTarget
    /\ m_BuildState' = m_NextBuildState
    /\ \E commands \in StageCommands(m_NextBuildState, building) :
           stack' = Append(Below, [Frame("commands") EXCEPT !.state = m_NextBuildState,
                                                            !.commands = commands])
    /\ built' = IF m_NextBuildState = "bsTargetBuild" THEN Append(built, building) ELSE built
    /\ UNCHANGED <<m_BuildJob, m_NextBuildState, building, modeVars, postVars,
                   m_BuildJobTargetsList, m_CommandQueue, procVars, exitVars, asked, failed,
                   aborted, due, boundVars>>

(* ... the flags that its commands decide, the next state, the queue, and a yield. *)
RunPostBuild(state, commands) ==
    /\ m_RunTargetPostBuild' =
           CASE state = "bsTargetBuild" -> commands # <<>>
             [] state = "bsTargetPostBuild" -> FALSE
             [] OTHER -> m_RunTargetPostBuild
    /\ m_RunProjectPostBuild' =
           CASE state = "bsTargetBuild" -> commands # <<>>
             [] state = "bsProjectPostBuild" -> FALSE
             [] OTHER -> m_RunProjectPostBuild

NextTarget == m_BuildState = "bsTargetDone" /\ SameProject
FaultOneProject == FALSE
NextProject == m_BuildState = "bsProjectDone" /\ m_BuildJobTargetsList # <<>>

LeaveState ==
    /\ At("commands") /\ ~NextProject
    /\ RunPostBuild(Last(stack).state, Last(stack).commands)
    /\ m_NextBuildState' = GetNextStateBasedOnJob
    /\ IF NextTarget
       THEN GetNextJob
       ELSE UNCHANGED <<building, m_BuildJobTargetsList>>
    /\ AddToCommandQueue(Last(stack).commands)
    /\ stack' = Jump("last")
    /\ UNCHANGED <<m_BuildJob, m_BuildState, modeVars, procVars, exitVars, ghostVars,
                   boundVars>>

(* DoBuild(clean, build) inside GetNextStateBasedOnJob: BuildStateManagement is
   entered again for the next project.                                       *)
StartNextProject ==
    /\ At("commands") /\ NextProject
    /\ m_NextBuildState' = "bsProjectPreBuild"
    /\ GetNextJob
    /\ stack' = IF IsProcessRunning THEN Jump("projectDone")
                ELSE Append(Jump("projectDone"), Frame("yield"))
    /\ UNCHANGED <<m_BuildJob, m_BuildState, modeVars, postVars, m_CommandQueue, procVars,
                   exitVars, ghostVars, boundVars>>

NextProjectStarted ==
    /\ At("projectDone")
    /\ m_NextBuildState' = FirstTargetState
    /\ stack' = Jump("last")
    /\ UNCHANGED <<m_BuildJob, m_BuildState, building, modeVars, postVars,
                   m_BuildJobTargetsList, m_CommandQueue, procVars, exitVars, ghostVars, boundVars>>

Managed ==
    /\ At("last")
    /\ stack' = Below
    /\ UNCHANGED <<jobVars, modeVars, postVars, m_BuildJobTargetsList, m_CommandQueue,
                   procVars, exitVars, ghostVars, boundVars>>

-----------------------------------------------------------------------------
(* The handlers of the menu items, once the user has confirmed.              *)
User == Build \/ Clean \/ BuildWorkspace \/ CleanWorkspace \/ Rebuild \/ CompileFile

DoRunQueue ==
    \/ QueueWaits \/ RunCommand \/ QueueEmpty
    \/ Manage("queueLoop", "queueTest") \/ QueueFound \/ QueueEnds \/ GoOn("queueTest", "queueLoop")
OnJobEnd ==
    \/ JobSucceeds \/ JobFails
    \/ Manage("endLoop", "endTest") \/ EndFound \/ EndJobs \/ GoOn("endTest", "endLoop")
BuildStateManagement ==
    ManageNothing \/ EnterState \/ LeaveState \/ StartNextProject \/ NextProjectStarted \/ Managed

Handle == DoRunQueue \/ OnJobEnd \/ BuildStateManagement \/ RebuildCleaned
ProcessEnds == \E p \in processes, code \in {0, 1} : Terminate(p, code)

Next == User \/ KillProcess \/ Handle \/ ProcessEnds

Spec == Init /\ [][Next]_vars

(* Processes end, and the GUI thread goes on; nobody has to ask or to abort.   *)
Fairness == WF_vars(Handle) /\ WF_vars(ProcessEnds)
FairSpec == Spec /\ Fairness

-----------------------------------------------------------------------------
TypeOK ==
    /\ stack \in Seq(Frames)
    /\ m_BuildJob \in Jobs /\ m_BuildState \in States /\ m_NextBuildState \in States
    /\ building \in Targets \cup {NoTarget}
    /\ m_Clean \in BOOLEAN /\ m_Build \in BOOLEAN
    /\ m_LastBuildStep \in BOOLEAN /\ m_IsWorkspaceOperation \in BOOLEAN
    /\ m_RunTargetPostBuild \in BOOLEAN /\ m_RunProjectPostBuild \in BOOLEAN
    /\ m_BuildJobTargetsList \in Seq(Targets) /\ m_CommandQueue \in Seq(Commands)
    /\ pProcess \in [1..Slots -> BOOLEAN] /\ PID \in [1..Slots -> BOOLEAN]
    /\ \A p \in processes : p \in [slot : 1..Slots, command : Commands]
    /\ events \in Seq([slot : 1..Slots, code : {0, 1}]) /\ handling \in BOOLEAN
    /\ m_LastExitCode \in {0, 1} /\ reported \in {0, 1} /\ finished \in Nat
    /\ asked \in [workspace : BOOLEAN, jobs : Seq(Targets)]
    /\ requests \in 0..MaxRequests /\ aborts \in 0..MaxAborts /\ refusals \in 0..MaxRefusals
    /\ failed \in BOOLEAN /\ aborted \in BOOLEAN
    /\ due \in Seq(Targets) /\ built \in Seq(Targets)

(* Parallel commands belong to one stage of one target: no compiler, linker or
   pre-build step of the next stage starts while a command of this one runs
   (mustWait, compilergcc.cpp:1210-1216), whatever ends while a handler yields. *)
OneStageAtATime ==
    \A p, q \in processes : /\ p.command.target = q.command.target
                            /\ p.command.stage = q.command.stage

AtRest == stack = <<>> /\ events = <<>> /\ processes = {}

(* When nothing is left to happen, the plugin is idle, and it has sent at least one
   cbEVT_COMPILER_FINISHED for every request: after a failure, a refused command
   or an abort in any of its yields, too. (Two failed compilers may send two.) *)
EveryRequestIsAnswered == AtRest => ~IsRunning /\ finished >= requests

(* The two while (1) loops around BuildStateManagement (1224, 3806) are entered, and
   go round, only when no process runs. While one runs, BuildStateManagement
   returns at once and the loop would turn forever on the GUI thread.         *)
NoSpin == At("endLoop") \/ At("queueLoop") => ~IsProcessRunning

(* Every process has a slot of its own that says so, until it ends: KillProcess and
   IsProcessRunning see it. A slot is used again only after OnJobEnd has handled
   the end of its last process (1185-1186), though pProcess is cleared before,
   and the slot is chosen before the loop that yields (1206, 1324).           *)
SlotsTell ==
    \A p \in processes : /\ pProcess[p.slot] /\ PID[p.slot]
                         /\ \A q \in processes : q.slot = p.slot => q = p

(* The type invariant, and that the slots tell which processes run.           *)
BuildInv == TypeOK /\ SlotsTell

(* Once the plugin knows of a command's failure it starts no other command of that
   request, though handlers that yielded before the failure go on after it.   *)
NothingAfterFailure == [][failed /\ processes' # processes => processes' \subseteq processes]_vars

(* Once the user has aborted the build, no command of it is started.          *)
AbortStops == [][aborted /\ processes' # processes => processes' \subseteq processes]_vars

(* Targets are built in the order PreprocessJob has given the jobs, dependencies
   first, and none twice, across the two places that take the next job from
   the list (2262 and 2635).                                                 *)
BuiltInOrder == IsPrefix(built, due)

(* The order of the commands within a stage, and of the targets.              *)
CommandsInOrder == OneStageAtATime /\ BuiltInOrder

(* A build that ends without a failure and without an abort has built every target
   of its job list.                                                          *)
SuccessMeansBuilt ==
    [][finished' # finished /\ m_Build /\ ~failed' /\ ~aborted => built' = due']_vars

(* cbEVT_COMPILER_FINISHED carries an error if a command of the build has failed. *)
ExitCodeTells == [][finished' # finished /\ failed' => reported' # 0]_vars

(* A build ends: its commands come to an end, and no two handlers wait for each other. *)
BuildsEnd == IsRunning ~> ~IsRunning
=============================================================================
