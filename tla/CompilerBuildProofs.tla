------------------------- MODULE CompilerBuildProofs -------------------------
(* Theorems about CompilerBuild, for any projects, job lists, steps and number of
   process slots, if the event loop handles posted events before it reports further
   terminations and every compiler has a linker program.                      *)
EXTENDS CompilerBuild, SequenceTheorems, WellFoundedInduction, TLAPS

LoopAssumption == EventsFirst /\ Linked = Targets

-----------------------------------------------------------------------------
(* The slots, the processes and the events of processes that have ended.      *)
ProcessIn(i) == \E p \in processes : p.slot = i
EventOf(i) == \E k \in DOMAIN events : events[k].slot = i
SlotInv ==
    /\ \A p, q \in processes : p.slot = q.slot => p = q
    /\ \A k, l \in DOMAIN events : events[k].slot = events[l].slot => k = l
    /\ \A i \in 1..Slots : /\ pProcess[i] <=> ProcessIn(i)
                           /\ PID[i] <=> ProcessIn(i) \/ EventOf(i)
                           /\ ~(ProcessIn(i) /\ EventOf(i))
    /\ handling => events # <<>>

(* The stack. Processes run only while the GUI thread is at rest or about to run
   the queue. Handlers are nested in a yield only after the build is over.    *)
Loops == {"run", "queueLoop", "queueTest", "endLoop", "endTest"}
Top == Last(stack).at
Resting == stack = <<>> \/ (Len(stack) = 1 /\ Top = "run")
Flat == \A k \in DOMAIN stack :
            stack[k].at \in Loops => k = 1 \/ (k = 2 /\ stack[1].at = "rebuild")
Dead == m_CommandQueue = <<>> /\ building = NoTarget
Nested == \A k \in DOMAIN stack : stack[k].at \in Loops \cup {"yield"}
PlaceAt(k) ==
    /\ stack[k].at \in Yields \cup {"projectDone"} =>
           k > 1 /\ stack[k - 1].at \in {"run", "queueTest", "endTest", "projectDone"}
    /\ stack[k].at \in {"commands", "last"} => k = Len(stack)
    /\ stack[k].at \in {"queueLoop", "queueTest"} => stack[k].slot \in 1..Slots
    /\ stack[k].at = "rebuild" => k = 1
StackInv ==
    /\ \A k \in DOMAIN stack : PlaceAt(k)
    /\ ~Resting => processes = {}
    /\ (Flat /\ (Resting \/ events = <<>>)) \/ (Dead /\ Nested)
    /\ stack # <<>> /\ events # <<>> => handling
    /\ stack # <<>> /\ m_CommandQueue # <<>> =>
           Top \in {"run", "queueTest", "endTest", "last", "projectDone"}

(* The command queue: commands of one target, compilers that may run in parallel and
   then, if the build goes on after them, a command that waits for them all.  *)
OneTarget(commands) ==
    \A k \in DOMAIN commands :
        /\ commands[k].target = commands[1].target
        /\ k < Len(commands) => ~commands[k].wait
        /\ ~commands[k].wait => commands[k].stage = "compile"
Waits(commands) == commands # <<>> => commands[Len(commands)].wait
AtMostOne == \A p, q \in processes : p = q
QueueInv ==
    /\ OneTarget(m_CommandQueue)
    /\ building # NoTarget => Waits(m_CommandQueue)
    /\ \A k \in DOMAIN stack : stack[k].at = "commands" =>
           OneTarget(stack[k].commands) /\ Waits(stack[k].commands)
    /\ OneStageAtATime
    /\ m_CommandQueue # <<>> =>
           \A p \in processes : /\ p.command.stage = "compile"
                                /\ p.command.target = m_CommandQueue[1].target
    /\ building # NoTarget /\ m_CommandQueue = <<>> =>
           \/ processes = {} /\ (events = <<>> \/ (Len(events) = 1 /\ ~handling))
           \/ AtMostOne /\ (events = <<>> \/ (handling /\ processes # {}))

(* A clean has no commands, and the clean before a separate build leaves nothing. *)
CleanInv ==
    /\ ~m_Build => built = <<>>
    /\ \A k \in DOMAIN stack : stack[k].at = "commands" /\ ~m_Build => stack[k].commands = <<>>
    /\ ~m_Build /\ building # NoTarget =>
           /\ m_Clean
           /\ m_CommandQueue = <<>> /\ processes = {} /\ events = <<>>
           /\ {m_BuildState, m_NextBuildState} \subseteq
                  {"bsNone", "bsProjectPreBuild", "bsTargetClean", "bsTargetDone", "bsProjectDone"}
    /\ \A k \in DOMAIN stack : stack[k].at = "rebuild" =>
           /\ m_CommandQueue = <<>> /\ processes = {} /\ events = <<>>
           /\ building # NoTarget => ~m_Build
           /\ \A l \in DOMAIN stack : stack[l].at = "commands" => stack[l].commands = <<>>
    /\ ~m_LastBuildStep => stack # <<>> /\ stack[1].at = "rebuild"

(* A request is answered once, except the one that is under way.              *)
AnswerInv ==
    /\ requests <= finished + 1
    /\ m_BuildJob = "bjIdle" <=> building = NoTarget
    /\ building = NoTarget => m_BuildState = "bsNone"
    /\ AtRest => requests <= finished /\ Dead
    /\ stack # <<>> /\ Top = "rebuild" => building = NoTarget

(* The targets that are built, the one that is being built, and the rest of the list. *)
Pending ==
    /\ m_NextBuildState \in {"bsProjectPreBuild", "bsTargetPreBuild", "bsTargetClean", "bsTargetBuild"}
    /\ m_BuildState # "bsTargetBuild"
OrderInv ==
    /\ Len(built) <= Len(due) /\ \A k \in DOMAIN built : built[k] = due[k]
    /\ m_Build /\ building # NoTarget =>
           due = built \o (IF Pending THEN <<building>> ELSE <<>>) \o m_BuildJobTargetsList
    /\ m_Build /\ building = NoTarget /\ ~failed /\ ~aborted => built = due
    /\ building # NoTarget /\ m_NextBuildState = "bsNone" => m_BuildJobTargetsList = <<>>
    /\ building # NoTarget /\ stack # <<>> /\ Top = "commands" => m_BuildState = m_NextBuildState
    /\ m_BuildState = "bsTargetBuild" =>
           \/ m_NextBuildState = "bsTargetPostBuild"
           \/ m_NextBuildState = "bsTargetBuild" /\ stack # <<>> /\ Top = "commands"
    /\ \A k \in DOMAIN stack : stack[k].at = "projectDone" /\ building # NoTarget =>
           /\ m_BuildState \in {"bsProjectDone", "bsProjectPreBuild"}
           /\ m_NextBuildState \in {"bsProjectPreBuild", FirstTargetState}
           /\ Top = "yield" => m_NextBuildState = "bsProjectPreBuild"

(* After a failure nothing is queued, and nobody is left who could queue a command. *)
FailInv == failed => Dead /\ Nested

SchedulerInv ==
    TypeOK /\ SlotInv /\ StackInv /\ QueueInv /\ CleanInv /\ AnswerInv /\ OrderInv /\ FailInv

-----------------------------------------------------------------------------
(* Numbers and sequences.                                                     *)
LEMMA LeastNatural ==
    ASSUME NEW T, T \subseteq Nat, T # {}
    PROVE  \E x \in T : \A y \in T : x <= y
  <1> DEFINE R == {ss \in Nat \X Nat : ss[1] < ss[2]}
  <1>1. IsWellFoundedOn(R, Nat) BY NatLessThanWellFounded DEF OpToRel
  <1> HIDE DEF R
  <1>2. PICK x \in T : \A y \in T : <<y, x>> \notin R BY <1>1, WFMin
  <1>3. ASSUME NEW y \in T, y < x PROVE FALSE
    <2>1. <<y, x>> \in Nat \X Nat /\ <<y, x>>[1] < <<y, x>>[2] BY <1>3
    <2> QED BY <1>2, <2>1 DEF R
  <1> QED BY <1>2, <1>3

LEMMA FunctionIsSequence ==
    ASSUME NEW S, NEW n \in Nat, NEW s \in [1..n -> S]
    PROVE  s \in Seq(S) /\ Len(s) = n
  <1>1. s \in Seq(S) BY SeqDef, Zenon
  <1>2. Len(s) \in Nat /\ DOMAIN s = 1..Len(s) BY <1>1, LenProperties
  <1>3. DOMAIN s = 1..n OBVIOUS
  <1> QED BY <1>1, <1>2, <1>3

LEMMA LastAndBelow ==
    ASSUME NEW S, NEW s \in Seq(S), s # <<>>
    PROVE  /\ Len(s) \in Nat /\ Len(s) > 0
           /\ Last(s) = s[Len(s)] /\ Last(s) \in S
           /\ Front(s) \in Seq(S) /\ Len(Front(s)) = Len(s) - 1
           /\ \A k \in 1..(Len(s) - 1) : Front(s)[k] = s[k]
           /\ Front(s) = <<>> <=> Len(s) = 1
  <1>1. Len(s) \in Nat /\ Len(s) > 0 BY EmptySeq
  <1>2. Last(s) = s[Len(s)] /\ Last(s) \in S BY <1>1 DEF Last
  <1> DEFINE n == Len(s) - 1
  <1>3. 1 \in Int /\ n \in Int /\ \A k \in 1..n : s[k] \in S BY <1>1
  <1>4. /\ SubSeq(s, 1, n) \in Seq(S)
        /\ Len(SubSeq(s, 1, n)) = IF 1 <= n THEN n - 1 + 1 ELSE 0
        /\ \A k \in 1..(n - 1 + 1) : SubSeq(s, 1, n)[k] = s[1 + k - 1]
    <2> HIDE DEF n
    <2> QED BY <1>3, SubSeqProperties
  <1>5. Front(s) = SubSeq(s, 1, n) BY DEF Front
  <1>6. Len(Front(s)) = Len(s) - 1 /\ \A k \in 1..(Len(s) - 1) : Front(s)[k] = s[k]
    <2>1. n \in Nat BY <1>1
    <2>2. n - 1 + 1 = n /\ \A k \in 1..n : 1 + k - 1 = k BY <2>1
    <2> HIDE DEF n
    <2>3. Len(Front(s)) = n /\ \A k \in 1..n : Front(s)[k] = s[k] BY <1>4, <1>5, <2>1, <2>2
    <2> QED BY <2>3 DEF n
  <1>7. Front(s) = <<>> <=> Len(Front(s)) = 0 BY <1>4, <1>5, EmptySeq
  <1> QED BY <1>1, <1>2, <1>4, <1>5, <1>6, <1>7

(* The changes of the stack.                                                  *)
Pops ==
    /\ Len(stack') = Len(stack) - 1
    /\ \A k \in 1..(Len(stack) - 1) : stack'[k] = stack[k]
Puts(f) ==
    /\ Len(stack') = Len(stack) /\ stack'[Len(stack)] = f
    /\ \A k \in 1..(Len(stack) - 1) : stack'[k] = stack[k]
Pushes(f) ==
    /\ Len(stack') = Len(stack) + 1 /\ stack'[Len(stack) + 1] = f
    /\ \A k \in 1..Len(stack) : stack'[k] = stack[k]
PutsAndPushes(f, g) ==
    /\ Len(stack') = Len(stack) + 1
    /\ stack'[Len(stack)] = f /\ stack'[Len(stack) + 1] = g
    /\ \A k \in 1..(Len(stack) - 1) : stack'[k] = stack[k]
Jumped(label) == [Last(stack) EXCEPT !.at = label]

LEMMA StackType ==
    ASSUME stack \in Seq(Frames)
    PROVE  /\ Len(stack) \in Nat /\ DOMAIN stack = 1..Len(stack)
           /\ \A k \in DOMAIN stack : stack[k] \in Frames
           /\ stack = <<>> <=> Len(stack) = 0
           /\ stack # <<>> => Last(stack) = stack[Len(stack)]
  BY EmptySeq DEF Last

LEMMA PopChanges ==
    ASSUME stack \in Seq(Frames), stack # <<>>, stack' = Below
    PROVE  stack' \in Seq(Frames) /\ Pops
  BY LastAndBelow DEF Below, Pops

LEMMA PutChanges ==
    ASSUME stack \in Seq(Frames), stack # <<>>, NEW f \in Frames, stack' = Append(Below, f)
    PROVE  stack' \in Seq(Frames) /\ Puts(f)
  <1>1. Below \in Seq(Frames) /\ Len(Below) = Len(stack) - 1 /\ Len(stack) \in Nat
        /\ \A k \in 1..(Len(stack) - 1) : Below[k] = stack[k]
    BY LastAndBelow DEF Below
  <1>2. /\ Append(Below, f) \in Seq(Frames)
        /\ Len(Append(Below, f)) = Len(Below) + 1
        /\ \A k \in 1..Len(Below) : Append(Below, f)[k] = Below[k]
        /\ Append(Below, f)[Len(Below) + 1] = f
    BY <1>1, AppendProperties
  <1> QED BY <1>1, <1>2 DEF Puts

LEMMA PushChanges ==
    ASSUME stack \in Seq(Frames), NEW f \in Frames, stack' = Append(stack, f)
    PROVE  stack' \in Seq(Frames) /\ Pushes(f)
  BY AppendProperties DEF Pushes

LEMMA PutAndPushChanges ==
    ASSUME stack \in Seq(Frames), stack # <<>>, NEW f \in Frames, NEW g \in Frames,
           stack' = Append(Append(Below, f), g)
    PROVE  stack' \in Seq(Frames) /\ PutsAndPushes(f, g)
  <1> DEFINE s == Append(Below, f)
  <1>1. Below \in Seq(Frames) /\ Len(Below) = Len(stack) - 1 /\ Len(stack) \in Nat
        /\ \A k \in 1..(Len(stack) - 1) : Below[k] = stack[k]
    BY LastAndBelow DEF Below
  <1>2. /\ s \in Seq(Frames)
        /\ Len(s) = Len(Below) + 1
        /\ \A k \in 1..Len(Below) : s[k] = Below[k]
        /\ s[Len(Below) + 1] = f
    BY <1>1, AppendProperties
  <1> HIDE DEF s
  <1>3. /\ Append(s, g) \in Seq(Frames)
        /\ Len(Append(s, g)) = Len(s) + 1
        /\ \A k \in 1..Len(s) : Append(s, g)[k] = s[k]
        /\ Append(s, g)[Len(s) + 1] = g
    BY <1>2, AppendProperties
  <1>4. stack' = Append(s, g) BY DEF s
  <1> QED BY <1>1, <1>2, <1>3, <1>4 DEF PutsAndPushes

LEMMA FrameType ==
    ASSUME TypeOK
    PROVE  /\ \A label \in Labels : /\ Frame(label) \in Frames /\ Frame(label).at = label
                                    /\ Frame(label).commands = <<>>
           /\ stack # <<>> => Last(stack) \in Frames
           /\ stack # <<>> => \A label \in Labels :
                 /\ Jumped(label) \in Frames /\ Jumped(label).at = label
                 /\ Jumped(label).commands = Last(stack).commands
                 /\ Jumped(label).slot = Last(stack).slot
  <1>1. stack # <<>> => Last(stack) \in Frames BY LastAndBelow DEF TypeOK
  <1>2. Slots \in Nat BY BuildAssumption
  <1>3. \A label \in Labels : Frame(label) \in Frames /\ Frame(label).at = label
                              /\ Frame(label).commands = <<>>
    BY <1>2, EmptySeq DEF Frame, Frames, States
  <1> QED BY <1>1, <1>3 DEF Jumped, Frames

LEMMA JumpChanges ==
    ASSUME TypeOK, NEW label \in Labels, At(label) \/ stack # <<>>, stack' = Jump(label)
    PROVE  stack' \in Seq(Frames) /\ Puts(Jumped(label))
  <1>1. stack # <<>> /\ stack \in Seq(Frames) BY DEF At, TypeOK
  <1> QED BY <1>1, FrameType, PutChanges DEF Jump, Jumped

(* How each step changes the stack.                                          *)
LEMMA StepsThatPop ==
    ASSUME TypeOK, QueueWaits \/ QueueEnds \/ EndJobs \/ ManageNothing \/ Managed
    PROVE  stack # <<>> /\ stack' = Below /\ stack' \in Seq(Frames) /\ Pops
  <1>1. stack # <<>> /\ stack' = Below
    BY DEF QueueWaits, QueueEnds, EndJobs, ManageNothing, Managed, At
  <1> QED BY <1>1, PopChanges DEF TypeOK

LEMMA StepsThatRun ==
    ASSUME TypeOK, RunCommand \/ QueueFound \/ EndFound
    PROVE  stack # <<>> /\ stack' \in Seq(Frames) /\ Puts(Jumped("run"))
  <1>1. stack # <<>> /\ stack' = Jump("run")
    BY DEF RunCommand, QueueFound, EndFound, StartCommand, RefuseCommand, At
  <1> QED BY <1>1, JumpChanges DEF Labels

LEMMA StepsThatJump ==
    ASSUME TypeOK
    PROVE  /\ GoOn("queueTest", "queueLoop") =>
                  stack # <<>> /\ stack' \in Seq(Frames) /\ Puts(Jumped("queueLoop"))
           /\ GoOn("endTest", "endLoop") =>
                  stack # <<>> /\ stack' \in Seq(Frames) /\ Puts(Jumped("endLoop"))
           /\ LeaveState \/ NextProjectStarted =>
                  stack # <<>> /\ stack' \in Seq(Frames) /\ Puts(Jumped("last"))
  <1>1. ASSUME GoOn("queueTest", "queueLoop")
        PROVE  stack # <<>> /\ stack' \in Seq(Frames) /\ Puts(Jumped("queueLoop"))
    BY <1>1, JumpChanges DEF GoOn, At, Labels
  <1>2. ASSUME GoOn("endTest", "endLoop")
        PROVE  stack # <<>> /\ stack' \in Seq(Frames) /\ Puts(Jumped("endLoop"))
    BY <1>2, JumpChanges DEF GoOn, At, Labels
  <1>3. ASSUME LeaveState \/ NextProjectStarted
        PROVE  stack # <<>> /\ stack' \in Seq(Frames) /\ Puts(Jumped("last"))
    BY <1>3, JumpChanges DEF LeaveState, NextProjectStarted, At, Labels, Yields
  <1> QED BY <1>1, <1>2, <1>3

LEMMA StepsThatYield ==
    ASSUME TypeOK, ~IsProcessRunning
    PROVE  /\ Manage("queueLoop", "queueTest") =>
                  stack # <<>> /\ stack' \in Seq(Frames)
                  /\ PutsAndPushes(Jumped("queueTest"), Frame("yield"))
           /\ Manage("endLoop", "endTest") =>
                  stack # <<>> /\ stack' \in Seq(Frames)
                  /\ PutsAndPushes(Jumped("endTest"), Frame("yield"))
           /\ StartNextProject =>
                  stack # <<>> /\ stack' \in Seq(Frames)
                  /\ PutsAndPushes(Jumped("projectDone"), Frame("yield"))
  <1>1. ASSUME NEW label \in Labels, stack # <<>>, stack' = Append(Jump(label), Frame("yield"))
        PROVE  stack' \in Seq(Frames) /\ PutsAndPushes(Jumped(label), Frame("yield"))
    <2>1. "yield" \in Labels BY DEF Labels, Yields
    <2>2. stack' = Append(Append(Below, Jumped(label)), Frame("yield")) BY <1>1 DEF Jump, Jumped
    <2> QED BY <1>1, <2>1, <2>2, FrameType, PutAndPushChanges DEF TypeOK
  <1>2. {"queueTest", "endTest", "projectDone"} \subseteq Labels BY DEF Labels
  <1>3. ASSUME Manage("queueLoop", "queueTest")
        PROVE  stack # <<>> /\ stack' = Append(Jump("queueTest"), Frame("yield"))
    BY <1>3 DEF Manage, At
  <1>4. ASSUME Manage("endLoop", "endTest")
        PROVE  stack # <<>> /\ stack' = Append(Jump("endTest"), Frame("yield"))
    BY <1>4 DEF Manage, At
  <1>5. ASSUME StartNextProject
        PROVE  stack # <<>> /\ stack' = Append(Jump("projectDone"), Frame("yield"))
    BY <1>5 DEF StartNextProject, At
  <1> QED BY <1>1, <1>2, <1>3, <1>4, <1>5

LEMMA Entered ==
    ASSUME TypeOK, EnterState
    PROVE  \E commands \in StageCommands(m_NextBuildState, building) :
               stack' = Append(Below, [Frame("commands") EXCEPT !.state = m_NextBuildState,
                                                                !.commands = commands])
  BY DEF EnterState

-----------------------------------------------------------------------------
(* The commands of a stage are a queue of the kind the scheduler relies on.   *)
Good(commands) == commands \in Seq(Commands) /\ OneTarget(commands) /\ Waits(commands)

LEMMA OneCommandIsGood ==
    ASSUME NEW t \in Targets, NEW stage \in {"pre", "link", "post"}
    PROVE  Good(<<Command(t, stage, 0, TRUE)>>)
  BY DEF Good, Command, Commands, OneTarget, Waits

LEMMA NoCommandIsGood == Good(<<>>)
  <1>1. DOMAIN <<>> = {} OBVIOUS
  <1> QED BY <1>1, EmptySeq DEF Good, OneTarget, Waits

LEMMA CompileCommandsAreGood ==
    ASSUME LoopAssumption, NEW t \in Targets, NEW commands \in CompileCommands(t)
    PROVE  Good(commands)
  <1>1. Link(t) = <<Command(t, "link", 0, TRUE)>> BY DEF Link, LoopAssumption
  <1>2. CASE commands = <<>> BY <1>2, NoCommandIsGood
  <1>3. CASE commands = Link(t) BY <1>1, <1>3, OneCommandIsGood
  <1>4. ASSUME NEW n \in Compiles \ {0},
               commands = [i \in 1..n |-> Command(t, "compile", i, FALSE)] \o Link(t)
        PROVE  Good(commands)
    <2> DEFINE compilers == [i \in 1..n |-> Command(t, "compile", i, FALSE)]
    <2>1. n \in Nat /\ n > 0 BY BuildAssumption
    <2>2. \A i \in 1..n : Command(t, "compile", i, FALSE) \in Commands
      BY <2>1 DEF Command, Commands
    <2>3. compilers \in Seq(Commands) /\ Len(compilers) = n
      <3>1. compilers \in [1..n -> Commands] BY <2>2
      <3> QED BY <2>1, <3>1, FunctionIsSequence
    <2>4. Link(t) \in Seq(Commands) /\ Len(Link(t)) = 1 /\ Link(t)[1] = Command(t, "link", 0, TRUE)
      BY <1>1 DEF Command, Commands
    <2>5. \A i \in 1..n : compilers[i] = Command(t, "compile", i, FALSE) OBVIOUS
    <2> HIDE DEF compilers
    <2>6. /\ commands \in Seq(Commands) /\ Len(commands) = n + 1
          /\ \A i \in 1..(n + 1) :
                 commands[i] = IF i <= n THEN compilers[i] ELSE Link(t)[i - n]
      <3>1. commands = compilers \o Link(t) BY <1>4 DEF compilers
      <3>2. /\ compilers \o Link(t) \in Seq(Commands)
            /\ Len(compilers \o Link(t)) = Len(compilers) + Len(Link(t))
            /\ \A i \in 1..(Len(compilers) + Len(Link(t))) : (compilers \o Link(t))[i] =
                   IF i <= Len(compilers) THEN compilers[i] ELSE Link(t)[i - Len(compilers)]
        BY <2>3, <2>4, ConcatProperties
      <3> QED BY <2>3, <2>4, <3>1, <3>2
    <2>7. commands[n + 1] = Command(t, "link", 0, TRUE)
      <3> DEFINE m == n + 1
      <3>1. m \in 1..m /\ ~(m <= n) /\ m - n = 1 BY <2>1
      <3>2. \A i \in 1..m : commands[i] = IF i <= n THEN compilers[i] ELSE Link(t)[i - n]
        BY <2>6
      <3> HIDE DEF m
      <3>3. commands[m] = Command(t, "link", 0, TRUE) BY <2>4, <3>1, <3>2
      <3> QED BY <3>3 DEF m
    <2>8. \A i \in 1..n : commands[i] = Command(t, "compile", i, FALSE)
      <3>1. \A i \in 1..n : i \in 1..(n + 1) /\ i <= n BY <2>1
      <3> QED BY <2>5, <2>6, <3>1
    <2>9. Waits(commands)
      <3>1. commands[n + 1].wait BY <2>7 DEF Command
      <3> QED BY <2>6, <3>1 DEF Waits
    <2>10. OneTarget(commands)
      <3>1. DOMAIN commands = 1..(n + 1) BY <2>1, <2>6
      <3>2. 1 \in 1..n BY <2>1
      <3>4. ASSUME NEW i \in 1..n
            PROVE  /\ commands[i].target = t /\ ~commands[i].wait
                   /\ commands[i].stage = "compile"
        <4>1. commands[i] = Command(t, "compile", i, FALSE) BY <2>8
        <4> QED BY <4>1 DEF Command
      <3>3. commands[1].target = t BY <3>2, <3>4
      <3>5. commands[n + 1].target = t /\ commands[n + 1].wait BY <2>7 DEF Command
      <3>6. \A i \in 1..(n + 1) : i \in 1..n \/ i = n + 1 BY <2>1
      <3> QED BY <2>1, <2>6, <3>1, <3>3, <3>4, <3>5, <3>6 DEF OneTarget
    <2> QED BY <2>6, <2>9, <2>10 DEF Good
  <1> QED BY <1>2, <1>3, <1>4 DEF CompileCommands

Clean0 == {"bsNone", "bsProjectPreBuild", "bsTargetClean", "bsTargetDone", "bsProjectDone"}
LEMMA StageCommandsAreGood ==
    ASSUME LoopAssumption, NEW state \in States, building \in Targets,
           NEW commands \in StageCommands(state, building)
    PROVE  /\ Good(commands)
           /\ ~m_Build /\ state \in Clean0 => commands = <<>>
  <1>1. \A owner, having : \A stage \in {"pre", "post"} : Good(Step(owner, building, stage, having))
    BY OneCommandIsGood, NoCommandIsGood DEF Step
  <1>2. CASE state = "bsProjectPreBuild"
    <2>1. StageCommands(state, building) =
            {IF m_Build THEN Step(ProjectOf[building], building, "pre", PreBuild) ELSE <<>>}
      BY <1>2 DEF StageCommands
    <2> QED BY <1>1, <1>2, <2>1, NoCommandIsGood
  <1>3. CASE state = "bsTargetPreBuild"
    <2>1. StageCommands(state, building) =
            {Step(building, building, "pre", PreBuild)}
      BY <1>3 DEF StageCommands
    <2> QED BY <1>1, <1>3, <2>1, NoCommandIsGood DEF Clean0
  <1>4. CASE state = "bsTargetBuild"
    BY <1>4, CompileCommandsAreGood DEF StageCommands, Clean0
  <1>5. CASE state = "bsTargetPostBuild"
    <2>1. StageCommands(state, building) =
            {IF m_RunTargetPostBuild \/ building \in AlwaysPost
             THEN Step(building, building, "post", PostBuild) ELSE <<>>}
      BY <1>5 DEF StageCommands
    <2> QED BY <1>1, <1>5, <2>1, NoCommandIsGood DEF Clean0
  <1>6. CASE state = "bsProjectPostBuild"
    <2>1. StageCommands(state, building) =
            {IF m_RunProjectPostBuild \/ ProjectOf[building] \in AlwaysPost
             THEN Step(ProjectOf[building], building, "post", PostBuild) ELSE <<>>}
      BY <1>6 DEF StageCommands
    <2> QED BY <1>1, <1>6, <2>1, NoCommandIsGood DEF Clean0
  <1>7. CASE state \in {"bsNone", "bsTargetClean", "bsTargetDone", "bsProjectDone"}
    BY <1>7, NoCommandIsGood DEF StageCommands
  <1> QED BY <1>2, <1>3, <1>4, <1>5, <1>6, <1>7 DEF States

-----------------------------------------------------------------------------
(* Types.                                                                     *)
Request == [workspace : BOOLEAN, jobs : Seq(Targets)]
Rests == {<<>>, <<Frame("rebuild")>>}

LEMMA TypeOfDoBuild ==
    ASSUME TypeOK, NEW r \in Request, NEW clean \in BOOLEAN, NEW build \in BOOLEAN,
           NEW lastStep \in BOOLEAN, NEW rest \in Rests,
           DoBuild(r, clean, build, lastStep, rest),
           requests' \in 0..MaxRequests, failed' \in BOOLEAN, aborted' \in BOOLEAN
    PROVE  TypeOK'
  <1> DEFINE list == PreprocessJob(r)
  <1>1. list \in Seq(Targets)
    <2>1. r.jobs \in Seq(Targets) /\ m_BuildJobTargetsList \in Seq(Targets) /\ <<>> \in Seq(Targets)
      BY DEF TypeOK, Request
    <2>2. CASE m_IsWorkspaceOperation \/ r.workspace
      BY <2>1, <2>2, ConcatProperties DEF PreprocessJob
    <2>3. CASE ~(m_IsWorkspaceOperation \/ r.workspace)
      BY <2>1, <2>3, ConcatProperties DEF PreprocessJob
    <2> QED BY <2>2, <2>3
  <1>2. rest \in Seq(Frames)
    <2>1. Frame("rebuild") \in Frames BY FrameType DEF Labels
    <2>2. <<Frame("rebuild")>> \in Seq(Frames) BY <2>1
    <2>3. <<>> \in Seq(Frames) BY EmptySeq
    <2> QED BY <2>2, <2>3 DEF Rests
  <1>3. rest \o <<Frame("run"), Frame("yield")>> \in Seq(Frames)
    <2>1. Frame("run") \in Frames /\ Frame("yield") \in Frames BY FrameType DEF Labels, Yields
    <2>2. <<Frame("run"), Frame("yield")>> \in Seq(Frames) BY <2>1
    <2> QED BY <1>2, <2>2, ConcatProperties
  <1>4. /\ m_LastBuildStep' = lastStep /\ asked' = r /\ due' = list /\ built' = <<>>
        /\ UNCHANGED <<postVars, procVars, aborts, refusals>>
    BY DEF DoBuild
  <1>5. /\ pProcess' \in [1..Slots -> BOOLEAN] /\ PID' \in [1..Slots -> BOOLEAN]
        /\ \A p \in processes' : p \in [slot : 1..Slots, command : Commands]
        /\ events' \in Seq([slot : 1..Slots, code : {0, 1}]) /\ handling' \in BOOLEAN
        /\ m_RunTargetPostBuild' \in BOOLEAN /\ m_RunProjectPostBuild' \in BOOLEAN
        /\ aborts' \in 0..MaxAborts /\ refusals' \in 0..MaxRefusals
        /\ asked' \in Request /\ m_LastBuildStep' \in BOOLEAN
        /\ due' \in Seq(Targets) /\ built' \in Seq(Targets)
    BY <1>1, <1>4 DEF TypeOK, postVars, procVars
  <1>6. CASE list = <<>>
    <2>1. /\ IF lastStep THEN finished' = finished + 1 /\ reported' = m_LastExitCode
                          ELSE UNCHANGED <<finished, reported>>
          /\ m_LastExitCode' = IF lastStep THEN 0 ELSE m_LastExitCode
          /\ m_BuildJobTargetsList' = list
          /\ m_IsWorkspaceOperation' = (m_IsWorkspaceOperation \/ r.workspace)
          /\ stack' = rest
          /\ UNCHANGED <<jobVars, m_CommandQueue, m_Clean, m_Build>>
      BY <1>6 DEF DoBuild
    <2>2. m_IsWorkspaceOperation' \in BOOLEAN BY <2>1 DEF Request, TypeOK
    <2>3. m_LastExitCode' \in {0, 1} /\ reported' \in {0, 1} /\ finished' \in Nat
      BY <2>1 DEF TypeOK
    <2> HIDE DEF list
    <2> QED BY <1>1, <1>2, <1>5, <2>1, <2>2, <2>3 DEF TypeOK, jobVars, Request
  <1>7. CASE list # <<>>
    <2>1. /\ InitBuildState(IF r.workspace THEN "bjWorkspace" ELSE "bjProject")
          /\ building' = Head(list) /\ m_BuildJobTargetsList' = Tail(list)
          /\ m_Clean' = clean /\ m_Build' = build
          /\ m_IsWorkspaceOperation' = (m_IsWorkspaceOperation /\ ~r.workspace)
          /\ stack' = rest \o <<Frame("run"), Frame("yield")>>
          /\ UNCHANGED exitVars
      BY <1>7 DEF DoBuild
    <2>2. m_IsWorkspaceOperation' \in BOOLEAN BY <2>1 DEF Request, TypeOK
    <2>3. Head(list) \in Targets /\ Tail(list) \in Seq(Targets)
      BY <1>1, <1>7, HeadTailProperties
    <2>4. /\ m_BuildJob' \in Jobs /\ m_BuildState' \in States /\ m_NextBuildState' \in States
          /\ m_CommandQueue' \in Seq(Commands)
      BY <2>1 DEF InitBuildState, Jobs, States
    <2> HIDE DEF list
    <2> QED BY <1>3, <1>5, <2>1, <2>2, <2>3, <2>4 DEF TypeOK, exitVars, Request
  <1> QED BY <1>6, <1>7

(* The builds the user may ask for.                                           *)
Asked(clean, build, lastStep, rest) ==
    /\ clean \/ build
    /\ \/ rest = <<>> /\ lastStep \in {TRUE, m_LastBuildStep}
       \/ rest = <<Frame("rebuild")>> /\ ~lastStep /\ ~build
    /\ \E op \in Requests : Ask(op)
    /\ \E r \in Request : DoBuild(r, clean, build, lastStep, rest)

LEMMA UserAsks ==
    ASSUME TypeOK, User
    PROVE  \/ CompileFile
           \/ \E clean, build, lastStep \in BOOLEAN : \E rest \in Rests :
                  Asked(clean, build, lastStep, rest)
  <1>1. ProjectRequest \cup WorkspaceRequest \subseteq Request
    <2>1. ASSUME NEW jobs \in Seq(Targets), NEW workspace \in BOOLEAN
          PROVE  [workspace |-> workspace, jobs |-> jobs] \in Request
      BY DEF Request
    <2>2. \A jobs \in Seq(Targets) : [workspace |-> FALSE, jobs |-> jobs] \in Request BY <2>1
    <2>3. \A jobs \in Seq(Targets) : [workspace |-> TRUE, jobs |-> jobs] \in Request BY <2>1
    <2>4. ProjectRequest \subseteq Request BY <2>2, BuildAssumption DEF ProjectRequest
    <2>5. WorkspaceRequest \subseteq Request BY <2>3, BuildAssumption DEF WorkspaceRequest
    <2> QED BY <2>4, <2>5
  <1>2. m_LastBuildStep \in BOOLEAN /\ TRUE \in BOOLEAN /\ FALSE \in BOOLEAN BY DEF TypeOK
  <1>3. <<>> \in Rests /\ <<Frame("rebuild")>> \in Rests BY DEF Rests
  <1>4. \A op : Ask(op) => op \in Requests BY DEF Ask
  <1>5. CASE Build
    <2>1. Asked(FALSE, TRUE, TRUE, <<>>) BY <1>1, <1>4, <1>5 DEF Build, Asked
    <2> QED BY <1>2, <1>3, <2>1
  <1>6. CASE Clean
    <2>1. Asked(TRUE, FALSE, TRUE, <<>>) BY <1>1, <1>4, <1>6 DEF Clean, Asked
    <2> QED BY <1>2, <1>3, <2>1
  <1>7. CASE BuildWorkspace
    <2>1. Asked(FALSE, TRUE, m_LastBuildStep, <<>>) BY <1>1, <1>4, <1>7 DEF BuildWorkspace, Asked
    <2> QED BY <1>2, <1>3, <2>1
  <1>8. CASE CleanWorkspace
    <2>1. Asked(TRUE, FALSE, m_LastBuildStep, <<>>) BY <1>1, <1>4, <1>8 DEF CleanWorkspace, Asked
    <2> QED BY <1>2, <1>3, <2>1
  <1>9. CASE Rebuild
    <2>1. PICK r \in Request :
              \/ DoBuild(r, TRUE, TRUE, TRUE, <<>>)
              \/ DoBuild(r, TRUE, FALSE, FALSE, <<Frame("rebuild")>>)
      BY <1>1, <1>9 DEF Rebuild
    <2>2. \E op \in Requests : Ask(op) BY <1>4, <1>9 DEF Rebuild
    <2>3. CASE DoBuild(r, TRUE, TRUE, TRUE, <<>>)
      <3>1. Asked(TRUE, TRUE, TRUE, <<>>) BY <2>2, <2>3 DEF Asked
      <3> QED BY <1>2, <1>3, <3>1
    <2>4. CASE DoBuild(r, TRUE, FALSE, FALSE, <<Frame("rebuild")>>)
      <3>1. Asked(TRUE, FALSE, FALSE, <<Frame("rebuild")>>) BY <2>2, <2>4 DEF Asked
      <3> QED BY <1>2, <1>3, <3>1
    <2> QED BY <2>1, <2>3, <2>4
  <1> QED BY <1>5, <1>6, <1>7, <1>8, <1>9 DEF User

LEMMA TypeOfUser == TypeOK /\ User => TypeOK'
  <1> SUFFICES ASSUME TypeOK, User PROVE TypeOK'
    OBVIOUS
  <1>0. \A op : Ask(op) => requests' \in 0..MaxRequests /\ failed' = FALSE /\ aborted' = FALSE
    BY BuildAssumption DEF Ask, TypeOK
  <1>1. ASSUME NEW clean \in BOOLEAN, NEW build \in BOOLEAN, NEW lastStep \in BOOLEAN,
               NEW rest \in Rests, Asked(clean, build, lastStep, rest)
        PROVE  TypeOK'
    <2>1. PICK r \in Request : DoBuild(r, clean, build, lastStep, rest) BY <1>1 DEF Asked
    <2>2. requests' \in 0..MaxRequests /\ failed' = FALSE /\ aborted' = FALSE BY <1>0, <1>1 DEF Asked
    <2> QED BY <2>1, <2>2, TypeOfDoBuild
  <1>2. CASE CompileFile
    <2>1. PICK t \in Targets : m_CommandQueue' = <<Command(t, "compile", 1, FALSE)>>
      BY <1>2 DEF CompileFile
    <2>2. m_CommandQueue' \in Seq(Commands) BY <2>1 DEF Command, Commands
    <2>3. stack' \in Seq(Frames) BY <1>2, FrameType DEF CompileFile, Labels
    <2>4. asked' \in Request BY <1>2 DEF CompileFile, NoRequest, Request
    <2>5. requests' \in 0..MaxRequests /\ failed' = FALSE /\ aborted' = FALSE BY <1>0, <1>2 DEF CompileFile
    <2>6. UNCHANGED <<jobVars, modeVars, postVars, m_BuildJobTargetsList, procVars, exitVars,
                      aborts, refusals>>
      BY <1>2 DEF CompileFile
    <2>7. due' \in Seq(Targets) /\ built' \in Seq(Targets) BY <1>2, EmptySeq DEF CompileFile
    <2> QED BY <2>2, <2>3, <2>4, <2>5, <2>6, <2>7
        DEF TypeOK, jobVars, modeVars, postVars, procVars, exitVars, Request
  <1> QED BY <1>1, <1>2, UserAsks

LEMMA TypeOfStart ==
    ASSUME TypeOK, NEW i \in 1..Slots, StartCommand(i), stack' \in Seq(Frames)
    PROVE  TypeOK'
  <1>1. Head(m_CommandQueue) \in Commands /\ m_CommandQueue' \in Seq(Commands)
    BY HeadTailProperties DEF StartCommand, TypeOK
  <1>2. [slot |-> i, command |-> Head(m_CommandQueue)] \in [slot : 1..Slots, command : Commands]
    BY <1>1
  <1>3. \A p \in processes' : p \in [slot : 1..Slots, command : Commands]
    BY <1>2 DEF StartCommand, Execute, TypeOK
  <1>4. /\ pProcess' \in [1..Slots -> BOOLEAN] /\ PID' \in [1..Slots -> BOOLEAN]
        /\ UNCHANGED <<events, handling>>
    BY DEF StartCommand, Execute, TypeOK
  <1>5. UNCHANGED <<jobVars, modeVars, postVars, m_BuildJobTargetsList, exitVars, ghostVars, boundVars>>
    BY DEF StartCommand
  <1> QED BY <1>1, <1>3, <1>4, <1>5
      DEF TypeOK, jobVars, modeVars, postVars, exitVars, ghostVars, boundVars

LEMMA TypeOfReset ==
    ASSUME ResetBuildState
    PROVE  /\ m_BuildJob' \in Jobs /\ m_BuildState' \in States /\ m_NextBuildState' \in States
           /\ building' \in Targets \cup {NoTarget} /\ m_CommandQueue' \in Seq(Commands)
  BY EmptySeq DEF ResetBuildState, Jobs, States

LEMMA TypeOfRefuse ==
    ASSUME TypeOK, RefuseCommand, stack' \in Seq(Frames)
    PROVE  TypeOK'
  <1>1. ResetBuildState BY DEF RefuseCommand
  <1>2. refusals' \in 0..MaxRefusals /\ failed' = TRUE
    BY BuildAssumption DEF RefuseCommand, TypeOK
  <1>3. UNCHANGED <<modeVars, postVars, m_BuildJobTargetsList, procVars, exitVars, asked,
                    aborted, due, built, requests, aborts>>
    BY DEF RefuseCommand
  <1> QED BY <1>1, <1>2, <1>3, TypeOfReset DEF TypeOK, modeVars, postVars, procVars, exitVars

LEMMA TypeOfNotify ==
    ASSUME TypeOK, NEW code \in {0, 1}, NEW running, NotifyJobDone(code, running)
    PROVE  m_LastExitCode' \in {0, 1} /\ reported' \in {0, 1} /\ finished' \in Nat
  BY DEF NotifyJobDone, TypeOK

OnlyStack == UNCHANGED <<jobVars, modeVars, postVars, m_BuildJobTargetsList, m_CommandQueue,
                         procVars, exitVars, ghostVars, boundVars>>

LEMMA SlotIsAvailable ==
    ASSUME Available # {}
    PROVE  GetNextAvailableProcessIndex \in Available /\ GetNextAvailableProcessIndex \in 1..Slots
  <1>1. Available \subseteq Nat /\ Available \subseteq 1..Slots BY BuildAssumption DEF Available
  <1>2. \E i \in Available : \A j \in Available : i <= j BY <1>1, LeastNatural
  <1> QED BY <1>1, <1>2 DEF GetNextAvailableProcessIndex

LEMMA TypeOfQueue ==
    ASSUME TypeOK, DoRunQueue, At("queueTest") => Last(stack).slot \in 1..Slots
    PROVE  TypeOK'
  <1>1. ASSUME OnlyStack, stack' \in Seq(Frames) PROVE TypeOK'
    BY <1>1 DEF OnlyStack, TypeOK, jobVars, modeVars, postVars, procVars, exitVars, ghostVars, boundVars
  <1>2. CASE QueueWaits
    <2>1. OnlyStack BY <1>2 DEF QueueWaits, OnlyStack
    <2> QED BY <1>1, <1>2, <2>1, StepsThatPop
  <1>3. CASE RunCommand
    <2>1. stack' \in Seq(Frames) BY <1>3, StepsThatRun
    <2>2. GetNextAvailableProcessIndex \in 1..Slots BY <1>3, SlotIsAvailable DEF RunCommand
    <2> QED BY <1>3, <2>1, <2>2, TypeOfStart, TypeOfRefuse DEF RunCommand
  <1>4. CASE QueueEmpty
    <2> DEFINE f == [Frame("queueLoop") EXCEPT !.slot = GetNextAvailableProcessIndex]
    <2>1. GetNextAvailableProcessIndex \in 1..Slots BY <1>4, SlotIsAvailable DEF QueueEmpty
    <2>2. f \in Frames
      <3>1. GetNextAvailableProcessIndex \in 0..Slots BY <2>1, BuildAssumption
      <3>2. Frame("queueLoop") \in Frames BY FrameType DEF Labels
      <3> QED BY <3>1, <3>2 DEF Frames
    <2>3. stack # <<>> /\ stack' = Append(Below, f) /\ OnlyStack
      BY <1>4 DEF QueueEmpty, At, OnlyStack
    <2>4. stack' \in Seq(Frames)
      <3> HIDE DEF f
      <3> QED BY <2>2, <2>3, PutChanges DEF TypeOK
    <2> QED BY <1>1, <2>3, <2>4
  <1>5. ASSUME NEW from \in Labels, NEW to \in Labels, Manage(from, to) PROVE TypeOK'
    <2>1. stack # <<>> /\ OnlyStack BY <1>5 DEF Manage, At, OnlyStack
    <2>2. Jump(to) \in Seq(Frames)
      <3>1. Below \in Seq(Frames) BY <2>1, LastAndBelow DEF TypeOK, Below
      <3> QED BY <2>1, <3>1, FrameType, AppendProperties DEF Jump, Jumped
    <2>3. Append(Jump(to), Frame("yield")) \in Seq(Frames)
      BY <2>2, FrameType, AppendProperties DEF Labels, Yields
    <2>4. stack' \in Seq(Frames) BY <1>5, <2>2, <2>3 DEF Manage
    <2> QED BY <1>1, <2>1, <2>4
  <1>6. CASE QueueFound
    <2>1. stack' \in Seq(Frames) BY <1>6, StepsThatRun
    <2>2. Last(stack).slot \in 1..Slots BY <1>6 DEF QueueFound
    <2> QED BY <1>6, <2>1, <2>2, TypeOfStart, TypeOfRefuse DEF QueueFound
  <1>7. CASE QueueEnds
    <2>1. stack' \in Seq(Frames) BY <1>7, StepsThatPop
    <2>2. ResetBuildState /\ NotifyJobDone(m_LastExitCode, IsProcessRunning)
          /\ UNCHANGED <<modeVars, postVars, m_BuildJobTargetsList, procVars, ghostVars, boundVars>>
      BY <1>7 DEF QueueEnds
    <2>3. m_LastExitCode' \in {0, 1} /\ reported' \in {0, 1} /\ finished' \in Nat
      BY <2>2, TypeOfNotify DEF TypeOK
    <2> QED BY <2>1, <2>2, <2>3, TypeOfReset
        DEF TypeOK, modeVars, postVars, procVars, ghostVars, boundVars
  <1>8. CASE GoOn("queueTest", "queueLoop")
    <2>1. OnlyStack BY <1>8 DEF GoOn, OnlyStack
    <2> QED BY <1>1, <1>8, <2>1, StepsThatJump
  <1>9. {"queueLoop", "queueTest"} \subseteq Labels BY DEF Labels
  <1> QED BY <1>2, <1>3, <1>4, <1>5, <1>6, <1>7, <1>8, <1>9 DEF DoRunQueue

LEMMA TypeOfTake ==
    ASSUME TypeOK, NEW code, TakeEvent(code)
    PROVE  /\ pProcess' \in [1..Slots -> BOOLEAN] /\ PID' \in [1..Slots -> BOOLEAN]
           /\ \A p \in processes' : p \in [slot : 1..Slots, command : Commands]
           /\ events' \in Seq([slot : 1..Slots, code : {0, 1}]) /\ handling' \in BOOLEAN
           /\ events # <<>> /\ Head(events).slot \in 1..Slots
  <1>1. /\ events # <<>> /\ events' = Tail(events) /\ handling' = (Tail(events) # <<>>)
        /\ PID' = [PID EXCEPT ![Head(events).slot] = FALSE]
        /\ pProcess' = [pProcess EXCEPT ![Head(events).slot] = FALSE]
        /\ UNCHANGED processes
    BY DEF TakeEvent
  <1>2. Head(events) \in [slot : 1..Slots, code : {0, 1}] /\ events' \in Seq([slot : 1..Slots, code : {0, 1}])
    BY <1>1, HeadTailProperties DEF TypeOK
  <1> QED BY <1>1, <1>2 DEF TypeOK

LEMMA TypeOfJobEnd == TypeOK /\ OnJobEnd => TypeOK'
  <1> SUFFICES ASSUME TypeOK, OnJobEnd PROVE TypeOK'
    OBVIOUS
  <1>1. ASSUME OnlyStack, stack' \in Seq(Frames) PROVE TypeOK'
    BY <1>1 DEF OnlyStack, TypeOK, jobVars, modeVars, postVars, procVars, exitVars, ghostVars, boundVars
  <1>2. CASE JobSucceeds
    <2>1. TakeEvent(0) BY <1>2 DEF JobSucceeds
    <2>2. stack' \in Seq(Frames)
      <3>1. Frame("run") \in Frames /\ Frame("endLoop") \in Frames BY FrameType DEF Labels
      <3> QED BY <1>2, <3>1, AppendProperties DEF JobSucceeds, TypeOK
    <2>3. /\ UNCHANGED <<jobVars, modeVars, postVars, m_BuildJobTargetsList, m_CommandQueue,
                         finished, reported, ghostVars, boundVars>>
          /\ m_LastExitCode' = 0
      BY <1>2 DEF JobSucceeds
    <2> QED BY <2>1, <2>2, <2>3, TypeOfTake
        DEF TypeOK, jobVars, modeVars, postVars, ghostVars, boundVars
  <1>3. CASE JobFails
    <2>1. TakeEvent(1) /\ ResetBuildState /\ NotifyJobDone(1, StillRunning) BY <1>3 DEF JobFails
    <2>2. m_LastExitCode' \in {0, 1} /\ reported' \in {0, 1} /\ finished' \in Nat
      BY <2>1, TypeOfNotify
    <2>3. /\ UNCHANGED <<stack, modeVars, postVars, asked, aborted, due, built, boundVars>>
          /\ failed' = TRUE /\ m_BuildJobTargetsList' \in Seq(Targets)
      BY <1>3, EmptySeq DEF JobFails
    <2> QED BY <2>1, <2>2, <2>3, TypeOfTake, TypeOfReset DEF TypeOK, modeVars, postVars, boundVars
  <1>5. ASSUME NEW from \in Labels, NEW to \in Labels, Manage(from, to) PROVE TypeOK'
    <2>1. stack # <<>> /\ OnlyStack BY <1>5 DEF Manage, At, OnlyStack
    <2>2. Jump(to) \in Seq(Frames)
      <3>1. Below \in Seq(Frames) BY <2>1, LastAndBelow DEF TypeOK, Below
      <3> QED BY <2>1, <3>1, FrameType, AppendProperties DEF Jump, Jumped
    <2>3. Append(Jump(to), Frame("yield")) \in Seq(Frames)
      BY <2>2, FrameType, AppendProperties DEF Labels, Yields
    <2>4. stack' \in Seq(Frames) BY <1>5, <2>2, <2>3 DEF Manage
    <2> QED BY <1>1, <2>1, <2>4
  <1>6. CASE EndFound
    <2>1. OnlyStack BY <1>6 DEF EndFound, OnlyStack
    <2> QED BY <1>1, <1>6, <2>1, StepsThatRun
  <1>7. CASE EndJobs
    <2>1. stack' \in Seq(Frames) BY <1>7, StepsThatPop
    <2>2. /\ ResetBuildState /\ NotifyJobDone(m_LastExitCode, IsProcessRunning)
          /\ m_BuildJobTargetsList' \in Seq(Targets)
          /\ UNCHANGED <<modeVars, postVars, procVars, ghostVars, boundVars>>
      BY <1>7, EmptySeq DEF EndJobs
    <2>3. m_LastExitCode' \in {0, 1} /\ reported' \in {0, 1} /\ finished' \in Nat
      BY <2>2, TypeOfNotify DEF TypeOK
    <2> QED BY <2>1, <2>2, <2>3, TypeOfReset
        DEF TypeOK, modeVars, postVars, procVars, ghostVars, boundVars
  <1>8. CASE GoOn("endTest", "endLoop")
    <2>1. OnlyStack BY <1>8 DEF GoOn, OnlyStack
    <2> QED BY <1>1, <1>8, <2>1, StepsThatJump
  <1>9. {"endLoop", "endTest"} \subseteq Labels BY DEF Labels
  <1> QED BY <1>2, <1>3, <1>5, <1>6, <1>7, <1>8, <1>9 DEF OnJobEnd

LEMMA NextStates == TypeOK => FirstTargetState \in States /\ GetNextStateBasedOnJob \in States
  BY DEF FirstTargetState, GetNextStateBasedOnJob, States, TypeOK

(* What a frame of a new state looks like.                                    *)
Entering(commands) ==
    [Frame("commands") EXCEPT !.state = m_NextBuildState, !.commands = commands]

LEMMA EnterChanges ==
    ASSUME TypeOK, LoopAssumption, EnterState
    PROVE  /\ stack # <<>> /\ stack' \in Seq(Frames)
           /\ \E commands : /\ Puts(Entering(commands)) /\ Entering(commands).at = "commands"
                            /\ Entering(commands).commands = commands
                            /\ Good(commands)
                            /\ ~m_Build /\ m_NextBuildState \in Clean0 => commands = <<>>
  <1>1. stack # <<>> /\ building \in Targets /\ m_NextBuildState \in States
    BY DEF EnterState, At, TypeOK
  <1>2. PICK commands \in StageCommands(m_NextBuildState, building) :
             stack' = Append(Below, Entering(commands))
    BY DEF EnterState, Entering
  <1>3. Good(commands) /\ (~m_Build /\ m_NextBuildState \in Clean0 => commands = <<>>)
    BY <1>1, StageCommandsAreGood
  <1>4. /\ Entering(commands) \in Frames /\ Entering(commands).at = "commands"
        /\ Entering(commands).commands = commands
    <2>1. Frame("commands") \in Frames /\ Frame("commands").at = "commands"
      BY FrameType DEF Labels, Yields
    <2>2. commands \in Seq(Commands) BY <1>3 DEF Good
    <2> QED BY <1>1, <2>1, <2>2 DEF Entering, Frames
  <1>5. stack' \in Seq(Frames) /\ Puts(Entering(commands))
    <2> DEFINE f == Entering(commands)
    <2>1. f \in Frames /\ stack' = Append(Below, f) BY <1>2, <1>4
    <2> HIDE DEF f
    <2>2. stack' \in Seq(Frames) /\ Puts(f) BY <1>1, <2>1, PutChanges DEF TypeOK
    <2> QED BY <2>2 DEF f
  <1> QED BY <1>1, <1>3, <1>4, <1>5

LEMMA TypeOfManagement == TypeOK /\ LoopAssumption /\ BuildStateManagement => TypeOK'
  <1> SUFFICES ASSUME TypeOK, LoopAssumption, BuildStateManagement PROVE TypeOK'
    OBVIOUS
  <1>1. ASSUME OnlyStack, stack' \in Seq(Frames) PROVE TypeOK'
    BY <1>1 DEF OnlyStack, TypeOK, jobVars, modeVars, postVars, procVars, exitVars, ghostVars, boundVars
  <1>2. CASE ManageNothing
    <2>1. stack' \in Seq(Frames) BY <1>2, StepsThatPop
    <2>2. /\ ResetBuildState
          /\ UNCHANGED <<modeVars, postVars, m_BuildJobTargetsList, procVars, exitVars, ghostVars,
                         boundVars>>
      BY <1>2 DEF ManageNothing
    <2> QED BY <2>1, <2>2, TypeOfReset
        DEF TypeOK, modeVars, postVars, procVars, exitVars, ghostVars, boundVars
  <1>3. CASE EnterState
    <2>1. stack' \in Seq(Frames) BY <1>3, EnterChanges
    <2>2. /\ m_BuildState' = m_NextBuildState /\ building \in Targets
          /\ built' = IF m_NextBuildState = "bsTargetBuild" THEN Append(built, building) ELSE built
          /\ UNCHANGED <<m_BuildJob, m_NextBuildState, building, modeVars, postVars,
                         m_BuildJobTargetsList, m_CommandQueue, procVars, exitVars, asked, failed,
                         aborted, due, boundVars>>
      BY <1>3 DEF EnterState, TypeOK
    <2>3. built' \in Seq(Targets) BY <2>2, AppendProperties DEF TypeOK
    <2> QED BY <2>1, <2>2, <2>3 DEF TypeOK, modeVars, postVars, procVars, exitVars, boundVars
  <1>4. CASE LeaveState
    <2>1. stack' \in Seq(Frames) /\ stack # <<>> BY <1>4, StepsThatJump
    <2>2. m_RunTargetPostBuild' \in BOOLEAN /\ m_RunProjectPostBuild' \in BOOLEAN
      BY <1>4 DEF LeaveState, RunPostBuild, TypeOK
    <2>3. m_NextBuildState' \in States BY <1>4, NextStates DEF LeaveState
    <2>4. building' \in Targets \cup {NoTarget} /\ m_BuildJobTargetsList' \in Seq(Targets)
      <3>1. CASE NextTarget
        <4>1. GetNextJob /\ m_BuildJobTargetsList # <<>>
          BY <1>4, <3>1 DEF LeaveState, NextTarget, SameProject
        <4> QED BY <4>1, HeadTailProperties DEF GetNextJob, TypeOK
      <3>2. CASE ~NextTarget BY <1>4, <3>2 DEF LeaveState, TypeOK
      <3> QED BY <3>1, <3>2
    <2>5. m_CommandQueue' \in Seq(Commands)
      <3>1. Last(stack).commands \in Seq(Commands) BY <2>1, FrameType DEF Frames
      <3>2. m_CommandQueue' = m_CommandQueue \o Last(stack).commands
        BY <1>4 DEF LeaveState, AddToCommandQueue
      <3> QED BY <3>1, <3>2, ConcatProperties DEF TypeOK
    <2>6. UNCHANGED <<m_BuildJob, m_BuildState, modeVars, procVars, exitVars, ghostVars, boundVars>>
      BY <1>4 DEF LeaveState
    <2> QED BY <2>1, <2>2, <2>3, <2>4, <2>5, <2>6
        DEF TypeOK, modeVars, procVars, exitVars, ghostVars, boundVars
  <1>5. CASE StartNextProject
    <2>1. stack # <<>> BY <1>5 DEF StartNextProject, At
    <2>2. stack' \in Seq(Frames)
      <3>1. Below \in Seq(Frames) BY <2>1, LastAndBelow DEF TypeOK, Below
      <3>2. {"projectDone", "yield"} \subseteq Labels BY DEF Labels, Yields
      <3>3. Jump("projectDone") \in Seq(Frames)
        BY <2>1, <3>1, <3>2, FrameType, AppendProperties DEF Jump, Jumped
      <3>4. Append(Jump("projectDone"), Frame("yield")) \in Seq(Frames)
        BY <3>2, <3>3, FrameType, AppendProperties
      <3> QED BY <1>5, <3>3, <3>4 DEF StartNextProject
    <2>3. GetNextJob /\ m_BuildJobTargetsList # <<>> /\ m_NextBuildState' = "bsProjectPreBuild"
      BY <1>5 DEF StartNextProject, NextProject
    <2>4. building' \in Targets /\ m_BuildJobTargetsList' \in Seq(Targets)
      BY <2>3, HeadTailProperties DEF GetNextJob, TypeOK
    <2>5. UNCHANGED <<m_BuildJob, m_BuildState, modeVars, postVars, m_CommandQueue, procVars,
                      exitVars, ghostVars, boundVars>>
      BY <1>5 DEF StartNextProject
    <2> QED BY <2>2, <2>3, <2>4, <2>5
        DEF TypeOK, States, modeVars, postVars, procVars, exitVars, ghostVars, boundVars
  <1>6. CASE NextProjectStarted
    <2>1. stack' \in Seq(Frames) BY <1>6, StepsThatJump
    <2>2. m_NextBuildState' \in States BY <1>6, NextStates DEF NextProjectStarted
    <2>3. UNCHANGED <<m_BuildJob, m_BuildState, building, modeVars, postVars,
                      m_BuildJobTargetsList, m_CommandQueue, procVars, exitVars, ghostVars, boundVars>>
      BY <1>6 DEF NextProjectStarted
    <2> QED BY <2>1, <2>2, <2>3
        DEF TypeOK, modeVars, postVars, procVars, exitVars, ghostVars, boundVars
  <1>7. CASE Managed
    <2>1. OnlyStack BY <1>7 DEF Managed, OnlyStack
    <2> QED BY <1>1, <1>7, <2>1, StepsThatPop
  <1> QED BY <1>2, <1>3, <1>4, <1>5, <1>6, <1>7 DEF BuildStateManagement

LEMMA TypeOfKill == TypeOK /\ KillProcess => TypeOK'
  <1> SUFFICES ASSUME TypeOK, KillProcess PROVE TypeOK'
    OBVIOUS
  <1>1. ResetBuildState BY DEF KillProcess
  <1>2. aborts' \in 0..MaxAborts /\ aborted' = TRUE BY BuildAssumption DEF KillProcess, TypeOK
  <1>3. UNCHANGED <<stack, modeVars, postVars, m_BuildJobTargetsList, procVars, exitVars,
                    requests, refusals, asked, failed, due, built>>
    BY DEF KillProcess
  <1> QED BY <1>1, <1>2, <1>3, TypeOfReset DEF TypeOK, modeVars, postVars, procVars, exitVars

LEMMA TypeOfEnd ==
    ASSUME TypeOK, NEW p \in processes, NEW code \in {0, 1}, Terminate(p, code)
    PROVE  TypeOK'
  <1>1. p \in [slot : 1..Slots, command : Commands] BY DEF TypeOK
  <1>2. /\ processes' = processes \ {p} /\ pProcess' = [pProcess EXCEPT ![p.slot] = FALSE]
        /\ events' = Append(events, [slot |-> p.slot, code |-> code])
        /\ UNCHANGED <<stack, jobVars, modeVars, postVars, m_BuildJobTargetsList, m_CommandQueue,
                       PID, handling, exitVars, ghostVars, boundVars>>
    BY DEF Terminate
  <1>3. events' \in Seq([slot : 1..Slots, code : {0, 1}])
    BY <1>1, <1>2, AppendProperties DEF TypeOK
  <1>4. pProcess' \in [1..Slots -> BOOLEAN] BY <1>2 DEF TypeOK
  <1> QED BY <1>2, <1>3, <1>4
      DEF TypeOK, jobVars, modeVars, postVars, exitVars, ghostVars, boundVars

-----------------------------------------------------------------------------
(* What the scheduler does when it is asked for a build, or when the clean before a
   build is over.                                                             *)
Idle == Dead /\ processes = {} /\ events = <<>> /\ ~handling
NothingToDo(last) ==
    /\ stack' = IF last THEN <<>> ELSE <<Frame("rebuild")>>
    /\ finished' = IF last THEN finished + 1 ELSE finished
    /\ m_LastBuildStep' = last /\ due' = <<>> /\ built' = <<>>
    /\ UNCHANGED <<jobVars, m_CommandQueue, m_Clean, m_Build, procVars>>
Begins(list, clean, build, last) ==
    /\ list # <<>> /\ (clean \/ build) /\ (last \/ ~build)
    /\ stack' = (IF last THEN <<>> ELSE <<Frame("rebuild")>>) \o <<Frame("run"), Frame("yield")>>
    /\ m_Clean' = clean /\ m_Build' = build /\ m_LastBuildStep' = last
    /\ due' = list /\ built' = <<>>
    /\ building' = Head(list) /\ m_BuildJobTargetsList' = Tail(list)
    /\ m_BuildJob' # "bjIdle" /\ m_BuildState' = "bsNone"
    /\ m_NextBuildState' = "bsProjectPreBuild" /\ m_CommandQueue' = <<>>
    /\ UNCHANGED <<procVars, finished>>
Starting ==
    /\ Idle /\ m_BuildJob = "bjIdle" /\ m_BuildState = "bsNone"
    /\ failed' = FALSE /\ requests' <= finished + 1 /\ TypeOK'
    /\ \/ \E last \in BOOLEAN : NothingToDo(last)
       \/ \E list \in Seq(Targets) : \E clean, build, last \in BOOLEAN :
              Begins(list, clean, build, last)

LEMMA NoProcessRuns ==
    ASSUME TypeOK, SlotInv
    PROVE  IsProcessRunning <=> processes # {}
  BY DEF TypeOK, SlotInv, IsProcessRunning, ProcessIn

LEMMA ListType ==
    ASSUME TypeOK, NEW r \in Request
    PROVE  PreprocessJob(r) \in Seq(Targets)
  <1>1. r.jobs \in Seq(Targets) /\ m_BuildJobTargetsList \in Seq(Targets) /\ <<>> \in Seq(Targets)
    BY DEF TypeOK, Request
  <1>2. CASE m_IsWorkspaceOperation \/ r.workspace
    BY <1>1, <1>2, ConcatProperties DEF PreprocessJob
  <1>3. CASE ~(m_IsWorkspaceOperation \/ r.workspace)
    BY <1>1, <1>3, ConcatProperties DEF PreprocessJob
  <1> QED BY <1>2, <1>3

LEMMA BuildStarts ==
    ASSUME TypeOK, NEW r \in Request, NEW clean \in BOOLEAN, NEW build \in BOOLEAN,
           NEW last \in BOOLEAN, clean \/ build, last \/ ~build,
           DoBuild(r, clean, build, last, IF last THEN <<>> ELSE <<Frame("rebuild")>>)
    PROVE  \/ NothingToDo(last)
           \/ \E list \in Seq(Targets) : Begins(list, clean, build, last)
  <1> DEFINE list == PreprocessJob(r)
             rest == IF last THEN <<>> ELSE <<Frame("rebuild")>>
  <1>1. list \in Seq(Targets) BY ListType
  <1>2. /\ m_LastBuildStep' = last /\ due' = list /\ built' = <<>>
        /\ UNCHANGED procVars
    BY DEF DoBuild
  <1>3. CASE list = <<>>
    <2>1. /\ IF last THEN finished' = finished + 1 ELSE finished' = finished
          /\ stack' = rest
          /\ UNCHANGED <<jobVars, m_CommandQueue, m_Clean, m_Build>>
      BY <1>3 DEF DoBuild
    <2> QED BY <1>2, <1>3, <2>1 DEF NothingToDo
  <1>4. CASE list # <<>>
    <2>1. /\ InitBuildState(IF r.workspace THEN "bjWorkspace" ELSE "bjProject")
          /\ building' = Head(list) /\ m_BuildJobTargetsList' = Tail(list)
          /\ m_Clean' = clean /\ m_Build' = build
          /\ stack' = rest \o <<Frame("run"), Frame("yield")>>
          /\ finished' = finished
      BY <1>4 DEF DoBuild, exitVars
    <2>2. Begins(list, clean, build, last) BY <1>2, <1>4, <2>1 DEF Begins, InitBuildState
    <2> QED BY <1>1, <2>2
  <1> QED BY <1>3, <1>4

LEMMA RebuildFrame ==
    ASSUME TypeOK, StackInv, At("rebuild")
    PROVE  Below = <<>> /\ Len(stack) = 1 /\ stack[1].at = "rebuild" /\ Top = "rebuild"
  <1>1. stack # <<>> /\ stack \in Seq(Frames) BY DEF At, TypeOK
  <1>2. /\ Len(stack) \in Nat /\ Len(stack) > 0 /\ DOMAIN stack = 1..Len(stack)
        /\ stack[Len(stack)].at = "rebuild" /\ Top = "rebuild"
    BY <1>1, StackType, LastAndBelow DEF At, Top
  <1>3. PlaceAt(Len(stack)) BY <1>2 DEF StackInv
  <1>4. Len(stack) = 1 BY <1>2, <1>3 DEF PlaceAt
  <1> QED BY <1>1, <1>2, <1>4, LastAndBelow DEF Below

LEMMA UserStarts ==
    ASSUME TypeOK, SlotInv, StackInv, CleanInv, AnswerInv, FailInv, User \/ RebuildCleaned
    PROVE  CompileFile \/ Starting
  <1>1. CASE RebuildCleaned
    <2>1. /\ At("rebuild") /\ DoBuild(asked, FALSE, TRUE, TRUE, Below)
          /\ UNCHANGED <<requests, failed, aborted>>
      BY <1>1 DEF RebuildCleaned
    <2>2. Below = <<>> /\ Len(stack) = 1 /\ stack[1].at = "rebuild" /\ Top = "rebuild"
      BY <2>1, RebuildFrame
    <2>3. stack # <<>> /\ 1 \in DOMAIN stack BY <2>1, <2>2, StackType DEF At, TypeOK
    <2>4. m_CommandQueue = <<>> /\ processes = {} /\ events = <<>> BY <2>2, <2>3 DEF CleanInv
    <2>5. building = NoTarget /\ m_BuildJob = "bjIdle" /\ m_BuildState = "bsNone"
          /\ requests <= finished + 1
      BY <2>2, <2>3 DEF AnswerInv
    <2>6. ~handling BY <2>4 DEF SlotInv
    <2>7. failed = FALSE BY <2>2, <2>3 DEF FailInv, Nested, Loops, TypeOK
    <2>8. asked \in Request BY DEF TypeOK, Request
    <2>9. TypeOK'
      <3>1. <<>> \in Rests BY DEF Rests
      <3>2. requests' \in 0..MaxRequests /\ failed' \in BOOLEAN /\ aborted' \in BOOLEAN
        BY <2>1 DEF TypeOK
      <3> QED BY <2>1, <2>2, <2>8, <3>1, <3>2, TypeOfDoBuild
    <2>10. \/ NothingToDo(TRUE)
           \/ \E list \in Seq(Targets) : Begins(list, FALSE, TRUE, TRUE)
      BY <2>1, <2>2, <2>8, BuildStarts
    <2> QED BY <2>1, <2>4, <2>5, <2>6, <2>7, <2>9, <2>10 DEF Starting, Idle, Dead
  <1>2. CASE User /\ ~CompileFile
    <2>1. PICK clean, build, last \in BOOLEAN, rest \in Rests : Asked(clean, build, last, rest)
      BY <1>2, UserAsks
    <2>2. /\ stack = <<>> /\ events = <<>> /\ ~IsRunning
          /\ requests' = requests + 1 /\ failed' = FALSE /\ aborted' = FALSE
      BY <2>1 DEF Asked, Ask
    <2>3. processes = {} /\ m_CommandQueue = <<>> /\ m_BuildJob = "bjIdle"
      BY <2>2, NoProcessRuns DEF IsRunning
    <2>4. building = NoTarget /\ m_BuildState = "bsNone" /\ requests <= finished
      BY <2>2, <2>3 DEF AnswerInv, AtRest
    <2>5. ~handling BY <2>2 DEF SlotInv
    <2>6. m_LastBuildStep BY <2>2 DEF CleanInv
    <2>7. (last \/ ~build) /\ (clean \/ build) BY <2>1, <2>6 DEF Asked
    <2>8. rest = IF last THEN <<>> ELSE <<Frame("rebuild")>> BY <2>1, <2>6 DEF Asked
    <2>9. PICK r \in Request : DoBuild(r, clean, build, last, rest) BY <2>1 DEF Asked
    <2>10. TypeOK'
      <3>1. requests' \in 0..MaxRequests
        BY <2>1, BuildAssumption DEF Asked, Ask, TypeOK
      <3> QED BY <2>2, <2>9, <3>1, TypeOfDoBuild
    <2>11. \/ NothingToDo(last)
           \/ \E list \in Seq(Targets) : Begins(list, clean, build, last)
      BY <2>7, <2>8, <2>9, BuildStarts
    <2>12. requests' <= finished + 1 BY <2>2, <2>4 DEF TypeOK
    <2> QED BY <2>2, <2>3, <2>4, <2>5, <2>10, <2>11, <2>12 DEF Starting, Idle, Dead
  <1> QED BY <1>1, <1>2

LEMMA NotResting ==
    ASSUME TypeOK, StackInv, NEW label, At(label), label # "run"
    PROVE  /\ ~Resting /\ processes = {} /\ stack # <<>>
           /\ (Flat /\ events = <<>>) \/ (Dead /\ Nested)
  <1>1. stack # <<>> /\ Top = label BY DEF At, Top
  <1> QED BY <1>1 DEF Resting, StackInv

LEMMA FoundSlotIsFree ==
    ASSUME TypeOK, SlotInv, StackInv, At("queueTest")
    PROVE  /\ Last(stack).slot \in 1..Slots
           /\ m_CommandQueue # <<>> => Last(stack).slot \in Available /\ events = <<>> /\ processes = {}
  <1>1. stack # <<>> /\ Last(stack).at = "queueTest" /\ stack \in Seq(Frames) BY DEF At, TypeOK
  <1>2. Len(stack) \in DOMAIN stack /\ Last(stack) = stack[Len(stack)] BY <1>1, LastAndBelow, StackType
  <1>3. Last(stack).slot \in 1..Slots BY <1>1, <1>2 DEF StackInv, PlaceAt
  <1>4. ASSUME m_CommandQueue # <<>> PROVE events = <<>> /\ processes = {}
    BY <1>4, NotResting DEF Dead
  <1>5. ASSUME m_CommandQueue # <<>> PROVE Last(stack).slot \in Available
    <2>1. events = <<>> /\ processes = {} BY <1>4, <1>5
    <2>2. \A k \in DOMAIN events : FALSE BY <2>1
    <2> QED BY <1>3, <2>1, <2>2 DEF SlotInv, ProcessIn, EventOf, Available
  <1> QED BY <1>3, <1>4, <1>5

LEMMA TypeStep == TypeOK /\ LoopAssumption /\ SlotInv /\ StackInv /\ CleanInv /\ AnswerInv /\ FailInv
                  /\ Next => TypeOK'
  <1> SUFFICES ASSUME TypeOK, LoopAssumption, SlotInv, StackInv, CleanInv, AnswerInv, FailInv, Next
               PROVE  TypeOK'
    OBVIOUS
  <1>1. CASE User BY <1>1, TypeOfUser
  <1>2. CASE KillProcess BY <1>2, TypeOfKill
  <1>3. CASE DoRunQueue BY <1>3, TypeOfQueue, FoundSlotIsFree
  <1>4. CASE OnJobEnd BY <1>4, TypeOfJobEnd
  <1>5. CASE BuildStateManagement BY <1>5, TypeOfManagement
  <1>6. CASE RebuildCleaned
    <2>1. CASE CompileFile BY <2>1, TypeOfUser DEF User
    <2>2. CASE Starting BY <2>2 DEF Starting
    <2> QED BY <1>6, <2>1, <2>2, UserStarts
  <1>7. CASE ProcessEnds BY <1>7, TypeOfEnd DEF ProcessEnds
  <1> QED BY <1>1, <1>2, <1>3, <1>4, <1>5, <1>6, <1>7 DEF Next, Handle

-----------------------------------------------------------------------------
(* The slots.                                                                 *)
LEMMA ProcessSteps ==
    ASSUME TypeOK, SlotInv, StackInv, CleanInv, AnswerInv, FailInv, Next
    PROVE  \/ UNCHANGED procVars
           \/ \E i \in Available : StartCommand(i)
           \/ \E p \in processes, code \in {0, 1} : Terminate(p, code)
           \/ \E code \in {0, 1} : TakeEvent(code)
  <1>1. CASE User \/ RebuildCleaned
    BY <1>1, UserStarts DEF CompileFile, Starting, NothingToDo, Begins
  <1>2. CASE KillProcess BY <1>2 DEF KillProcess
  <1>3. CASE DoRunQueue
    <2>1. CASE QueueFound BY <2>1, FoundSlotIsFree DEF QueueFound, StartCommand, RefuseCommand
    <2>2. CASE RunCommand BY <2>2, SlotIsAvailable DEF RunCommand, RefuseCommand
    <2>3. CASE QueueWaits BY <2>3 DEF QueueWaits
    <2>4. CASE QueueEmpty BY <2>4 DEF QueueEmpty
    <2>5. CASE QueueEnds BY <2>5 DEF QueueEnds
    <2>6. CASE Manage("queueLoop", "queueTest") BY <2>6 DEF Manage
    <2>7. CASE GoOn("queueTest", "queueLoop") BY <2>7 DEF GoOn
    <2> QED BY <1>3, <2>1, <2>2, <2>3, <2>4, <2>5, <2>6, <2>7 DEF DoRunQueue
  <1>4. CASE OnJobEnd
    <2>1. CASE JobSucceeds BY <2>1 DEF JobSucceeds
    <2>2. CASE JobFails BY <2>2 DEF JobFails
    <2>3. CASE Manage("endLoop", "endTest") BY <2>3 DEF Manage
    <2>4. CASE EndFound BY <2>4 DEF EndFound
    <2>5. CASE EndJobs BY <2>5 DEF EndJobs
    <2>6. CASE GoOn("endTest", "endLoop") BY <2>6 DEF GoOn
    <2> QED BY <1>4, <2>1, <2>2, <2>3, <2>4, <2>5, <2>6 DEF OnJobEnd
  <1>5. CASE BuildStateManagement
    <2>1. CASE ManageNothing BY <2>1 DEF ManageNothing
    <2>2. CASE EnterState BY <2>2 DEF EnterState
    <2>3. CASE LeaveState BY <2>3 DEF LeaveState
    <2>4. CASE StartNextProject BY <2>4 DEF StartNextProject
    <2>5. CASE NextProjectStarted BY <2>5 DEF NextProjectStarted
    <2>6. CASE Managed BY <2>6 DEF Managed
    <2> QED BY <1>5, <2>1, <2>2, <2>3, <2>4, <2>5, <2>6 DEF BuildStateManagement
  <1>6. CASE ProcessEnds BY <1>6 DEF ProcessEnds
  <1> QED BY <1>1, <1>2, <1>3, <1>4, <1>5, <1>6 DEF Next, Handle

LEMMA SlotsAtStart ==
    ASSUME TypeOK, SlotInv, NEW i \in Available, StartCommand(i)
    PROVE  SlotInv'
  <1>1. i \in 1..Slots /\ ~pProcess[i] /\ ~PID[i] BY DEF Available
  <1>2. ~ProcessIn(i) /\ ~EventOf(i) BY <1>1 DEF SlotInv
  <1> DEFINE new == [slot |-> i, command |-> Head(m_CommandQueue)]
  <1>3. /\ pProcess' = [pProcess EXCEPT ![i] = TRUE] /\ PID' = [PID EXCEPT ![i] = TRUE]
        /\ processes' = processes \cup {new} /\ events' = events /\ handling' = handling
    BY DEF StartCommand, Execute
  <1>4. new.slot = i OBVIOUS
  <1> HIDE DEF new
  <1>5. \A p, q \in processes' : p.slot = q.slot => p = q
    BY <1>2, <1>3, <1>4 DEF SlotInv, ProcessIn
  <1>6. ASSUME NEW j \in 1..Slots
        PROVE  /\ pProcess'[j] <=> ProcessIn(j)'
               /\ PID'[j] <=> ProcessIn(j)' \/ EventOf(j)'
               /\ ~(ProcessIn(j)' /\ EventOf(j)')
    <2>1. EventOf(j)' <=> EventOf(j) BY <1>3 DEF EventOf
    <2>2. ProcessIn(j)' <=> ProcessIn(j) \/ j = i BY <1>3, <1>4 DEF ProcessIn
    <2>3. pProcess'[j] <=> pProcess[j] \/ j = i BY <1>1, <1>3 DEF TypeOK
    <2>4. PID'[j] <=> PID[j] \/ j = i BY <1>1, <1>3 DEF TypeOK
    <2>5. /\ pProcess[j] <=> ProcessIn(j)
          /\ PID[j] <=> ProcessIn(j) \/ EventOf(j)
          /\ ~(ProcessIn(j) /\ EventOf(j))
      BY DEF SlotInv
    <2> QED BY <1>2, <2>1, <2>2, <2>3, <2>4, <2>5
  <1> QED BY <1>3, <1>5, <1>6 DEF SlotInv

LEMMA SlotsAtEnd ==
    ASSUME TypeOK, SlotInv, NEW p \in processes, NEW code \in {0, 1}, Terminate(p, code)
    PROVE  SlotInv'
  <1> DEFINE event == [slot |-> p.slot, code |-> code]
  <1>1. /\ processes' = processes \ {p} /\ pProcess' = [pProcess EXCEPT ![p.slot] = FALSE]
        /\ events' = Append(events, event) /\ PID' = PID /\ handling' = handling
    BY DEF Terminate
  <1>2. p.slot \in 1..Slots /\ event \in [slot : 1..Slots, code : {0, 1}] /\ event.slot = p.slot
    BY DEF TypeOK
  <1>3. events \in Seq([slot : 1..Slots, code : {0, 1}]) BY DEF TypeOK
  <1> HIDE DEF event
  <1>4. /\ Len(events) \in Nat /\ DOMAIN events = 1..Len(events)
        /\ DOMAIN events' = 1..(Len(events) + 1) /\ events' # <<>>
        /\ \A k \in 1..Len(events) : events'[k] = events[k]
        /\ events'[Len(events) + 1] = event
    BY <1>1, <1>2, <1>3, AppendProperties, LenProperties
  <1>5. ProcessIn(p.slot) /\ ~EventOf(p.slot) BY <1>2 DEF SlotInv, ProcessIn
  <1>6. \A j : EventOf(j)' <=> EventOf(j) \/ j = p.slot
    BY <1>2, <1>4 DEF EventOf
  <1>7. \A j : ProcessIn(j)' <=> ProcessIn(j) /\ j # p.slot
    BY <1>1 DEF ProcessIn, SlotInv
  <1>8. \A k, l \in DOMAIN events' : events'[k].slot = events'[l].slot => k = l
    <2>1. \A k \in 1..Len(events) : events[k].slot # p.slot BY <1>4, <1>5 DEF EventOf
    <2>2. \A k, l \in 1..Len(events) : events[k].slot = events[l].slot => k = l
      BY <1>4 DEF SlotInv
    <2>3. \A k \in DOMAIN events' : k \in 1..Len(events) \/ k = Len(events) + 1 BY <1>4
    <2> QED BY <1>2, <1>4, <2>1, <2>2, <2>3
  <1>9. ASSUME NEW j \in 1..Slots
        PROVE  /\ pProcess'[j] <=> ProcessIn(j)'
               /\ PID'[j] <=> ProcessIn(j)' \/ EventOf(j)'
               /\ ~(ProcessIn(j)' /\ EventOf(j)')
    <2>1. pProcess'[j] <=> pProcess[j] /\ j # p.slot BY <1>1, <1>2 DEF TypeOK
    <2>2. /\ pProcess[j] <=> ProcessIn(j)
          /\ PID[j] <=> ProcessIn(j) \/ EventOf(j)
          /\ ~(ProcessIn(j) /\ EventOf(j))
      BY DEF SlotInv
    <2> QED BY <1>1, <1>5, <1>6, <1>7, <2>1, <2>2
  <1>10. \A q, r \in processes' : q.slot = r.slot => q = r BY <1>1 DEF SlotInv
  <1> QED BY <1>4, <1>8, <1>9, <1>10 DEF SlotInv

LEMMA SlotsAtEvent ==
    ASSUME TypeOK, SlotInv, NEW code, TakeEvent(code)
    PROVE  SlotInv'
  <1> DEFINE i == Head(events).slot
  <1>1. /\ events # <<>> /\ events' = Tail(events) /\ handling' = (Tail(events) # <<>>)
        /\ PID' = [PID EXCEPT ![i] = FALSE] /\ pProcess' = [pProcess EXCEPT ![i] = FALSE]
        /\ processes' = processes
    BY DEF TakeEvent
  <1>2. i \in 1..Slots BY TypeOfTake
  <1>3. events \in Seq([slot : 1..Slots, code : {0, 1}]) BY DEF TypeOK
  <1>4. i = events[1].slot BY <1>1, <1>3
  <1> HIDE DEF i
  <1>5. /\ Len(events) \in Nat /\ Len(events) > 0 /\ DOMAIN events = 1..Len(events)
        /\ DOMAIN events' = 1..(Len(events) - 1)
        /\ \A k \in 1..(Len(events) - 1) : events'[k] = events[k + 1]
    BY <1>1, <1>3, HeadTailProperties, LenProperties, EmptySeq
  <1>6. EventOf(i) /\ ~ProcessIn(i)
    <2>1. 1 \in DOMAIN events BY <1>5
    <2> QED BY <1>2, <1>4, <2>1 DEF SlotInv, EventOf
  <1>7. \A j : EventOf(j)' <=> EventOf(j) /\ j # i
    <2>1. ASSUME NEW k \in DOMAIN events' PROVE events'[k] = events[k + 1] /\ events[k + 1].slot # i
      <3>1. k + 1 \in DOMAIN events /\ 1 \in DOMAIN events /\ k + 1 # 1 BY <1>5
      <3> QED BY <1>4, <1>5, <3>1 DEF SlotInv
    <2>2. ASSUME NEW k \in DOMAIN events, k # 1
          PROVE  k - 1 \in DOMAIN events' /\ events'[k - 1] = events[k]
      BY <1>5, <2>2
    <2>3. ASSUME NEW k \in DOMAIN events' PROVE k + 1 \in DOMAIN events BY <1>5
    <2>4. ASSUME NEW j, EventOf(j)' PROVE EventOf(j) /\ j # i
      BY <2>1, <2>3, <2>4 DEF EventOf
    <2>5. ASSUME NEW j, EventOf(j), j # i PROVE EventOf(j)'
      <3>1. PICK k \in DOMAIN events : events[k].slot = j BY <2>5 DEF EventOf
      <3>2. k # 1 BY <1>4, <2>5, <3>1
      <3> QED BY <2>2, <3>1, <3>2 DEF EventOf
    <2> QED BY <2>4, <2>5
  <1>8. \A j : ProcessIn(j)' <=> ProcessIn(j) BY <1>1 DEF ProcessIn
  <1>9. \A k, l \in DOMAIN events' : events'[k].slot = events'[l].slot => k = l
    <2> SUFFICES ASSUME NEW k \in DOMAIN events', NEW l \in DOMAIN events',
                        events'[k].slot = events'[l].slot
                 PROVE  k = l
      OBVIOUS
    <2>1. k + 1 \in DOMAIN events /\ l + 1 \in DOMAIN events /\ events[k + 1].slot = events[l + 1].slot
      BY <1>5
    <2>2. k + 1 = l + 1 BY <2>1 DEF SlotInv
    <2> QED BY <1>5, <2>2
  <1>10. ASSUME NEW j \in 1..Slots
         PROVE  /\ pProcess'[j] <=> ProcessIn(j)'
                /\ PID'[j] <=> ProcessIn(j)' \/ EventOf(j)'
                /\ ~(ProcessIn(j)' /\ EventOf(j)')
    <2>1. pProcess'[j] <=> pProcess[j] /\ j # i BY <1>1, <1>2 DEF TypeOK
    <2>2. PID'[j] <=> PID[j] /\ j # i BY <1>1, <1>2 DEF TypeOK
    <2>3. /\ pProcess[j] <=> ProcessIn(j)
          /\ PID[j] <=> ProcessIn(j) \/ EventOf(j)
          /\ ~(ProcessIn(j) /\ EventOf(j))
      BY DEF SlotInv
    <2> QED BY <1>6, <1>7, <1>8, <2>1, <2>2, <2>3
  <1>11. \A q, r \in processes' : q.slot = r.slot => q = r BY <1>1 DEF SlotInv
  <1>12. handling' => events' # <<>> BY <1>1
  <1> QED BY <1>9, <1>10, <1>11, <1>12 DEF SlotInv

LEMMA SlotStep ==
    ASSUME TypeOK, SlotInv, StackInv, CleanInv, AnswerInv, FailInv, Next
    PROVE  SlotInv'
  <1>1. CASE UNCHANGED procVars
    BY <1>1 DEF procVars, SlotInv, ProcessIn, EventOf
  <1> QED BY <1>1, ProcessSteps, SlotsAtStart, SlotsAtEnd, SlotsAtEvent

-----------------------------------------------------------------------------
(* The stack: what the kinds of change preserve.                              *)
LEMMA TopFacts ==
    ASSUME TypeOK
    PROVE  /\ Len(stack) \in Nat /\ DOMAIN stack = 1..Len(stack)
           /\ stack # <<>> <=> Len(stack) > 0
           /\ stack # <<>> => /\ Top = stack[Len(stack)].at /\ Len(stack) \in DOMAIN stack
                              /\ Last(stack) = stack[Len(stack)]
           /\ \A label : At(label) <=> stack # <<>> /\ Top = label
  <1>1. stack \in Seq(Frames) BY DEF TypeOK
  <1> QED BY <1>1, StackType DEF Top, At

LEMMA NewTop ==
    ASSUME stack' \in Seq(Frames)
    PROVE  /\ Len(stack') \in Nat /\ DOMAIN stack' = 1..Len(stack')
           /\ stack' # <<>> <=> Len(stack') > 0
           /\ stack' # <<>> => Top' = stack'[Len(stack')].at
  <1>1. ASSUME NEW s \in Seq(Frames)
        PROVE  /\ Len(s) \in Nat /\ DOMAIN s = 1..Len(s) /\ (s # <<>> <=> Len(s) > 0)
               /\ Last(s) = s[Len(s)]
    BY EmptySeq DEF Last
  <1> QED BY <1>1 DEF Top

LEMMA PopPlaces ==
    ASSUME TypeOK, stack' \in Seq(Frames), StackInv, stack # <<>>, Pops
    PROVE  /\ \A k \in DOMAIN stack' : PlaceAt(k)'
           /\ DOMAIN stack' = 1..(Len(stack) - 1)
           /\ Flat => Flat'
           /\ Nested => Nested'
           /\ stack' # <<>> => Len(stack) > 1 /\ Top' = stack[Len(stack) - 1].at
  <1>1. /\ Len(stack) \in Nat /\ DOMAIN stack = 1..Len(stack) /\ Len(stack) > 0
        /\ \A k \in DOMAIN stack : PlaceAt(k)
    BY TopFacts DEF StackInv
  <1>2. /\ DOMAIN stack' = 1..(Len(stack) - 1) /\ Len(stack') = Len(stack) - 1
        /\ stack' # <<>> => Top' = stack'[Len(stack')].at /\ Len(stack') > 0
    BY <1>1, NewTop DEF Pops
  <1>3. \A k \in 1..(Len(stack) - 1) : stack'[k] = stack[k] BY DEF Pops
  <1>4. ASSUME NEW k \in DOMAIN stack' PROVE PlaceAt(k)'
    BY <1>1, <1>2, <1>3 DEF PlaceAt
  <1> QED BY <1>1, <1>2, <1>3, <1>4 DEF Flat, Nested

LEMMA PutPlaces ==
    ASSUME TypeOK, stack' \in Seq(Frames), StackInv, stack # <<>>, NEW f, Puts(f),
           f.at \in Yields \cup {"projectDone"} => stack[Len(stack)].at \in Yields \cup {"projectDone"},
           f.at \in {"queueLoop", "queueTest"} => f.slot \in 1..Slots,
           f.at # "rebuild"
    PROVE  /\ \A k \in DOMAIN stack' : PlaceAt(k)'
           /\ DOMAIN stack' = DOMAIN stack /\ Top' = f.at /\ Len(stack') = Len(stack)
           /\ Flat /\ (f.at \in Loops => Top \in Loops) => Flat'
           /\ Nested /\ f.at \in Loops \cup {"yield"} => Nested'
  <1>1. /\ Len(stack) \in Nat /\ DOMAIN stack = 1..Len(stack) /\ Len(stack) > 0
        /\ Top = stack[Len(stack)].at
        /\ \A k \in DOMAIN stack : PlaceAt(k)
    BY TopFacts DEF StackInv
  <1>2. /\ DOMAIN stack' = 1..Len(stack) /\ Len(stack') = Len(stack)
        /\ Top' = f.at /\ stack'[Len(stack)] = f
    BY <1>1, NewTop DEF Puts
  <1>3. \A k \in 1..(Len(stack) - 1) : stack'[k] = stack[k] BY DEF Puts
  <1>4. ASSUME NEW k \in DOMAIN stack', k # Len(stack) PROVE PlaceAt(k)'
    <2>1. k \in 1..(Len(stack) - 1) /\ (k > 1 => k - 1 \in 1..(Len(stack) - 1)) BY <1>1, <1>2, <1>4
    <2> QED BY <1>1, <1>2, <1>3, <2>1 DEF PlaceAt
  <1>5. ASSUME NEW k \in DOMAIN stack', k = Len(stack) PROVE PlaceAt(k)'
    <2>1. PlaceAt(k) /\ (k > 1 => k - 1 \in 1..(Len(stack) - 1)) BY <1>1, <1>5
    <2> QED BY <1>1, <1>2, <1>3, <1>5, <2>1 DEF PlaceAt
  <1>6. Flat /\ (f.at \in Loops => Top \in Loops) => Flat'
    <2> SUFFICES ASSUME Flat, f.at \in Loops => Top \in Loops, NEW k \in DOMAIN stack',
                        stack'[k].at \in Loops
                 PROVE  k = 1 \/ (k = 2 /\ stack'[1].at = "rebuild")
      BY DEF Flat
    <2>1. k = 1 \/ (k = 2 /\ stack[1].at = "rebuild")
      <3>1. stack[k].at \in Loops BY <1>1, <1>2, <1>3
      <3> QED BY <1>1, <1>2, <3>1 DEF Flat
    <2>2. CASE k = 2
      <3>1. 1 \in 1..(Len(stack) - 1) BY <1>1, <1>2, <2>2
      <3> QED BY <1>3, <2>1, <2>2, <3>1
    <2> QED BY <2>1, <2>2
  <1>7. Nested /\ f.at \in Loops \cup {"yield"} => Nested' BY <1>1, <1>2, <1>3 DEF Nested
  <1> QED BY <1>1, <1>2, <1>4, <1>5, <1>6, <1>7

LEMMA PushPlaces ==
    ASSUME TypeOK, stack' \in Seq(Frames), StackInv, NEW f, Pushes(f), f.at \in {"run", "endLoop"},
           stack # <<>> => Top \notin {"commands", "last"}
    PROVE  /\ \A k \in DOMAIN stack' : PlaceAt(k)'
           /\ DOMAIN stack' = 1..(Len(stack) + 1) /\ Top' = f.at /\ Len(stack') = Len(stack) + 1
           /\ stack = <<>> => Flat'
           /\ Nested => Nested'
  <1>1. /\ Len(stack) \in Nat /\ DOMAIN stack = 1..Len(stack)
        /\ stack # <<>> => Len(stack) > 0 /\ Top = stack[Len(stack)].at
        /\ \A k \in DOMAIN stack : PlaceAt(k)
    BY TopFacts DEF StackInv
  <1>2. /\ DOMAIN stack' = 1..(Len(stack) + 1) /\ Len(stack') = Len(stack) + 1
        /\ Top' = f.at /\ stack'[Len(stack) + 1] = f
    BY <1>1, NewTop DEF Pushes
  <1>3. \A k \in 1..Len(stack) : stack'[k] = stack[k] BY DEF Pushes
  <1>4. ASSUME NEW k \in 1..Len(stack) PROVE PlaceAt(k)'
    <2>1. PlaceAt(k) /\ (k > 1 => k - 1 \in 1..Len(stack)) BY <1>1
    <2>2. stack[k].at \notin {"commands", "last"}
      <3>1. stack # <<>> BY <1>1, TopFacts
      <3> QED BY <1>1, <2>1, <3>1 DEF PlaceAt
    <2> QED BY <1>2, <1>3, <2>1, <2>2 DEF PlaceAt
  <1>5. ASSUME NEW k \in DOMAIN stack', k = Len(stack) + 1 PROVE PlaceAt(k)'
    BY <1>2, <1>5 DEF PlaceAt, Yields
  <1>6. stack = <<>> => Flat' BY <1>2, EmptySeq DEF Flat
  <1>7. Nested => Nested' BY <1>1, <1>2, <1>3 DEF Nested, Loops
  <1>8. \A k \in DOMAIN stack' : k \in 1..Len(stack) \/ k = Len(stack) + 1 BY <1>1, <1>2
  <1> QED BY <1>2, <1>4, <1>5, <1>6, <1>7, <1>8

LEMMA YieldPlaces ==
    ASSUME TypeOK, stack' \in Seq(Frames), StackInv, stack # <<>>, NEW f,
           PutsAndPushes(f, Frame("yield")),
           f.at \in {"queueTest", "endTest", "projectDone"},
           f.at = "projectDone" => Top \in Yields \cup {"projectDone"},
           f.at = "queueTest" => f.slot \in 1..Slots
    PROVE  /\ \A k \in DOMAIN stack' : PlaceAt(k)'
           /\ DOMAIN stack' = 1..(Len(stack) + 1) /\ Top' = "yield" /\ Len(stack') = Len(stack) + 1
           /\ Flat /\ (f.at \in Loops => Top \in Loops) => Flat'
           /\ Nested /\ f.at \in Loops => Nested'
  <1>1. /\ Len(stack) \in Nat /\ DOMAIN stack = 1..Len(stack) /\ Len(stack) > 0
        /\ Top = stack[Len(stack)].at
        /\ \A k \in DOMAIN stack : PlaceAt(k)
    BY TopFacts DEF StackInv
  <1>0. Frame("yield").at = "yield" BY DEF Frame
  <1>2. /\ DOMAIN stack' = 1..(Len(stack) + 1) /\ Len(stack') = Len(stack) + 1
        /\ Top' = "yield" /\ stack'[Len(stack)] = f /\ stack'[Len(stack) + 1].at = "yield"
    BY <1>0, <1>1, NewTop DEF PutsAndPushes
  <1>3. \A k \in 1..(Len(stack) - 1) : stack'[k] = stack[k] BY DEF PutsAndPushes
  <1>4. ASSUME NEW k \in 1..(Len(stack) - 1) PROVE PlaceAt(k)'
    <2>1. k \in 1..(Len(stack) - 1) /\ (k > 1 => k - 1 \in 1..(Len(stack) - 1)) BY <1>1, <1>4
    <2> QED BY <1>1, <1>2, <1>3, <2>1 DEF PlaceAt
  <1>5. ASSUME NEW k \in DOMAIN stack', k = Len(stack) PROVE PlaceAt(k)'
    <2>1. PlaceAt(k) /\ (k > 1 => k - 1 \in 1..(Len(stack) - 1)) BY <1>1, <1>5
    <2> QED BY <1>1, <1>2, <1>3, <1>5, <2>1 DEF PlaceAt, Yields
  <1>6. ASSUME NEW k \in DOMAIN stack', k = Len(stack) + 1 PROVE PlaceAt(k)'
    <2>1. k > 1 /\ k - 1 = Len(stack) BY <1>1, <1>6
    <2> QED BY <1>2, <1>6, <2>1 DEF PlaceAt
  <1>7. \A k \in DOMAIN stack' : k \in 1..(Len(stack) - 1) \/ k = Len(stack) \/ k = Len(stack) + 1
    BY <1>1, <1>2
  <1>8. Flat /\ (f.at \in Loops => Top \in Loops) => Flat'
    <2> SUFFICES ASSUME Flat, f.at \in Loops => Top \in Loops, NEW k \in DOMAIN stack',
                        stack'[k].at \in Loops
                 PROVE  k = 1 \/ (k = 2 /\ stack'[1].at = "rebuild")
      BY DEF Flat
    <2>1. k \in 1..Len(stack) BY <1>1, <1>2, <1>7 DEF Loops
    <2>2. k = 1 \/ (k = 2 /\ stack[1].at = "rebuild")
      <3>1. stack[k].at \in Loops BY <1>1, <1>2, <1>3, <2>1
      <3> QED BY <1>1, <2>1, <3>1 DEF Flat
    <2>3. CASE k = 2
      <3>1. 1 \in 1..(Len(stack) - 1) BY <1>1, <2>1, <2>3
      <3> QED BY <1>3, <2>2, <2>3, <3>1
    <2> QED BY <2>2, <2>3
  <1>9. Nested /\ f.at \in Loops => Nested' BY <1>1, <1>2, <1>3, <1>7 DEF Nested
  <1> QED BY <1>2, <1>4, <1>5, <1>6, <1>7, <1>8, <1>9

(* The stack: one step after the other.                                       *)
LEMMA QueuedAtTheBottom ==
    ASSUME TypeOK, StackInv, CleanInv, stack # <<>>, Top \in Loops, m_CommandQueue # <<>>
    PROVE  Len(stack) = 1 /\ Flat
  <1>1. Flat BY DEF StackInv, Dead
  <1>2. Len(stack) \in DOMAIN stack /\ stack[Len(stack)].at \in Loops /\ DOMAIN stack = 1..Len(stack)
        /\ Len(stack) \in Nat
    BY TopFacts
  <1>3. \A k \in DOMAIN stack : stack[k].at # "rebuild" BY DEF CleanInv
  <1>4. ASSUME Len(stack) = 2 PROVE 1 \in DOMAIN stack BY <1>2, <1>4
  <1> QED BY <1>1, <1>2, <1>3, <1>4 DEF Flat

LEMMA BuildFrames ==
    ASSUME TypeOK
    PROVE  /\ <<>> \o <<Frame("run"), Frame("yield")>> = <<Frame("run"), Frame("yield")>>
           /\ <<Frame("rebuild")>> \o <<Frame("run"), Frame("yield")>>
                 = <<Frame("rebuild"), Frame("run"), Frame("yield")>>
  <1> DEFINE a == Frame("rebuild")
             b == Frame("run")
             c == Frame("yield")
  <1>1. a \in Frames /\ b \in Frames /\ c \in Frames BY FrameType DEF Labels, Yields
  <1> HIDE DEF a, b, c
  <1>2. <<a>> \in Seq(Frames) /\ <<b, c>> \in Seq(Frames) /\ <<a, b, c>> \in Seq(Frames) BY <1>1
  <1>3. <<>> \o <<b, c>> = <<b, c>> BY <1>2, ConcatEmptySeq
  <1>4. <<a>> \o <<b, c>> = <<a, b, c>>
    <2> DEFINE s == <<a>> \o <<b, c>>
               t == <<a, b, c>>
    <2>1. /\ s \in Seq(Frames) /\ Len(s) = Len(<<a>>) + Len(<<b, c>>)
          /\ \A i \in 1..(Len(<<a>>) + Len(<<b, c>>)) :
                 s[i] = IF i <= Len(<<a>>) THEN <<a>>[i] ELSE <<b, c>>[i - Len(<<a>>)]
      BY <1>2, ConcatProperties
    <2>2. Len(<<a>>) = 1 /\ Len(<<b, c>>) = 2 OBVIOUS
    <2> HIDE DEF s
    <2>3. Len(s) = 3 /\ s[1] = a /\ s[2] = b /\ s[3] = c BY <2>1, <2>2
    <2>4. t \in Seq(Frames) /\ Len(t) = 3 /\ t[1] = a /\ t[2] = b /\ t[3] = c BY <1>2
    <2>5. \A i \in 1..3 : i = 1 \/ i = 2 \/ i = 3 OBVIOUS
    <2> HIDE DEF t
    <2>6. \A i \in 1..3 : s[i] = t[i] BY <2>3, <2>4, <2>5
    <2>7. s = t BY <2>1, <2>3, <2>4, <2>6, SeqEqual
    <2> QED BY <2>7 DEF s, t
  <1> QED BY <1>3, <1>4 DEF a, b, c

LEMMA StackAtStart ==
    ASSUME TypeOK, SlotInv, Starting
    PROVE  StackInv'
  <1>1. processes' = {} /\ events' = <<>> /\ m_CommandQueue' = <<>>
    BY DEF Starting, Idle, Dead, NothingToDo, Begins, procVars
  <1>2. /\ Frame("run").at = "run" /\ Frame("yield").at = "yield" /\ Frame("rebuild").at = "rebuild"
    BY DEF Frame
  <1>3. \/ stack' = <<>> \/ stack' = <<Frame("rebuild")>>
        \/ stack' = <<Frame("run"), Frame("yield")>>
        \/ stack' = <<Frame("rebuild"), Frame("run"), Frame("yield")>>
    <2>1. /\ <<>> \o <<Frame("run"), Frame("yield")>> = <<Frame("run"), Frame("yield")>>
          /\ <<Frame("rebuild")>> \o <<Frame("run"), Frame("yield")>>
                = <<Frame("rebuild"), Frame("run"), Frame("yield")>>
      BY BuildFrames
    <2> QED BY <2>1 DEF Starting, NothingToDo, Begins
  <1>4. stack' \in Seq(Frames) BY DEF Starting, TypeOK
  <1>5. (\A k \in DOMAIN stack' : PlaceAt(k)') /\ Flat'
    <2>1. CASE stack' = <<>> BY <2>1 DEF Flat
    <2>2. CASE stack' = <<Frame("rebuild")>> BY <1>2, <2>2 DEF Flat, PlaceAt, Loops, Yields
    <2>3. CASE stack' = <<Frame("run"), Frame("yield")>>
      BY <1>2, <2>3 DEF Flat, PlaceAt, Loops, Yields
    <2>4. CASE stack' = <<Frame("rebuild"), Frame("run"), Frame("yield")>>
      BY <1>2, <2>4 DEF Flat, PlaceAt, Loops, Yields
    <2> QED BY <1>3, <2>1, <2>2, <2>3, <2>4
  <1> QED BY <1>1, <1>5 DEF StackInv

LEMMA StackAtCompileFile ==
    ASSUME TypeOK, SlotInv, CompileFile
    PROVE  StackInv'
  <1>1. stack' = <<Frame("run")>> /\ events = <<>> /\ ~IsRunning /\ UNCHANGED procVars
    BY DEF CompileFile, Ask
  <1>2. events' = <<>> /\ processes' = {} BY <1>1, NoProcessRuns DEF IsRunning, procVars
  <1>3. stack' # <<>> /\ Len(stack') = 1 /\ stack'[1].at = "run" /\ DOMAIN stack' = {1} /\ Top' = "run"
    BY <1>1 DEF Frame, Top, Last
  <1> QED BY <1>2, <1>3 DEF StackInv, PlaceAt, Flat, Resting, Yields

LEMMA StackAtKill ==
    ASSUME TypeOK, StackInv, KillProcess
    PROVE  StackInv'
  <1>1. UNCHANGED stack /\ m_CommandQueue' = <<>> /\ building' = NoTarget /\ UNCHANGED procVars
    BY DEF KillProcess, ResetBuildState
  <1>2. (\A k \in DOMAIN stack' : PlaceAt(k)') /\ (Flat' <=> Flat) /\ (Nested' <=> Nested)
        /\ (Resting' <=> Resting)
    BY <1>1 DEF StackInv, PlaceAt, Flat, Nested, Resting, Top
  <1> QED BY <1>1, <1>2 DEF StackInv, Dead, procVars

LEMMA StackAtQueueSteps ==
    ASSUME TypeOK, SlotInv, StackInv, QueueInv, CleanInv, DoRunQueue
    PROVE  StackInv'
  <1>0. /\ Len(stack) \in Nat /\ DOMAIN stack = 1..Len(stack)
        /\ stack # <<>> => Len(stack) > 0
    BY TopFacts
  <1>1. CASE QueueWaits
    <2>1. stack # <<>> /\ Top = "run" /\ UNCHANGED <<m_CommandQueue, building>> /\ UNCHANGED procVars
      BY <1>1 DEF QueueWaits, At, Top, jobVars
    <2>2. stack' \in Seq(Frames) /\ Pops BY <1>1, StepsThatPop
    <2>3. /\ \A k \in DOMAIN stack' : PlaceAt(k)'
          /\ Flat => Flat'
          /\ Nested => Nested'
      BY <2>1, <2>2, PopPlaces
    <2>4. Resting => stack' = <<>> BY <1>0, <2>1, <2>2, NewTop DEF Resting, Pops
    <2>5. ASSUME m_CommandQueue # <<>> PROVE stack' = <<>>
      <3>1. Len(stack) = 1 BY <2>1, <2>5, QueuedAtTheBottom DEF Loops
      <3>2. Len(stack') = 0 BY <2>2, <3>1 DEF Pops
      <3> QED BY <2>2, <3>2, NewTop
    <2> QED BY <2>1, <2>3, <2>4, <2>5 DEF StackInv, Resting, Dead, procVars
  <1>2. ASSUME RunCommand \/ QueueFound PROVE StackInv'
    <2>1. stack # <<>> /\ Top \in {"run", "queueTest"} /\ m_CommandQueue # <<>>
      BY <1>2 DEF RunCommand, QueueFound, StartCommand, RefuseCommand, At, Top
    <2>2. stack' \in Seq(Frames) /\ Puts(Jumped("run")) BY <1>2, StepsThatRun
    <2>3. Jumped("run").at = "run" BY <2>1, FrameType DEF Labels
    <2>4. Len(stack) = 1 /\ Flat BY <2>1, QueuedAtTheBottom DEF Loops
    <2>5. /\ \A k \in DOMAIN stack' : PlaceAt(k)'
          /\ Top' = "run" /\ Len(stack') = Len(stack) /\ Flat'
      <3> DEFINE f == Jumped("run")
      <3>1. f.at = "run" /\ Puts(f) BY <2>2, <2>3
      <3> HIDE DEF f
      <3> QED BY <2>1, <2>2, <2>4, <3>1, PutPlaces DEF Loops, Yields
    <2>6. stack' # <<>> /\ Resting' BY <1>0, <2>2, <2>4, <2>5, NewTop DEF Resting
    <2>7. UNCHANGED <<events, handling>>
      BY <1>2 DEF RunCommand, QueueFound, StartCommand, Execute, RefuseCommand, procVars
    <2> QED BY <2>1, <2>5, <2>6, <2>7 DEF StackInv
  <1>3. CASE QueueEmpty
    <2> DEFINE f == [Frame("queueLoop") EXCEPT !.slot = GetNextAvailableProcessIndex]
    <2>1. /\ stack # <<>> /\ Top = "run" /\ UNCHANGED <<m_CommandQueue, building>> /\ UNCHANGED procVars
          /\ m_CommandQueue = <<>> /\ processes = {} /\ stack' = Append(Below, f)
          /\ Available # {}
      BY <1>3, NoProcessRuns DEF QueueEmpty, At, Top, jobVars
    <2>2. GetNextAvailableProcessIndex \in 1..Slots BY <2>1, SlotIsAvailable
    <2>3. f \in Frames /\ f.at = "queueLoop" /\ f.slot \in 1..Slots
      <3>1. GetNextAvailableProcessIndex \in 0..Slots BY <2>2, BuildAssumption
      <3>2. Frame("queueLoop") \in Frames /\ Frame("queueLoop").at = "queueLoop" BY FrameType DEF Labels
      <3> QED BY <2>2, <3>1, <3>2 DEF Frames
    <2> HIDE DEF f
    <2>4. stack' \in Seq(Frames) /\ Puts(f) BY <2>1, <2>3, PutChanges DEF TypeOK
    <2>5. /\ \A k \in DOMAIN stack' : PlaceAt(k)'
          /\ Top' = "queueLoop" /\ Len(stack') = Len(stack)
          /\ Flat => Flat'
          /\ Nested => Nested'
      BY <2>1, <2>3, <2>4, PutPlaces DEF Yields, Loops
    <2>6. events = <<>> \/ Dead
      <3>1. SUFFICES ASSUME events # <<>>, building # NoTarget PROVE FALSE
        BY <2>1 DEF Dead
      <3>2. handling BY <2>1, <3>1 DEF StackInv
      <3> QED BY <2>1, <3>1, <3>2 DEF QueueInv
    <2>7. events # <<>> => Nested
      <3>1. CASE Flat /\ Resting BY <1>0, <2>1, <3>1, TopFacts DEF Resting, Nested, Loops
      <3> QED BY <3>1 DEF StackInv
    <2> QED BY <2>1, <2>5, <2>6, <2>7 DEF StackInv, Dead, procVars
  <1>4. CASE Manage("queueLoop", "queueTest")
    <2>1. stack # <<>> /\ Top = "queueLoop" /\ UNCHANGED <<m_CommandQueue, building>> /\ UNCHANGED procVars
      BY <1>4 DEF Manage, At, Top, jobVars
    <2>2. /\ processes = {} /\ ~Resting /\ m_CommandQueue = <<>>
          /\ (Flat /\ events = <<>>) \/ (Dead /\ Nested)
      <3>1. ~Resting BY <2>1 DEF Resting
      <3> QED BY <2>1, <3>1 DEF StackInv
    <2>3. stack' \in Seq(Frames) /\ PutsAndPushes(Jumped("queueTest"), Frame("yield"))
      BY <1>4, <2>2, NoProcessRuns, StepsThatYield
    <2>4. Jumped("queueTest").at = "queueTest" /\ Jumped("queueTest").slot \in 1..Slots
      <3>1. PlaceAt(Len(stack)) /\ stack[Len(stack)].at = "queueLoop" /\ Last(stack) = stack[Len(stack)]
        BY <2>1, TopFacts DEF StackInv
      <3>2. Last(stack).slot \in 1..Slots BY <3>1 DEF PlaceAt
      <3> QED BY <2>1, <3>2, FrameType DEF Labels
    <2>5. /\ \A k \in DOMAIN stack' : PlaceAt(k)'
          /\ Flat => Flat'
          /\ Nested => Nested'
      <3> DEFINE f == Jumped("queueTest")
      <3>1. f.at = "queueTest" /\ f.slot \in 1..Slots /\ PutsAndPushes(f, Frame("yield")) BY <2>3, <2>4
      <3> HIDE DEF f
      <3> QED BY <2>1, <2>3, <3>1, YieldPlaces DEF Loops
    <2> QED BY <2>1, <2>2, <2>5 DEF StackInv, Dead, procVars
  <1>5. CASE QueueEnds
    <2>1. /\ stack # <<>> /\ Top = "queueTest" /\ m_CommandQueue' = <<>> /\ building' = NoTarget
          /\ UNCHANGED procVars
      BY <1>5 DEF QueueEnds, At, Top, ResetBuildState
    <2>2. /\ processes = {} /\ ~Resting
          /\ (Flat /\ events = <<>>) \/ (Dead /\ Nested)
      <3>1. ~Resting BY <2>1 DEF Resting
      <3> QED BY <2>1, <3>1 DEF StackInv
    <2>3. stack' \in Seq(Frames) /\ Pops BY <1>5, StepsThatPop
    <2>4. /\ \A k \in DOMAIN stack' : PlaceAt(k)'
          /\ Flat => Flat'
          /\ Nested => Nested'
      BY <2>1, <2>3, PopPlaces
    <2> QED BY <2>1, <2>2, <2>4 DEF StackInv, Dead, procVars
  <1>6. CASE GoOn("queueTest", "queueLoop")
    <2>1. /\ stack # <<>> /\ Top = "queueTest" /\ UNCHANGED <<m_CommandQueue, building>> /\ UNCHANGED procVars
          /\ m_CommandQueue = <<>>
      BY <1>6 DEF GoOn, At, Top, jobVars
    <2>2. /\ processes = {} /\ ~Resting
          /\ (Flat /\ events = <<>>) \/ (Dead /\ Nested)
      <3>1. ~Resting BY <2>1 DEF Resting
      <3> QED BY <2>1, <3>1 DEF StackInv
    <2>3. stack' \in Seq(Frames) /\ Puts(Jumped("queueLoop")) BY <1>6, StepsThatJump
    <2>4. Jumped("queueLoop").at = "queueLoop" /\ Jumped("queueLoop").slot \in 1..Slots
      <3>1. PlaceAt(Len(stack)) /\ stack[Len(stack)].at = "queueTest" /\ Last(stack) = stack[Len(stack)]
        BY <2>1, TopFacts DEF StackInv
      <3>2. Last(stack).slot \in 1..Slots BY <3>1 DEF PlaceAt
      <3> QED BY <2>1, <3>2, FrameType DEF Labels
    <2>5. /\ \A k \in DOMAIN stack' : PlaceAt(k)'
          /\ Flat => Flat'
          /\ Nested => Nested'
      <3> DEFINE f == Jumped("queueLoop")
      <3>1. f.at = "queueLoop" /\ f.slot \in 1..Slots /\ Puts(f) BY <2>3, <2>4
      <3> HIDE DEF f
      <3> QED BY <2>1, <2>3, <3>1, PutPlaces DEF Loops, Yields
    <2> QED BY <2>1, <2>2, <2>5 DEF StackInv, Dead, procVars
  <1> QED BY <1>1, <1>2, <1>3, <1>4, <1>5, <1>6 DEF DoRunQueue

LEMMA EventsAtYields ==
    ASSUME TypeOK, StackInv, Looping, stack # <<>>, events # <<>>
    PROVE  Dead /\ Nested /\ Top = "yield" /\ processes = {} /\ handling
  <1>1. Top \in Yields /\ ~Resting BY DEF Looping, Top, Resting, Yields
  <1>2. Dead /\ Nested /\ processes = {} /\ handling BY <1>1 DEF StackInv
  <1>3. Len(stack) \in DOMAIN stack /\ Top = stack[Len(stack)].at BY TopFacts
  <1> QED BY <1>1, <1>2, <1>3 DEF Nested, Loops, Yields

LEMMA EventAlone ==
    ASSUME TypeOK, SlotInv, NEW code, TakeEvent(code), ~StillRunning
    PROVE  processes = {}
  <1>1. events # <<>> /\ Head(events).slot \in 1..Slots BY TypeOfTake
  <1>2. events \in Seq([slot : 1..Slots, code : {0, 1}]) BY DEF TypeOK
  <1>3. 1 \in DOMAIN events /\ Head(events) = events[1] BY <1>1, <1>2, HeadTailProperties, EmptySeq
  <1>4. ~ProcessIn(Head(events).slot) BY <1>1, <1>3 DEF SlotInv, EventOf
  <1>5. \A p \in processes : p.slot \in 1..Slots BY DEF TypeOK
  <1> QED BY <1>1, <1>4, <1>5 DEF StillRunning, SlotInv, ProcessIn

LEMMA StackAtJobSucceeds ==
    ASSUME TypeOK, SlotInv, StackInv, QueueInv, CleanInv, JobSucceeds
    PROVE  StackInv'
  <1> DEFINE f == Frame(IF m_CommandQueue # <<>> \/ StillRunning THEN "run" ELSE "endLoop")
  <1>1. /\ TakeEvent(0) /\ Looping /\ events # <<>> /\ events' = Tail(events)
        /\ handling' = (events' # <<>>) /\ UNCHANGED <<processes, building, m_CommandQueue>>
        /\ stack' = Append(stack, f)
    BY DEF JobSucceeds, TakeEvent, jobVars
  <1>2. /\ f \in Frames /\ f.at \in {"run", "endLoop"}
        /\ f.at = "endLoop" => m_CommandQueue = <<>> /\ ~StillRunning
    <2>1. \A label \in {"run", "endLoop"} : Frame(label) \in Frames /\ Frame(label).at = label
      BY FrameType DEF Labels
    <2> QED BY <2>1
  <1> HIDE DEF f
  <1>3. f.at = "endLoop" => m_CommandQueue = <<>> /\ processes = {} BY <1>1, <1>2, EventAlone
  <1>4. stack' \in Seq(Frames) /\ Pushes(f) BY <1>1, <1>2, PushChanges DEF TypeOK
  <1>5. stack # <<>> => Dead /\ Nested /\ Top = "yield" /\ processes = {} BY <1>1, EventsAtYields
  <1>6. /\ \A k \in DOMAIN stack' : PlaceAt(k)'
        /\ Top' = f.at /\ Len(stack') = Len(stack) + 1
        /\ stack = <<>> => Flat'
        /\ Nested => Nested'
    BY <1>2, <1>4, <1>5, PushPlaces
  <1>7. ~Resting' => processes' = {}
    <2>1. CASE stack # <<>> BY <1>1, <1>5, <2>1
    <2>2. CASE stack = <<>> /\ f.at = "run"
      <3>1. Len(stack') = 1 BY <1>6, <2>2
      <3> QED BY <1>6, <2>2, <3>1 DEF Resting
    <2>3. CASE f.at = "endLoop" BY <1>1, <1>3, <2>3
    <2> QED BY <1>2, <2>1, <2>2, <2>3
  <1>8. (Flat' /\ (Resting' \/ events' = <<>>)) \/ (Dead' /\ Nested')
    <2>1. CASE stack # <<>> BY <1>1, <1>5, <1>6, <2>1 DEF Dead
    <2>2. CASE stack = <<>> /\ f.at = "run"
      <3>1. Len(stack') = 1 BY <1>6, <2>2
      <3> QED BY <1>6, <2>2, <3>1 DEF Resting
    <2>3. CASE stack = <<>> /\ f.at = "endLoop"
      <3>1. m_CommandQueue = <<>> /\ processes = {} BY <1>3, <2>3
      <3>2. Nested BY <2>3 DEF Nested
      <3>3. CASE building = NoTarget BY <1>1, <1>6, <3>1, <3>2, <3>3 DEF Dead
      <3>4. CASE building # NoTarget
        <4>1. Len(events) = 1 BY <1>1, <3>1, <3>4 DEF QueueInv
        <4>2. events' = <<>>
          <5>1. events \in Seq([slot : 1..Slots, code : {0, 1}]) BY DEF TypeOK
          <5>2. events' \in Seq([slot : 1..Slots, code : {0, 1}]) /\ Len(events') = 0
            BY <1>1, <4>1, <5>1, HeadTailProperties
          <5> QED BY <5>2, EmptySeq
        <4> QED BY <1>6, <2>3, <4>2
      <3> QED BY <3>3, <3>4
    <2> QED BY <1>2, <2>1, <2>2, <2>3
  <1>9. m_CommandQueue' # <<>> => Top' = "run" BY <1>1, <1>2, <1>6
  <1> QED BY <1>1, <1>6, <1>7, <1>8, <1>9 DEF StackInv

LEMMA StackAtJobFails ==
    ASSUME TypeOK, SlotInv, StackInv, JobFails
    PROVE  StackInv'
  <1>1. /\ Looping /\ events # <<>> /\ handling' = (events' # <<>>) /\ UNCHANGED <<processes, stack>>
        /\ m_CommandQueue' = <<>> /\ building' = NoTarget
    BY DEF JobFails, TakeEvent, ResetBuildState
  <1>2. stack # <<>> => Dead /\ Nested BY <1>1, EventsAtYields
  <1>3. (\A k \in DOMAIN stack' : PlaceAt(k)') /\ (Flat' <=> Flat) /\ (Nested' <=> Nested)
        /\ (Resting' <=> Resting)
    BY <1>1 DEF StackInv, PlaceAt, Flat, Nested, Resting, Top
  <1>4. stack = <<>> => Flat /\ Resting BY DEF Flat, Resting
  <1> QED BY <1>1, <1>2, <1>3, <1>4 DEF StackInv, Dead

LEMMA StackAtJobEnd ==
    ASSUME TypeOK, SlotInv, StackInv, QueueInv, CleanInv, OnJobEnd
    PROVE  StackInv'
  <1>0. /\ Len(stack) \in Nat /\ DOMAIN stack = 1..Len(stack)
        /\ stack # <<>> => Len(stack) > 0
    BY TopFacts
  <1>1. CASE JobSucceeds BY <1>1, StackAtJobSucceeds
  <1>2. CASE JobFails BY <1>2, StackAtJobFails
  <1>3. CASE Manage("endLoop", "endTest")
    <2>1. stack # <<>> /\ Top = "endLoop" /\ UNCHANGED <<m_CommandQueue, building>> /\ UNCHANGED procVars
      BY <1>3 DEF Manage, At, Top, jobVars
    <2>2. /\ processes = {} /\ ~Resting /\ m_CommandQueue = <<>>
          /\ (Flat /\ events = <<>>) \/ (Dead /\ Nested)
      <3>1. ~Resting BY <2>1 DEF Resting
      <3> QED BY <2>1, <3>1 DEF StackInv
    <2>3. stack' \in Seq(Frames) /\ PutsAndPushes(Jumped("endTest"), Frame("yield"))
      BY <1>3, <2>2, NoProcessRuns, StepsThatYield
    <2>4. Jumped("endTest").at = "endTest" BY <2>1, FrameType DEF Labels
    <2>5. /\ \A k \in DOMAIN stack' : PlaceAt(k)'
          /\ Flat => Flat'
          /\ Nested => Nested'
      <3> DEFINE f == Jumped("endTest")
      <3>1. f.at = "endTest" /\ PutsAndPushes(f, Frame("yield")) BY <2>3, <2>4
      <3> HIDE DEF f
      <3> QED BY <2>1, <2>3, <3>1, YieldPlaces DEF Loops
    <2> QED BY <2>1, <2>2, <2>5 DEF StackInv, Dead, procVars
  <1>4. CASE EndFound
    <2>1. /\ stack # <<>> /\ Top = "endTest" /\ m_CommandQueue # <<>>
          /\ UNCHANGED <<m_CommandQueue, building>> /\ UNCHANGED procVars
      BY <1>4 DEF EndFound, At, Top, jobVars
    <2>2. stack' \in Seq(Frames) /\ Puts(Jumped("run")) BY <1>4, StepsThatRun
    <2>3. Jumped("run").at = "run" BY <2>1, FrameType DEF Labels
    <2>4. Len(stack) = 1 /\ Flat BY <2>1, QueuedAtTheBottom DEF Loops
    <2>5. /\ \A k \in DOMAIN stack' : PlaceAt(k)'
          /\ Top' = "run" /\ Len(stack') = Len(stack) /\ Flat'
      <3> DEFINE f == Jumped("run")
      <3>1. f.at = "run" /\ Puts(f) BY <2>2, <2>3
      <3> HIDE DEF f
      <3> QED BY <2>1, <2>2, <2>4, <3>1, PutPlaces DEF Loops, Yields
    <2>6. stack' # <<>> /\ Resting' BY <1>0, <2>2, <2>4, <2>5, NewTop DEF Resting
    <2> QED BY <2>1, <2>5, <2>6 DEF StackInv, procVars
  <1>5. CASE EndJobs
    <2>1. /\ stack # <<>> /\ Top = "endTest" /\ m_CommandQueue' = <<>> /\ building' = NoTarget
          /\ UNCHANGED procVars
      BY <1>5 DEF EndJobs, At, Top, ResetBuildState
    <2>2. /\ processes = {} /\ ~Resting
          /\ (Flat /\ events = <<>>) \/ (Dead /\ Nested)
      <3>1. ~Resting BY <2>1 DEF Resting
      <3> QED BY <2>1, <3>1 DEF StackInv
    <2>3. stack' \in Seq(Frames) /\ Pops BY <1>5, StepsThatPop
    <2>4. /\ \A k \in DOMAIN stack' : PlaceAt(k)'
          /\ Flat => Flat'
          /\ Nested => Nested'
      BY <2>1, <2>3, PopPlaces
    <2> QED BY <2>1, <2>2, <2>4 DEF StackInv, Dead, procVars
  <1>6. CASE GoOn("endTest", "endLoop")
    <2>1. /\ stack # <<>> /\ Top = "endTest" /\ UNCHANGED <<m_CommandQueue, building>> /\ UNCHANGED procVars
          /\ m_CommandQueue = <<>>
      BY <1>6 DEF GoOn, At, Top, jobVars
    <2>2. /\ processes = {} /\ ~Resting
          /\ (Flat /\ events = <<>>) \/ (Dead /\ Nested)
      <3>1. ~Resting BY <2>1 DEF Resting
      <3> QED BY <2>1, <3>1 DEF StackInv
    <2>3. stack' \in Seq(Frames) /\ Puts(Jumped("endLoop")) BY <1>6, StepsThatJump
    <2>4. Jumped("endLoop").at = "endLoop" BY <2>1, FrameType DEF Labels
    <2>5. /\ \A k \in DOMAIN stack' : PlaceAt(k)'
          /\ Flat => Flat'
          /\ Nested => Nested'
      <3> DEFINE f == Jumped("endLoop")
      <3>1. f.at = "endLoop" /\ Puts(f) BY <2>3, <2>4
      <3> HIDE DEF f
      <3> QED BY <2>1, <2>3, <3>1, PutPlaces DEF Loops, Yields
    <2> QED BY <2>1, <2>2, <2>5 DEF StackInv, Dead, procVars
  <1> QED BY <1>1, <1>2, <1>3, <1>4, <1>5, <1>6 DEF OnJobEnd

LEMMA StackAtManagement ==
    ASSUME TypeOK, LoopAssumption, SlotInv, StackInv, BuildStateManagement
    PROVE  StackInv'
  <1>0. /\ Len(stack) \in Nat /\ DOMAIN stack = 1..Len(stack)
        /\ stack # <<>> => Len(stack) \in DOMAIN stack /\ Top = stack[Len(stack)].at
    BY TopFacts
  <1>1. /\ stack # <<>> /\ ~Resting /\ processes = {} /\ UNCHANGED procVars
        /\ (Flat /\ events = <<>>) \/ (Dead /\ Nested)
    <2>1. \E label \in {"yield", "commands", "projectDone", "last"} : At(label)
      BY DEF BuildStateManagement, ManageNothing, EnterState, LeaveState, StartNextProject,
             NextProjectStarted, Managed
    <2>2. UNCHANGED procVars
      BY DEF BuildStateManagement, ManageNothing, EnterState, LeaveState, StartNextProject,
             NextProjectStarted, Managed
    <2> QED BY <2>1, <2>2, NotResting
  <1>2. Top \notin Loops \cup {"yield"} => Flat /\ events = <<>> BY <1>0, <1>1 DEF Nested
  <1>3. Top \in {"yield", "commands"} => m_CommandQueue = <<>> BY <1>1 DEF StackInv
  <1>4. CASE ManageNothing
    <2>1. m_CommandQueue' = <<>> /\ building' = NoTarget BY <1>4 DEF ManageNothing, ResetBuildState
    <2>2. stack' \in Seq(Frames) /\ Pops BY <1>4, StepsThatPop
    <2>3. /\ \A k \in DOMAIN stack' : PlaceAt(k)'
          /\ Flat => Flat'
          /\ Nested => Nested'
      BY <1>1, <2>2, PopPlaces
    <2> QED BY <1>1, <2>1, <2>3 DEF StackInv, Dead, procVars
  <1>5. CASE EnterState
    <2>1. Top = "yield" /\ building # NoTarget /\ UNCHANGED m_CommandQueue
      BY <1>5 DEF EnterState, At, Top
    <2>2. Flat /\ events = <<>> BY <1>1, <2>1 DEF Dead
    <2>3. PICK commands : Puts(Entering(commands)) /\ Entering(commands).at = "commands"
      BY <1>5, EnterChanges
    <2>4. stack' \in Seq(Frames) BY <1>5, EnterChanges
    <2>5. /\ \A k \in DOMAIN stack' : PlaceAt(k)'
          /\ Flat'
      <3> DEFINE f == Entering(commands)
      <3>1. f.at = "commands" /\ Puts(f) BY <2>3
      <3> HIDE DEF f
      <3> QED BY <1>0, <1>1, <2>1, <2>2, <2>4, <3>1, PutPlaces DEF Loops, Yields
    <2> QED BY <1>1, <1>3, <2>1, <2>2, <2>5 DEF StackInv, procVars
  <1>6. CASE LeaveState \/ NextProjectStarted
    <2>1. Top \in {"commands", "projectDone"}
      BY <1>6 DEF LeaveState, NextProjectStarted, At, Top
    <2>2. Flat /\ events = <<>> BY <1>2, <2>1 DEF Loops
    <2>3. stack' \in Seq(Frames) /\ Puts(Jumped("last")) BY <1>6, StepsThatJump
    <2>4. Jumped("last").at = "last" BY <1>1, FrameType DEF Labels, Yields
    <2>5. /\ \A k \in DOMAIN stack' : PlaceAt(k)'
          /\ Flat' /\ Top' = "last"
      <3> DEFINE f == Jumped("last")
      <3>1. f.at = "last" /\ Puts(f) BY <2>3, <2>4
      <3> HIDE DEF f
      <3> QED BY <1>0, <1>1, <2>1, <2>2, <2>3, <3>1, PutPlaces DEF Loops, Yields
    <2> QED BY <1>1, <2>2, <2>5 DEF StackInv, procVars
  <1>7. CASE StartNextProject
    <2>1. Top = "commands" /\ UNCHANGED m_CommandQueue
      BY <1>7 DEF StartNextProject, At, Top
    <2>2. Flat /\ events = <<>> BY <1>2, <2>1 DEF Loops
    <2>3. stack' \in Seq(Frames) /\ PutsAndPushes(Jumped("projectDone"), Frame("yield"))
      BY <1>1, <1>7, NoProcessRuns, StepsThatYield
    <2>4. Jumped("projectDone").at = "projectDone" BY <1>1, FrameType DEF Labels
    <2>5. /\ \A k \in DOMAIN stack' : PlaceAt(k)'
          /\ Flat'
      <3> DEFINE f == Jumped("projectDone")
      <3>1. f.at = "projectDone" /\ PutsAndPushes(f, Frame("yield")) BY <2>3, <2>4
      <3> HIDE DEF f
      <3> QED BY <1>1, <2>1, <2>2, <2>3, <3>1, YieldPlaces DEF Loops, Yields
    <2> QED BY <1>1, <1>3, <2>1, <2>2, <2>5 DEF StackInv, procVars
  <1>8. CASE Managed
    <2>1. Top = "last" BY <1>8 DEF Managed, At, Top
    <2>2. Flat /\ events = <<>> BY <1>2, <2>1 DEF Loops
    <2>3. stack' \in Seq(Frames) /\ Pops BY <1>8, StepsThatPop
    <2>4. /\ \A k \in DOMAIN stack' : PlaceAt(k)'
          /\ Flat'
          /\ stack' # <<>> => Top' = stack[Len(stack) - 1].at
      BY <1>1, <2>2, <2>3, PopPlaces
    <2>5. stack[Len(stack) - 1].at \in {"run", "queueTest", "endTest", "projectDone"}
      <3>1. PlaceAt(Len(stack)) BY <1>0, <1>1 DEF StackInv
      <3> QED BY <1>0, <1>1, <2>1, <3>1 DEF PlaceAt, Yields
    <2> QED BY <1>1, <2>2, <2>4, <2>5 DEF StackInv, procVars
  <1> QED BY <1>4, <1>5, <1>6, <1>7, <1>8 DEF BuildStateManagement

LEMMA EndsAtRest ==
    ASSUME TypeOK, StackInv, NEW p \in processes, NEW code, Terminate(p, code)
    PROVE  stack = <<>>
  BY DEF StackInv, Resting, Terminate, Looping, Top, Yields

LEMMA StackStep ==
    ASSUME TypeOK, LoopAssumption, SlotInv, StackInv, QueueInv, CleanInv, AnswerInv, FailInv, Next
    PROVE  StackInv'
  <1>1. CASE User \/ RebuildCleaned BY <1>1, UserStarts, StackAtStart, StackAtCompileFile
  <1>2. CASE KillProcess BY <1>2, StackAtKill
  <1>3. CASE DoRunQueue BY <1>3, StackAtQueueSteps
  <1>4. CASE OnJobEnd BY <1>4, StackAtJobEnd
  <1>5. CASE BuildStateManagement BY <1>5, StackAtManagement
  <1>6. CASE ProcessEnds
    <2>1. PICK p \in processes, code \in {0, 1} : Terminate(p, code) BY <1>6 DEF ProcessEnds
    <2>2. stack = <<>> BY <2>1, EndsAtRest
    <2>3. stack' = <<>> BY <2>1, <2>2 DEF Terminate
    <2> QED BY <2>3 DEF StackInv, Flat, Resting
  <1> QED BY <1>1, <1>2, <1>3, <1>4, <1>5, <1>6 DEF Next, Handle

-----------------------------------------------------------------------------
(* The frames with a label, which a step leaves where they are.               *)
Keeps(label) ==
    \A k \in DOMAIN stack' : stack'[k].at = label => k \in DOMAIN stack /\ stack'[k] = stack[k]

LEMMA ChangesKeep ==
    ASSUME TypeOK, stack' \in Seq(Frames), NEW label
    PROVE  /\ stack # <<>> /\ Pops => Keeps(label)
           /\ \A f : stack # <<>> /\ Puts(f) /\ f.at # label => Keeps(label)
           /\ \A f : Pushes(f) /\ f.at # label => Keeps(label)
           /\ \A f : stack # <<>> /\ PutsAndPushes(f, Frame("yield")) /\ f.at # label /\ label # "yield"
                        => Keeps(label)
  <1>1. /\ Len(stack) \in Nat /\ DOMAIN stack = 1..Len(stack) /\ (stack # <<>> <=> Len(stack) > 0)
        /\ DOMAIN stack' = 1..Len(stack') /\ Len(stack') \in Nat
    BY TopFacts, NewTop
  <1>2. ASSUME stack # <<>>, Pops PROVE Keeps(label) BY <1>1, <1>2 DEF Keeps, Pops
  <1>3. \A f : stack # <<>> /\ Puts(f) /\ f.at # label => Keeps(label)
    <2> SUFFICES ASSUME NEW f, stack # <<>>, Puts(f), f.at # label PROVE Keeps(label)
      OBVIOUS
    <2>1. \A k \in DOMAIN stack' : k \in 1..(Len(stack) - 1) \/ k = Len(stack)
      BY <1>1 DEF Puts
    <2> QED BY <1>1, <2>1 DEF Keeps, Puts
  <1>4. \A f : Pushes(f) /\ f.at # label => Keeps(label)
    <2> SUFFICES ASSUME NEW f, Pushes(f), f.at # label PROVE Keeps(label)
      OBVIOUS
    <2>1. \A k \in DOMAIN stack' : k \in 1..Len(stack) \/ k = Len(stack) + 1
      BY <1>1 DEF Pushes
    <2> QED BY <1>1, <2>1 DEF Keeps, Pushes
  <1>5. \A f : stack # <<>> /\ PutsAndPushes(f, Frame("yield")) /\ f.at # label /\ label # "yield"
                  => Keeps(label)
    <2> SUFFICES ASSUME NEW f, stack # <<>>, PutsAndPushes(f, Frame("yield")), f.at # label, label # "yield"
                 PROVE  Keeps(label)
      OBVIOUS
    <2>1. \A k \in DOMAIN stack' : k \in 1..(Len(stack) - 1) \/ k = Len(stack) \/ k = Len(stack) + 1
      BY <1>1 DEF PutsAndPushes
    <2>2. stack'[Len(stack) + 1].at = "yield" BY DEF PutsAndPushes, Frame
    <2> QED BY <1>1, <2>1, <2>2 DEF Keeps, PutsAndPushes
  <1> QED BY <1>2, <1>3, <1>4, <1>5

(* A rebuild that waits for its clean stays at the bottom of the stack.       *)
Grounded == stack # <<>> /\ stack[1].at = "rebuild" => stack' # <<>> /\ stack'[1].at = "rebuild"

LEMMA GroundKept ==
    ASSUME TypeOK, stack' \in Seq(Frames)
    PROVE  /\ stack # <<>> /\ Pops /\ Top # "rebuild" => Grounded
           /\ \A f : stack # <<>> /\ Puts(f) /\ Top # "rebuild" => Grounded
           /\ \A f : Pushes(f) => Grounded
           /\ \A f : stack # <<>> /\ PutsAndPushes(f, Frame("yield")) /\ Top # "rebuild" => Grounded
  <1>1. /\ Len(stack) \in Nat /\ (stack # <<>> <=> Len(stack) > 0)
        /\ stack # <<>> => Top = stack[Len(stack)].at
        /\ Len(stack') \in Nat /\ (stack' # <<>> <=> Len(stack') > 0)
    BY TopFacts, NewTop
  <1>2. ASSUME stack # <<>>, Top # "rebuild", stack[1].at = "rebuild"
        PROVE  Len(stack) > 1 /\ 1 \in 1..(Len(stack) - 1) /\ 1 \in 1..Len(stack)
    BY <1>1, <1>2
  <1>3. stack # <<>> /\ Pops /\ Top # "rebuild" => Grounded
    BY <1>1, <1>2 DEF Grounded, Pops
  <1>4. \A f : stack # <<>> /\ Puts(f) /\ Top # "rebuild" => Grounded
    <2> SUFFICES ASSUME NEW f, stack # <<>>, Puts(f), Top # "rebuild" PROVE Grounded
      OBVIOUS
    <2> QED BY <1>1, <1>2 DEF Grounded, Puts
  <1>5. \A f : Pushes(f) => Grounded
    <2> SUFFICES ASSUME NEW f, Pushes(f) PROVE Grounded
      OBVIOUS
    <2>1. stack # <<>> => 1 \in 1..Len(stack) BY <1>1
    <2> QED BY <1>1, <2>1 DEF Grounded, Pushes
  <1>6. \A f : stack # <<>> /\ PutsAndPushes(f, Frame("yield")) /\ Top # "rebuild" => Grounded
    <2> SUFFICES ASSUME NEW f, stack # <<>>, PutsAndPushes(f, Frame("yield")), Top # "rebuild"
                 PROVE  Grounded
      OBVIOUS
    <2> QED BY <1>1, <1>2 DEF Grounded, PutsAndPushes
  <1> QED BY <1>3, <1>4, <1>5, <1>6

LEMMA FramesKept ==
    ASSUME TypeOK, LoopAssumption, SlotInv, StackInv, stack' \in Seq(Frames),
           DoRunQueue \/ OnJobEnd \/ BuildStateManagement \/ KillProcess \/ ProcessEnds
    PROVE  /\ Keeps("rebuild") /\ Grounded
           /\ ~EnterState => Keeps("commands")
           /\ ~StartNextProject => Keeps("projectDone")
           /\ Top \notin {"commands", "projectDone"} => Keeps("last")
           /\ DoRunQueue \/ OnJobEnd \/ KillProcess \/ ProcessEnds =>
                  Keeps("commands") /\ Keeps("projectDone")
  <1> DEFINE All == /\ Keeps("rebuild") /\ Keeps("commands") /\ Keeps("projectDone")
                    /\ Top # "rebuild" => Grounded
                    /\ Top \notin {"commands", "projectDone"} => Keeps("last")
  <1>0. \/ Top # "rebuild"
        \/ JobSucceeds \/ JobFails \/ KillProcess \/ ProcessEnds
    BY DEF Top, At, DoRunQueue, OnJobEnd, BuildStateManagement, QueueWaits, RunCommand, QueueEmpty,
           Manage, QueueFound, QueueEnds, GoOn, EndFound, EndJobs, ManageNothing, EnterState,
           LeaveState, StartNextProject, NextProjectStarted, Managed
  <1>1. ASSUME UNCHANGED stack PROVE All /\ Grounded BY <1>1 DEF Keeps, Grounded
  <1>2. ASSUME QueueWaits \/ QueueEnds \/ EndJobs \/ ManageNothing \/ Managed PROVE All
    <2>1. stack # <<>> /\ Pops BY <1>2, StepsThatPop
    <2> QED BY <2>1, ChangesKeep, GroundKept
  <1>3. ASSUME NEW f, stack # <<>>, Puts(f), f.at \in Loops \cup {"last"},
               f.at = "last" => Top \in {"commands", "projectDone"}
        PROVE  All
    BY <1>3, ChangesKeep, GroundKept DEF Loops
  <1>4. ASSUME RunCommand \/ QueueFound \/ EndFound PROVE All
    <2>1. stack # <<>> /\ Puts(Jumped("run")) BY <1>4, StepsThatRun
    <2>2. Jumped("run").at = "run" BY <2>1, FrameType DEF Labels
    <2> QED BY <1>3, <2>1, <2>2 DEF Loops
  <1>5. ASSUME GoOn("queueTest", "queueLoop") PROVE All
    <2>1. stack # <<>> /\ Puts(Jumped("queueLoop")) BY <1>5, StepsThatJump
    <2>2. Jumped("queueLoop").at = "queueLoop" BY <2>1, FrameType DEF Labels
    <2> QED BY <1>3, <2>1, <2>2 DEF Loops
  <1>6. ASSUME GoOn("endTest", "endLoop") PROVE All
    <2>1. stack # <<>> /\ Puts(Jumped("endLoop")) BY <1>6, StepsThatJump
    <2>2. Jumped("endLoop").at = "endLoop" BY <2>1, FrameType DEF Labels
    <2> QED BY <1>3, <2>1, <2>2 DEF Loops
  <1>7. ASSUME LeaveState \/ NextProjectStarted PROVE All
    <2>1. stack # <<>> /\ Puts(Jumped("last")) BY <1>7, StepsThatJump
    <2>2. Jumped("last").at = "last" BY <2>1, FrameType DEF Labels, Yields
    <2>3. Top \in {"commands", "projectDone"} BY <1>7 DEF LeaveState, NextProjectStarted, At, Top
    <2> QED BY <1>3, <2>1, <2>2, <2>3
  <1>8. ASSUME QueueEmpty PROVE All
    <2> DEFINE f == [Frame("queueLoop") EXCEPT !.slot = GetNextAvailableProcessIndex]
    <2>1. /\ stack # <<>> /\ stack' = Append(Below, f) /\ Available # {}
      BY <1>8 DEF QueueEmpty, At
    <2>2. GetNextAvailableProcessIndex \in 1..Slots BY <2>1, SlotIsAvailable
    <2>3. f \in Frames /\ f.at = "queueLoop"
      <3>1. GetNextAvailableProcessIndex \in 0..Slots BY <2>2, BuildAssumption
      <3>2. Frame("queueLoop") \in Frames /\ Frame("queueLoop").at = "queueLoop" BY FrameType DEF Labels
      <3> QED BY <2>2, <3>1, <3>2 DEF Frames
    <2> HIDE DEF f
    <2>4. Puts(f) BY <2>1, <2>3, PutChanges DEF TypeOK
    <2> QED BY <1>3, <2>1, <2>3, <2>4 DEF Loops
  <1>9. ASSUME NEW f, stack # <<>>, PutsAndPushes(f, Frame("yield")), f.at \in Loops PROVE All
    BY <1>9, ChangesKeep, GroundKept DEF Loops
  <1>10. ASSUME Manage("queueLoop", "queueTest") PROVE All
    <2>1. ~IsProcessRunning BY <1>10, NotResting, NoProcessRuns DEF Manage
    <2>2. stack # <<>> /\ PutsAndPushes(Jumped("queueTest"), Frame("yield"))
      BY <1>10, <2>1, StepsThatYield
    <2>3. Jumped("queueTest").at = "queueTest" BY <2>2, FrameType DEF Labels
    <2> QED BY <1>9, <2>2, <2>3 DEF Loops
  <1>11. ASSUME Manage("endLoop", "endTest") PROVE All
    <2>1. ~IsProcessRunning BY <1>11, NotResting, NoProcessRuns DEF Manage
    <2>2. stack # <<>> /\ PutsAndPushes(Jumped("endTest"), Frame("yield"))
      BY <1>11, <2>1, StepsThatYield
    <2>3. Jumped("endTest").at = "endTest" BY <2>2, FrameType DEF Labels
    <2> QED BY <1>9, <2>2, <2>3 DEF Loops
  <1>12. ASSUME JobSucceeds PROVE All /\ Grounded
    <2> DEFINE f == Frame(IF m_CommandQueue # <<>> \/ StillRunning THEN "run" ELSE "endLoop")
    <2>1. stack' = Append(stack, f) BY <1>12 DEF JobSucceeds
    <2>2. f \in Frames /\ f.at \in {"run", "endLoop"}
      <3>1. \A label \in {"run", "endLoop"} : Frame(label) \in Frames /\ Frame(label).at = label
        BY FrameType DEF Labels
      <3> QED BY <3>1
    <2> HIDE DEF f
    <2>3. Pushes(f) BY <2>1, <2>2, PushChanges DEF TypeOK
    <2> QED BY <2>2, <2>3, ChangesKeep, GroundKept
  <1>13. ASSUME EnterState PROVE Keeps("rebuild") /\ Keeps("projectDone") /\ Keeps("last")
                               /\ (Top # "rebuild" => Grounded)
    <2>1. PICK commands : Puts(Entering(commands)) /\ Entering(commands).at = "commands"
      BY <1>13, EnterChanges
    <2>2. stack # <<>> BY <1>13, EnterChanges
    <2> DEFINE f == Entering(commands)
    <2>3. Puts(f) /\ f.at = "commands" BY <2>1
    <2> HIDE DEF f
    <2> QED BY <2>2, <2>3, ChangesKeep, GroundKept
  <1>14. ASSUME StartNextProject PROVE Keeps("rebuild") /\ Keeps("commands") /\ (Top # "rebuild" => Grounded)
                                     /\ Top = "commands"
    <2>1. ~IsProcessRunning BY <1>14, NotResting, NoProcessRuns DEF StartNextProject
    <2>2. stack # <<>> /\ PutsAndPushes(Jumped("projectDone"), Frame("yield"))
      BY <1>14, <2>1, StepsThatYield
    <2>3. Jumped("projectDone").at = "projectDone" BY <2>2, FrameType DEF Labels
    <2> DEFINE f == Jumped("projectDone")
    <2>4. PutsAndPushes(f, Frame("yield")) /\ f.at = "projectDone" BY <2>2, <2>3
    <2> HIDE DEF f
    <2>5. Top = "commands" BY <1>14 DEF StartNextProject, At, Top
    <2> QED BY <2>2, <2>4, <2>5, ChangesKeep, GroundKept
  <1>15. KillProcess \/ ProcessEnds \/ JobFails => UNCHANGED stack
    BY DEF KillProcess, ProcessEnds, Terminate, JobFails
  <1>16. DoRunQueue => All BY <1>2, <1>4, <1>5, <1>8, <1>10 DEF DoRunQueue
  <1>17. OnJobEnd => All BY <1>1, <1>2, <1>4, <1>6, <1>11, <1>12, <1>15 DEF OnJobEnd
  <1>18. KillProcess \/ ProcessEnds => All BY <1>1, <1>15
  <1>19. BuildStateManagement => All \/ EnterState \/ StartNextProject
    BY <1>2, <1>7 DEF BuildStateManagement
  <1>20. ~(EnterState /\ StartNextProject) BY DEF EnterState, StartNextProject, At
  <1>21. Grounded
    <2>1. KillProcess \/ ProcessEnds \/ JobFails \/ JobSucceeds => Grounded BY <1>1, <1>12, <1>15
    <2> QED BY <1>0, <1>13, <1>14, <1>16, <1>17, <1>19, <2>1
  <1> QED BY <1>13, <1>14, <1>16, <1>17, <1>18, <1>19, <1>20, <1>21

-----------------------------------------------------------------------------
(* The queue.                                                                 *)
LEMMA TailOfQueue ==
    ASSUME NEW s \in Seq(Commands), s # <<>>, OneTarget(s)
    PROVE  /\ OneTarget(Tail(s)) /\ (Waits(s) => Waits(Tail(s)))
           /\ Head(s) = s[1] /\ s[1] \in Commands
           /\ Tail(s) # <<>> => /\ ~s[1].wait /\ s[1].stage = "compile"
                                /\ Tail(s)[1].target = s[1].target
           /\ Tail(s) = <<>> /\ Waits(s) => s[1].wait
  <1>1. /\ Len(s) \in Nat /\ Len(s) > 0 /\ DOMAIN s = 1..Len(s) /\ Head(s) = s[1]
        /\ Tail(s) \in Seq(Commands) /\ Len(Tail(s)) = Len(s) - 1
        /\ DOMAIN Tail(s) = 1..(Len(s) - 1)
        /\ \A k \in 1..(Len(s) - 1) : Tail(s)[k] = s[k + 1]
        /\ Tail(s) = <<>> <=> Len(s) = 1
    <2>1. /\ Tail(s) \in Seq(Commands) /\ Len(Tail(s)) = Len(s) - 1
          /\ \A k \in 1..Len(Tail(s)) : Tail(s)[k] = s[k + 1]
      BY HeadTailProperties
    <2>2. Len(s) \in Nat /\ Len(s) > 0 /\ DOMAIN s = 1..Len(s) /\ Head(s) = s[1]
      BY EmptySeq, LenProperties, HeadTailProperties
    <2>3. Tail(s) = <<>> <=> Len(Tail(s)) = 0 BY <2>1, EmptySeq
    <2>4. DOMAIN Tail(s) = 1..Len(Tail(s)) BY <2>1, LenProperties
    <2> QED BY <2>1, <2>2, <2>3, <2>4
  <1>2. 1 \in DOMAIN s /\ s[1] \in Commands BY <1>1
  <1>3. ASSUME NEW k \in DOMAIN Tail(s)
        PROVE  k + 1 \in DOMAIN s /\ Tail(s)[k] = s[k + 1] /\ (k < Len(Tail(s)) <=> k + 1 < Len(s))
    BY <1>1
  <1> DEFINE r == Tail(s)
  <1>4. /\ \A k \in DOMAIN r : k + 1 \in DOMAIN s /\ r[k] = s[k + 1] /\ (k < Len(r) <=> k + 1 < Len(s))
        /\ Len(r) = Len(s) - 1 /\ DOMAIN r = 1..(Len(s) - 1) /\ (r = <<>> <=> Len(s) = 1)
    BY <1>1, <1>3
  <1> HIDE DEF r
  <1>5. r # <<>> => 1 \in DOMAIN r /\ r[1] = s[2] /\ Len(s) > 1 /\ 2 \in DOMAIN s
    BY <1>1, <1>4
  <1>6. OneTarget(r)
    <2> SUFFICES ASSUME NEW k \in DOMAIN r
                 PROVE  /\ r[k].target = r[1].target
                        /\ k < Len(r) => ~r[k].wait
                        /\ ~r[k].wait => r[k].stage = "compile"
      BY DEF OneTarget
    <2>1. r # <<>> BY <1>1, <1>4
    <2>2. r[1].target = s[1].target BY <1>5, <2>1 DEF OneTarget
    <2> QED BY <1>4, <2>2 DEF OneTarget
  <1>7. Waits(s) => Waits(r)
    <2> SUFFICES ASSUME Waits(s), r # <<>> PROVE r[Len(r)].wait
      BY DEF Waits
    <2>1. Len(r) \in DOMAIN r /\ Len(r) + 1 = Len(s) BY <1>1, <1>4, <1>5
    <2>2. r[Len(r)] = s[Len(r) + 1] BY <1>4, <2>1
    <2> QED BY <2>1, <2>2 DEF Waits
  <1>8. r # <<>> => ~s[1].wait /\ s[1].stage = "compile" /\ r[1].target = s[1].target
    BY <1>2, <1>5 DEF OneTarget
  <1>9. r = <<>> /\ Waits(s) => s[1].wait BY <1>1, <1>4 DEF Waits
  <1> QED BY <1>1, <1>2, <1>6, <1>7, <1>8, <1>9 DEF r

LEMMA QueueFrames ==
    ASSUME QueueInv, Keeps("commands")
    PROVE  \A k \in DOMAIN stack' : stack'[k].at = "commands" =>
               OneTarget(stack'[k].commands) /\ Waits(stack'[k].commands)
  BY DEF QueueInv, Keeps

LEMMA QueueAtReset ==
    ASSUME QueueInv, Keeps("commands"), m_CommandQueue' = <<>>, building' = NoTarget,
           UNCHANGED processes
    PROVE  QueueInv'
  <1>1. OneTarget(m_CommandQueue') BY NoCommandIsGood DEF Good
  <1>2. OneStageAtATime' BY DEF QueueInv, OneStageAtATime
  <1> QED BY <1>1, <1>2, QueueFrames DEF QueueInv

LEMMA QueueStays ==
    ASSUME QueueInv, Keeps("commands"), UNCHANGED <<m_CommandQueue, building>>, UNCHANGED procVars
    PROVE  QueueInv'
  <1>1. OneStageAtATime' /\ (AtMostOne' <=> AtMostOne) BY DEF QueueInv, OneStageAtATime, AtMostOne, procVars
  <1>2. OneTarget(m_CommandQueue') /\ (Waits(m_CommandQueue) <=> Waits(m_CommandQueue'))
    BY DEF QueueInv
  <1> QED BY <1>1, <1>2, QueueFrames DEF QueueInv, procVars

LEMMA QueueAtStart ==
    ASSUME TypeOK, SlotInv, StackInv, QueueInv, NEW i \in Available, StartCommand(i), ~CommandMustWait,
           stack # <<>>, Keeps("commands")
    PROVE  QueueInv'
  <1> DEFINE c == Head(m_CommandQueue)
             new == [slot |-> i, command |-> c]
  <1>1. /\ m_CommandQueue # <<>> /\ m_CommandQueue' = Tail(m_CommandQueue)
        /\ processes' = processes \cup {new} /\ UNCHANGED <<events, handling, building>>
    BY DEF StartCommand, Execute, jobVars
  <1>2. m_CommandQueue \in Seq(Commands) /\ OneTarget(m_CommandQueue) BY DEF TypeOK, QueueInv
  <1>3. new.command = c OBVIOUS
  <1> HIDE DEF new
  <1>4. /\ OneTarget(m_CommandQueue') /\ (Waits(m_CommandQueue) => Waits(m_CommandQueue'))
        /\ c = m_CommandQueue[1]
        /\ m_CommandQueue' # <<>> => ~c.wait /\ c.stage = "compile" /\ m_CommandQueue'[1].target = c.target
        /\ m_CommandQueue' = <<>> /\ Waits(m_CommandQueue) => c.wait
    BY <1>1, <1>2, TailOfQueue
  <1>5. c.wait => processes = {} BY <1>1, NoProcessRuns DEF CommandMustWait
  <1>6. ~c.wait => c.stage = "compile"
    <2>1. 1 \in DOMAIN m_CommandQueue BY <1>1, <1>2, EmptySeq, LenProperties
    <2> QED BY <1>2, <1>4, <2>1 DEF OneTarget
  <1>7. \A p \in processes : p.command.stage = "compile" /\ p.command.target = c.target
    BY <1>1, <1>4 DEF QueueInv
  <1> HIDE DEF c
  <1>8. OneStageAtATime'
    BY <1>1, <1>3, <1>5, <1>6, <1>7 DEF QueueInv, OneStageAtATime
  <1>9. m_CommandQueue' # <<>> =>
           \A p \in processes' : /\ p.command.stage = "compile"
                                 /\ p.command.target = m_CommandQueue'[1].target
    BY <1>1, <1>3, <1>4, <1>7
  <1>10. building' # NoTarget /\ m_CommandQueue' = <<>> =>
             AtMostOne' /\ (events' = <<>> \/ (handling' /\ processes' # {}))
    <2> SUFFICES ASSUME building' # NoTarget, m_CommandQueue' = <<>>
                 PROVE  AtMostOne' /\ (events' = <<>> \/ (handling' /\ processes' # {}))
      OBVIOUS
    <2>1. Waits(m_CommandQueue) BY <1>1 DEF QueueInv
    <2>2. processes' = {new} BY <1>1, <1>4, <1>5, <2>1
    <2>3. AtMostOne' BY <2>2 DEF AtMostOne
    <2>4. events = <<>> \/ handling BY DEF StackInv
    <2> QED BY <1>1, <2>2, <2>3, <2>4
  <1>11. building' # NoTarget => Waits(m_CommandQueue') BY <1>1, <1>4 DEF QueueInv
  <1> QED BY <1>4, <1>8, <1>9, <1>10, <1>11, QueueFrames DEF QueueInv

LEMMA QueueAtUser ==
    ASSUME TypeOK, SlotInv, AnswerInv, CompileFile \/ Starting
    PROVE  QueueInv'
  <1>1. \A label \in {"run", "yield", "rebuild"} : Frame(label).at # "commands" BY DEF Frame
  <1>2. CASE Starting
    <2>1. processes' = {} /\ events' = <<>> /\ m_CommandQueue' = <<>>
      BY <1>2 DEF Starting, Idle, Dead, NothingToDo, Begins, procVars
    <2>2. \A k \in DOMAIN stack' : stack'[k].at # "commands"
      <3>1. \/ stack' = <<>> \/ stack' = <<Frame("rebuild")>>
            \/ stack' = <<Frame("run"), Frame("yield")>>
            \/ stack' = <<Frame("rebuild"), Frame("run"), Frame("yield")>>
        BY <1>2, BuildFrames DEF Starting, NothingToDo, Begins
      <3> QED BY <1>1, <3>1
    <2>3. OneTarget(m_CommandQueue') /\ Waits(m_CommandQueue')
      BY <2>1, NoCommandIsGood DEF Good
    <2> QED BY <2>1, <2>2, <2>3 DEF QueueInv, OneStageAtATime
  <1>3. CASE CompileFile
    <2>1. PICK t \in Targets : m_CommandQueue' = <<Command(t, "compile", 1, FALSE)>>
      BY <1>3 DEF CompileFile
    <2>2. stack' = <<Frame("run")>> /\ ~IsRunning /\ UNCHANGED procVars /\ UNCHANGED jobVars
      BY <1>3 DEF CompileFile, Ask
    <2>3. processes' = {} /\ building' = NoTarget
      BY <2>2, NoProcessRuns DEF IsRunning, procVars, jobVars, AnswerInv
    <2>4. OneTarget(m_CommandQueue') BY <2>1 DEF OneTarget, Command
    <2> QED BY <1>1, <2>2, <2>3, <2>4 DEF QueueInv, OneStageAtATime
  <1> QED BY <1>2, <1>3

LEMMA QueueAtManagement ==
    ASSUME TypeOK, LoopAssumption, SlotInv, StackInv, QueueInv, BuildStateManagement,
           stack' \in Seq(Frames)
    PROVE  QueueInv'
  <1>1. ~EnterState => Keeps("commands") BY FramesKept
  <1>2. CASE ManageNothing
    <2>1. Keeps("commands") BY <1>1, <1>2 DEF ManageNothing, EnterState
    <2>2. m_CommandQueue' = <<>> /\ building' = NoTarget /\ UNCHANGED procVars
      BY <1>2 DEF ManageNothing, ResetBuildState
    <2>3. UNCHANGED processes BY <2>2 DEF procVars
    <2> QED BY <2>1, <2>2, <2>3, QueueAtReset
  <1>3. CASE EnterState
    <2>1. UNCHANGED <<m_CommandQueue, building>> /\ UNCHANGED procVars BY <1>3 DEF EnterState
    <2>2. PICK commands :
              /\ Puts(Entering(commands)) /\ Entering(commands).commands = commands
              /\ Good(commands)
      BY <1>3, EnterChanges
    <2>3. \A k \in DOMAIN stack' : stack'[k].at = "commands" =>
              OneTarget(stack'[k].commands) /\ Waits(stack'[k].commands)
      <3>1. /\ Len(stack) \in Nat /\ DOMAIN stack = 1..Len(stack)
            /\ DOMAIN stack' = 1..Len(stack') /\ Len(stack') \in Nat
        BY TopFacts, NewTop
      <3>2. \A k \in DOMAIN stack' : k \in 1..(Len(stack) - 1) \/ k = Len(stack)
        BY <2>2, <3>1 DEF Puts
      <3>3. stack'[Len(stack)].commands = commands BY <2>2 DEF Puts
      <3>4. \A k \in 1..(Len(stack) - 1) : stack'[k] = stack[k] /\ k \in DOMAIN stack
        BY <2>2, <3>1 DEF Puts
      <3> QED BY <2>2, <3>2, <3>3, <3>4 DEF QueueInv, Good
    <2>4. OneStageAtATime' /\ (AtMostOne' <=> AtMostOne)
      BY <2>1 DEF QueueInv, OneStageAtATime, AtMostOne, procVars
    <2>5. OneTarget(m_CommandQueue') /\ (Waits(m_CommandQueue) <=> Waits(m_CommandQueue'))
      BY <2>1 DEF QueueInv
    <2> QED BY <2>1, <2>3, <2>4, <2>5 DEF QueueInv, procVars
  <1>4. CASE LeaveState
    <2>1. Keeps("commands") BY <1>1, <1>4 DEF LeaveState, EnterState, At
    <2>2. At("commands") /\ UNCHANGED procVars BY <1>4 DEF LeaveState
    <2>3. /\ stack # <<>> /\ processes = {} /\ Top = "commands"
          /\ (Flat /\ events = <<>>) \/ (Dead /\ Nested)
      BY <2>2, NotResting DEF At, Top
    <2>4. Len(stack) \in DOMAIN stack /\ Last(stack) = stack[Len(stack)] /\ stack[Len(stack)].at = "commands"
      BY <2>3, TopFacts
    <2>5. events = <<>> /\ m_CommandQueue = <<>>
      BY <2>3, <2>4 DEF StackInv, Nested, Loops
    <2>6. OneTarget(Last(stack).commands) /\ Waits(Last(stack).commands) BY <2>4 DEF QueueInv
    <2>7. m_CommandQueue' = Last(stack).commands
      <3>1. Last(stack).commands \in Seq(Commands) BY <2>3, FrameType DEF Frames
      <3>2. m_CommandQueue' = m_CommandQueue \o Last(stack).commands
        BY <1>4 DEF LeaveState, AddToCommandQueue
      <3> QED BY <2>5, <3>1, <3>2, ConcatEmptySeq
    <2>8. processes' = {} /\ events' = <<>> BY <2>2, <2>3, <2>5 DEF procVars
    <2> QED BY <2>1, <2>6, <2>7, <2>8, QueueFrames DEF QueueInv, OneStageAtATime
  <1>5. CASE StartNextProject
    <2>1. Keeps("commands") BY <1>1, <1>5 DEF StartNextProject, EnterState, At
    <2>2. At("commands") /\ UNCHANGED procVars /\ UNCHANGED m_CommandQueue BY <1>5 DEF StartNextProject
    <2>3. /\ stack # <<>> /\ processes = {} /\ Top = "commands"
          /\ (Flat /\ events = <<>>) \/ (Dead /\ Nested)
      BY <2>2, NotResting DEF At, Top
    <2>4. Len(stack) \in DOMAIN stack /\ stack[Len(stack)].at = "commands" BY <2>3, TopFacts
    <2>5. events = <<>> /\ m_CommandQueue = <<>>
      BY <2>3, <2>4 DEF StackInv, Nested, Loops
    <2>6. processes' = {} /\ events' = <<>> /\ m_CommandQueue' = <<>> BY <2>2, <2>3, <2>5 DEF procVars
    <2>7. OneTarget(m_CommandQueue') /\ Waits(m_CommandQueue') BY <2>6, NoCommandIsGood DEF Good
    <2> QED BY <2>1, <2>6, <2>7, QueueFrames DEF QueueInv, OneStageAtATime
  <1>6. CASE NextProjectStarted \/ Managed
    <2>1. Keeps("commands") BY <1>1, <1>6 DEF NextProjectStarted, Managed, EnterState, At
    <2>2. UNCHANGED <<m_CommandQueue, building>> /\ UNCHANGED procVars
      BY <1>6 DEF NextProjectStarted, Managed, jobVars
    <2> QED BY <2>1, <2>2, QueueStays
  <1> QED BY <1>2, <1>3, <1>4, <1>5, <1>6 DEF BuildStateManagement

LEMMA QueueAtQueueSteps ==
    ASSUME TypeOK, LoopAssumption, SlotInv, StackInv, QueueInv, DoRunQueue, stack' \in Seq(Frames)
    PROVE  QueueInv'
  <1>1. Keeps("commands") BY FramesKept
  <1>2. ASSUME RefuseCommand PROVE QueueInv'
    <2>1. m_CommandQueue' = <<>> /\ building' = NoTarget /\ UNCHANGED procVars
      BY <1>2 DEF RefuseCommand, ResetBuildState
    <2>2. UNCHANGED processes BY <2>1 DEF procVars
    <2> QED BY <1>1, <2>1, <2>2, QueueAtReset
  <1>3. CASE RunCommand
    <2>1. stack # <<>> /\ ~CommandMustWait /\ GetNextAvailableProcessIndex \in Available
      BY <1>3, SlotIsAvailable DEF RunCommand, At
    <2> QED BY <1>1, <1>2, <1>3, <2>1, QueueAtStart DEF RunCommand
  <1>4. CASE QueueFound
    <2>1. stack # <<>> /\ At("queueTest") BY <1>4 DEF QueueFound, At
    <2>2. CASE StartCommand(Last(stack).slot)
      <3>1. m_CommandQueue # <<>> BY <2>2 DEF StartCommand
      <3>2. Last(stack).slot \in Available /\ processes = {} BY <2>1, <3>1, FoundSlotIsFree
      <3>3. ~CommandMustWait BY <3>2, NoProcessRuns DEF CommandMustWait
      <3> DEFINE i == Last(stack).slot
      <3>4. i \in Available /\ StartCommand(i) BY <2>2, <3>2
      <3> HIDE DEF i
      <3> QED BY <1>1, <2>1, <3>3, <3>4, QueueAtStart
    <2> QED BY <1>2, <1>4, <2>2 DEF QueueFound
  <1>5. CASE QueueEnds
    <2>1. m_CommandQueue' = <<>> /\ building' = NoTarget /\ UNCHANGED procVars
      BY <1>5 DEF QueueEnds, ResetBuildState
    <2>2. UNCHANGED processes BY <2>1 DEF procVars
    <2> QED BY <1>1, <2>1, <2>2, QueueAtReset
  <1>6. CASE QueueWaits \/ QueueEmpty \/ Manage("queueLoop", "queueTest") \/ GoOn("queueTest", "queueLoop")
    <2>1. UNCHANGED <<m_CommandQueue, building>> /\ UNCHANGED procVars
      BY <1>6 DEF QueueWaits, QueueEmpty, Manage, GoOn, jobVars
    <2> QED BY <1>1, <2>1, QueueStays
  <1> QED BY <1>3, <1>4, <1>5, <1>6 DEF DoRunQueue

LEMMA QueueAtJobEnd ==
    ASSUME TypeOK, LoopAssumption, SlotInv, StackInv, QueueInv, OnJobEnd,
           stack' \in Seq(Frames)
    PROVE  QueueInv'
  <1>1. Keeps("commands") BY FramesKept
  <1>2. CASE JobFails \/ EndJobs
    <2>1. m_CommandQueue' = <<>> /\ building' = NoTarget /\ UNCHANGED processes
      BY <1>2 DEF JobFails, EndJobs, ResetBuildState, TakeEvent, procVars
    <2> QED BY <1>1, <2>1, QueueAtReset
  <1>3. CASE JobSucceeds
    <2>1. /\ events # <<>> /\ events' = Tail(events) /\ handling' = (events' # <<>>)
          /\ UNCHANGED <<processes, building, m_CommandQueue>>
      BY <1>3 DEF JobSucceeds, TakeEvent, jobVars
    <2>2. Len(events) = 1 => events' = <<>>
      <3>1. events \in Seq([slot : 1..Slots, code : {0, 1}]) BY DEF TypeOK
      <3>2. events' \in Seq([slot : 1..Slots, code : {0, 1}]) /\ Len(events') = Len(events) - 1
        BY <2>1, <3>1, HeadTailProperties
      <3> QED BY <3>2, EmptySeq
    <2>3. OneStageAtATime' /\ (AtMostOne' <=> AtMostOne)
      BY <2>1 DEF QueueInv, OneStageAtATime, AtMostOne
    <2>4. OneTarget(m_CommandQueue') /\ (Waits(m_CommandQueue) <=> Waits(m_CommandQueue'))
      BY <2>1 DEF QueueInv
    <2>5. building' # NoTarget /\ m_CommandQueue' = <<>> =>
             \/ processes' = {} /\ events' = <<>>
             \/ AtMostOne' /\ (events' = <<>> \/ (handling' /\ processes' # {}))
      BY <2>1, <2>2, <2>3 DEF QueueInv
    <2> QED BY <1>1, <2>1, <2>3, <2>4, <2>5, QueueFrames DEF QueueInv
  <1>4. CASE Manage("endLoop", "endTest") \/ EndFound \/ GoOn("endTest", "endLoop")
    <2>1. UNCHANGED <<m_CommandQueue, building>> /\ UNCHANGED procVars
      BY <1>4 DEF Manage, EndFound, GoOn, jobVars
    <2> QED BY <1>1, <2>1, QueueStays
  <1> QED BY <1>2, <1>3, <1>4 DEF OnJobEnd

LEMMA QueueAtEnd ==
    ASSUME TypeOK, LoopAssumption, StackInv, QueueInv, NEW p \in processes, NEW code \in {0, 1},
           Terminate(p, code)
    PROVE  QueueInv'
  <1>1. /\ processes' = processes \ {p} /\ events' = Append(events, [slot |-> p.slot, code |-> code])
        /\ ~handling /\ UNCHANGED <<handling, stack, m_CommandQueue, building>>
    BY DEF Terminate, LoopAssumption, jobVars
  <1>2. Keeps("commands") BY <1>1 DEF Keeps
  <1>3. OneStageAtATime' BY <1>1 DEF QueueInv, OneStageAtATime
  <1>4. OneTarget(m_CommandQueue') /\ (Waits(m_CommandQueue) <=> Waits(m_CommandQueue'))
    BY <1>1 DEF QueueInv
  <1>5. ASSUME building # NoTarget, m_CommandQueue = <<>>
        PROVE  processes' = {} /\ Len(events') = 1
    <2>1. AtMostOne /\ events = <<>> BY <1>1, <1>5 DEF QueueInv
    <2>2. [slot |-> p.slot, code |-> code] \in [slot : 1..Slots, code : {0, 1}] BY DEF TypeOK
    <2>3. Len(events') = 1
      BY <1>1, <2>1, <2>2, AppendProperties, EmptySeq DEF TypeOK
    <2> QED BY <1>1, <2>1, <2>3 DEF AtMostOne
  <1>6. m_CommandQueue' # <<>> =>
           \A q \in processes' : /\ q.command.stage = "compile"
                                 /\ q.command.target = m_CommandQueue'[1].target
    BY <1>1 DEF QueueInv
  <1>7. building' # NoTarget => Waits(m_CommandQueue') BY <1>1 DEF QueueInv
  <1> QED BY <1>1, <1>2, <1>3, <1>4, <1>5, <1>6, <1>7, QueueFrames DEF QueueInv

LEMMA QueueStep ==
    ASSUME TypeOK, LoopAssumption, SlotInv, StackInv, QueueInv, CleanInv, AnswerInv, FailInv, Next,
           stack' \in Seq(Frames)
    PROVE  QueueInv'
  <1>1. CASE User \/ RebuildCleaned BY <1>1, UserStarts, QueueAtUser
  <1>2. CASE KillProcess
    <2>1. /\ m_CommandQueue' = <<>> /\ building' = NoTarget /\ UNCHANGED processes
          /\ UNCHANGED stack
      BY <1>2 DEF KillProcess, ResetBuildState, procVars
    <2>2. Keeps("commands") BY <2>1 DEF Keeps
    <2> QED BY <2>1, <2>2, QueueAtReset
  <1>3. CASE DoRunQueue BY <1>3, QueueAtQueueSteps
  <1>4. CASE OnJobEnd BY <1>4, QueueAtJobEnd
  <1>5. CASE BuildStateManagement BY <1>5, QueueAtManagement
  <1>6. CASE ProcessEnds BY <1>6, QueueAtEnd DEF ProcessEnds
  <1> QED BY <1>1, <1>2, <1>3, <1>4, <1>5, <1>6 DEF Next, Handle

-----------------------------------------------------------------------------
(* Cleaning.                                                                  *)
Quiet == m_CommandQueue = <<>> /\ processes = {} /\ events = <<>>
Rebuilds == \E k \in DOMAIN stack : stack[k].at = "rebuild"
Cleans == ~m_Build /\ building # NoTarget

LEMMA CleanFacts ==
    ASSUME CleanInv
    PROVE  /\ Cleans \/ Rebuilds => Quiet
           /\ Rebuilds /\ building # NoTarget => Cleans
           /\ Cleans => {m_BuildState, m_NextBuildState} \subseteq Clean0 /\ m_Clean
           /\ Cleans \/ Rebuilds =>
                  \A k \in DOMAIN stack : stack[k].at = "commands" => stack[k].commands = <<>>
  BY DEF CleanInv, Quiet, Rebuilds, Cleans, Clean0

LEMMA CleanKept ==
    ASSUME TypeOK, CleanInv, stack' \in Seq(Frames), Grounded, Keeps("rebuild"),
           UNCHANGED <<m_Clean, m_Build, m_LastBuildStep>>,
           m_Build \/ UNCHANGED built,
           building' # NoTarget => building # NoTarget,
           Cleans \/ Rebuilds => Quiet',
           building' # NoTarget /\ ~m_Build => {m_BuildState, m_NextBuildState}' \subseteq Clean0,
           ~m_Build \/ Rebuilds =>
               \A k \in DOMAIN stack' : stack'[k].at = "commands" => stack'[k].commands = <<>>
    PROVE  CleanInv'
  <1>1. Rebuilds' => Rebuilds BY DEF Rebuilds, Keeps
  <1>2. Cleans' => Cleans BY DEF Cleans
  <1>3. ~m_Build' => built' = <<>> BY DEF CleanInv
  <1>4. ~m_Build' /\ building' # NoTarget =>
           /\ m_Clean'
           /\ m_CommandQueue' = <<>> /\ processes' = {} /\ events' = <<>>
           /\ {m_BuildState', m_NextBuildState'} \subseteq
                  {"bsNone", "bsProjectPreBuild", "bsTargetClean", "bsTargetDone", "bsProjectDone"}
    BY <1>2, CleanFacts DEF Cleans, Quiet, Clean0
  <1>5. \A k \in DOMAIN stack' : stack'[k].at = "rebuild" =>
           /\ m_CommandQueue' = <<>> /\ processes' = {} /\ events' = <<>>
           /\ building' # NoTarget => ~m_Build'
           /\ \A l \in DOMAIN stack' : stack'[l].at = "commands" => stack'[l].commands = <<>>
    <2> SUFFICES ASSUME NEW k \in DOMAIN stack', stack'[k].at = "rebuild"
                 PROVE  /\ Quiet'
                        /\ building' # NoTarget => ~m_Build'
                        /\ \A l \in DOMAIN stack' : stack'[l].at = "commands" => stack'[l].commands = <<>>
      BY DEF Quiet
    <2>1. Rebuilds BY <1>1 DEF Rebuilds
    <2> QED BY <2>1, CleanFacts DEF Cleans
  <1>6. ~m_LastBuildStep' => stack' # <<>> /\ stack'[1].at = "rebuild" BY DEF CleanInv, Grounded
  <1>7. \A k \in DOMAIN stack' : stack'[k].at = "commands" /\ ~m_Build' => stack'[k].commands = <<>>
    OBVIOUS
  <1> QED BY <1>3, <1>4, <1>5, <1>6, <1>7 DEF CleanInv

LEMMA CommandsKept ==
    ASSUME CleanInv, Keeps("commands")
    PROVE  ~m_Build \/ Rebuilds =>
               \A k \in DOMAIN stack' : stack'[k].at = "commands" => stack'[k].commands = <<>>
  BY DEF CleanInv, Keeps, Rebuilds

LEMMA CleanAtUser ==
    ASSUME TypeOK, SlotInv, CleanInv, AnswerInv, CompileFile \/ Starting
    PROVE  CleanInv'
  <1>1. /\ Frame("run").at = "run" /\ Frame("yield").at = "yield" /\ Frame("rebuild").at = "rebuild"
    BY DEF Frame
  <1>2. CASE CompileFile
    <2>1. stack' = <<Frame("run")>> /\ stack = <<>> /\ ~IsRunning /\ UNCHANGED jobVars /\ built' = <<>>
      BY <1>2 DEF CompileFile, Ask
    <2>2. UNCHANGED modeVars BY <1>2 DEF CompileFile
    <2>3. building' = NoTarget BY <2>1 DEF IsRunning, jobVars, AnswerInv
    <2>4. m_LastBuildStep' BY <2>1, <2>2 DEF CleanInv, modeVars
    <2>5. \A k \in DOMAIN stack' : stack'[k].at = "run" BY <1>1, <2>1
    <2> QED BY <2>1, <2>3, <2>4, <2>5 DEF CleanInv
  <1>3. CASE Starting
    <2>1. /\ processes' = {} /\ events' = <<>> /\ m_CommandQueue' = <<>> /\ built' = <<>>
      BY <1>3 DEF Starting, Idle, Dead, NothingToDo, Begins, procVars
    <2>2. \A k \in DOMAIN stack' : stack'[k].at # "commands"
      <3>1. \/ stack' = <<>> \/ stack' = <<Frame("rebuild")>>
            \/ stack' = <<Frame("run"), Frame("yield")>>
            \/ stack' = <<Frame("rebuild"), Frame("run"), Frame("yield")>>
        BY <1>3, BuildFrames DEF Starting, NothingToDo, Begins
      <3> QED BY <1>1, <3>1
    <2>3. ASSUME NEW last \in BOOLEAN, NothingToDo(last) PROVE CleanInv'
      <3>1. building' = NoTarget BY <1>3, <2>3 DEF NothingToDo, Starting, Idle, Dead, jobVars
      <3>2. ~m_LastBuildStep' => stack' # <<>> /\ stack'[1].at = "rebuild"
        BY <1>1, <2>3 DEF NothingToDo
      <3> QED BY <2>1, <2>2, <3>1, <3>2 DEF CleanInv
    <2>4. ASSUME NEW list \in Seq(Targets), NEW clean \in BOOLEAN, NEW build \in BOOLEAN,
                 NEW last \in BOOLEAN, Begins(list, clean, build, last)
          PROVE  CleanInv'
      <3>1. /\ m_Clean' = clean /\ m_Build' = build /\ m_LastBuildStep' = last
            /\ m_BuildState' = "bsNone" /\ m_NextBuildState' = "bsProjectPreBuild"
            /\ (clean \/ build) /\ (last \/ ~build)
        BY <2>4 DEF Begins
      <3>2. CASE last
        <4>1. stack' = <<Frame("run"), Frame("yield")>> BY <2>4, <3>2, BuildFrames DEF Begins
        <4>2. \A k \in DOMAIN stack' : stack'[k].at # "rebuild" BY <1>1, <4>1
        <4> QED BY <2>1, <2>2, <3>1, <3>2, <4>2 DEF CleanInv
      <3>3. CASE ~last
        <4>1. stack' = <<Frame("rebuild"), Frame("run"), Frame("yield")>>
          BY <2>4, <3>3, BuildFrames DEF Begins
        <4>2. stack' # <<>> /\ stack'[1].at = "rebuild" BY <1>1, <4>1
        <4> QED BY <2>1, <2>2, <3>1, <3>3, <4>2 DEF CleanInv
      <3> QED BY <3>2, <3>3
    <2> QED BY <1>3, <2>3, <2>4 DEF Starting
  <1> QED BY <1>2, <1>3

LEMMA SmallSteps ==
    ASSUME DoRunQueue \/ OnJobEnd \/ KillProcess \/ ProcessEnds
    PROVE  /\ UNCHANGED <<modeVars, asked, due, built>>
           /\ UNCHANGED jobVars \/ ResetBuildState
           /\ Quiet => Quiet'
  <1>1. ASSUME NEW i, StartCommand(i) \/ RefuseCommand
        PROVE  /\ UNCHANGED <<modeVars, asked, due, built>>
               /\ UNCHANGED jobVars \/ ResetBuildState
               /\ ~Quiet
    BY <1>1 DEF StartCommand, RefuseCommand, ghostVars, Quiet
  <1>2. CASE DoRunQueue
    <2>1. CASE QueueWaits \/ QueueEmpty \/ Manage("queueLoop", "queueTest") \/ GoOn("queueTest", "queueLoop")
      BY <2>1 DEF QueueWaits, QueueEmpty, Manage, GoOn, ghostVars, Quiet, procVars
    <2>2. CASE RunCommand \/ QueueFound BY <1>1, <2>2 DEF RunCommand, QueueFound
    <2>3. CASE QueueEnds BY <2>3 DEF QueueEnds, ghostVars, Quiet, procVars, ResetBuildState
    <2> QED BY <1>2, <2>1, <2>2, <2>3 DEF DoRunQueue
  <1>3. CASE OnJobEnd
    <2>1. CASE Manage("endLoop", "endTest") \/ EndFound \/ GoOn("endTest", "endLoop")
      BY <2>1 DEF Manage, EndFound, GoOn, ghostVars, Quiet, procVars
    <2>2. CASE JobSucceeds BY <2>2 DEF JobSucceeds, TakeEvent, ghostVars, Quiet
    <2>3. CASE JobFails BY <2>3 DEF JobFails, TakeEvent, ghostVars, Quiet
    <2>4. CASE EndJobs BY <2>4 DEF EndJobs, ghostVars, Quiet, procVars, ResetBuildState
    <2> QED BY <1>3, <2>1, <2>2, <2>3, <2>4 DEF OnJobEnd
  <1>4. CASE KillProcess BY <1>4 DEF KillProcess, Quiet, procVars, ResetBuildState
  <1>5. CASE ProcessEnds BY <1>5 DEF ProcessEnds, Terminate, ghostVars, Quiet
  <1> QED BY <1>2, <1>3, <1>4, <1>5

LEMMA CleanAtSmallSteps ==
    ASSUME TypeOK, LoopAssumption, SlotInv, StackInv, CleanInv, stack' \in Seq(Frames),
           DoRunQueue \/ OnJobEnd \/ KillProcess \/ ProcessEnds
    PROVE  CleanInv'
  <1>1. Keeps("rebuild") /\ Keeps("commands") /\ Grounded BY FramesKept
  <1>2. /\ UNCHANGED <<modeVars, asked, due, built>>
        /\ UNCHANGED jobVars \/ ResetBuildState
        /\ Quiet => Quiet'
    BY SmallSteps
  <1>3. building' # NoTarget => UNCHANGED jobVars BY <1>2 DEF ResetBuildState
  <1>4. building' # NoTarget => building # NoTarget BY <1>3 DEF jobVars
  <1>5. building' # NoTarget /\ ~m_Build => {m_BuildState, m_NextBuildState}' \subseteq Clean0
    BY <1>3, CleanFacts DEF jobVars, Cleans
  <1>6. Cleans \/ Rebuilds => Quiet' BY <1>2, CleanFacts
  <1>7. ~m_Build \/ Rebuilds =>
            \A k \in DOMAIN stack' : stack'[k].at = "commands" => stack'[k].commands = <<>>
    BY <1>1, CommandsKept
  <1>8. UNCHANGED <<m_Clean, m_Build, m_LastBuildStep>> /\ UNCHANGED built BY <1>2 DEF modeVars
  <1> QED BY <1>1, <1>4, <1>5, <1>6, <1>7, <1>8, CleanKept

LEMMA NextCleanState ==
    ASSUME m_BuildState \in Clean0, m_Clean, ~m_Build
    PROVE  GetNextStateBasedOnJob \in Clean0 /\ FirstTargetState \in Clean0
  BY DEF GetNextStateBasedOnJob, FirstTargetState, Clean0

LEMMA CleanAtManagement ==
    ASSUME TypeOK, LoopAssumption, SlotInv, StackInv, CleanInv, AnswerInv, stack' \in Seq(Frames),
           BuildStateManagement
    PROVE  CleanInv'
  <1>1. /\ Keeps("rebuild") /\ Grounded
        /\ ~EnterState => Keeps("commands")
    BY FramesKept
  <1>2. /\ UNCHANGED <<m_Clean, m_Build, m_LastBuildStep>> /\ UNCHANGED procVars
    BY DEF BuildStateManagement, ManageNothing, EnterState, LeaveState, StartNextProject,
           NextProjectStarted, Managed, modeVars
  <1>3. m_CommandQueue' = <<>> => (Quiet => Quiet') BY <1>2 DEF Quiet, procVars
  <1>4. ~EnterState => (~m_Build \/ Rebuilds =>
            \A k \in DOMAIN stack' : stack'[k].at = "commands" => stack'[k].commands = <<>>)
    BY <1>1, CommandsKept
  <1>5. CASE ManageNothing
    <2>1. /\ m_CommandQueue' = <<>> /\ building' = NoTarget /\ UNCHANGED built
          /\ ~EnterState
      BY <1>5 DEF ManageNothing, ResetBuildState, ghostVars, EnterState
    <2>2. Cleans \/ Rebuilds => Quiet' BY <1>3, <2>1, CleanFacts
    <2> QED BY <1>1, <1>2, <1>4, <2>1, <2>2, CleanKept
  <1>6. CASE EnterState
    <2>1. /\ building # NoTarget /\ UNCHANGED <<building, m_CommandQueue, m_NextBuildState>>
          /\ m_BuildState' = m_NextBuildState
          /\ built' = IF m_NextBuildState = "bsTargetBuild" THEN Append(built, building) ELSE built
      BY <1>6 DEF EnterState
    <2>2. ~m_Build \/ Rebuilds => Cleans BY <2>1, CleanFacts DEF Cleans
    <2>3. Cleans \/ Rebuilds => Quiet' BY <1>2, <2>1, CleanFacts DEF Quiet, procVars
    <2>4. m_Build \/ UNCHANGED built BY <2>1, <2>2, CleanFacts DEF Clean0
    <2>5. ~m_Build => {m_BuildState, m_NextBuildState}' \subseteq Clean0 BY <2>1, <2>2, CleanFacts
    <2>6. ~m_Build \/ Rebuilds =>
              \A k \in DOMAIN stack' : stack'[k].at = "commands" => stack'[k].commands = <<>>
      <3> SUFFICES ASSUME Cleans PROVE \A k \in DOMAIN stack' : stack'[k].at = "commands" =>
                                                                  stack'[k].commands = <<>>
        BY <2>2
      <3>1. PICK commands :
                /\ Puts(Entering(commands)) /\ Entering(commands).commands = commands
                /\ ~m_Build /\ m_NextBuildState \in Clean0 => commands = <<>>
        BY <1>6, EnterChanges
      <3>2. commands = <<>> BY <3>1, CleanFacts DEF Cleans
      <3>3. /\ Len(stack) \in Nat /\ DOMAIN stack = 1..Len(stack)
            /\ DOMAIN stack' = 1..Len(stack') /\ Len(stack') \in Nat
        BY TopFacts, NewTop
      <3>4. \A k \in DOMAIN stack' : k \in 1..(Len(stack) - 1) \/ k = Len(stack)
        BY <3>1, <3>3 DEF Puts
      <3>5. stack'[Len(stack)].commands = <<>> BY <3>1, <3>2 DEF Puts
      <3>6. \A k \in 1..(Len(stack) - 1) : stack'[k] = stack[k] /\ k \in DOMAIN stack
        BY <3>1, <3>3 DEF Puts
      <3> QED BY <3>4, <3>5, <3>6, CleanFacts
    <2> QED BY <1>1, <1>2, <2>1, <2>3, <2>4, <2>5, <2>6, CleanKept
  <1>7. CASE LeaveState
    <2>1. /\ At("commands") /\ ~EnterState /\ UNCHANGED built /\ UNCHANGED m_BuildState
          /\ m_NextBuildState' = GetNextStateBasedOnJob
          /\ m_CommandQueue' = m_CommandQueue \o Last(stack).commands
          /\ ~NextTarget => UNCHANGED building
      BY <1>7 DEF LeaveState, EnterState, At, ghostVars, AddToCommandQueue
    <2>2. building' # NoTarget => building # NoTarget BY <2>1 DEF AnswerInv, NextTarget
    <2>3. Cleans \/ Rebuilds => Quiet'
      <3> SUFFICES ASSUME Cleans \/ Rebuilds PROVE Quiet'
        OBVIOUS
      <3>1. Len(stack) \in DOMAIN stack /\ Last(stack) = stack[Len(stack)] /\ Last(stack).at = "commands"
        BY <2>1, TopFacts DEF At
      <3>2. Last(stack).commands = <<>> /\ m_CommandQueue = <<>> /\ Quiet
        BY <3>1, CleanFacts DEF Quiet
      <3>3. m_CommandQueue' = <<>> BY <2>1, <3>2, ConcatEmptySeq DEF TypeOK
      <3> QED BY <1>3, <3>2, <3>3
    <2>4. building' # NoTarget /\ ~m_Build => {m_BuildState, m_NextBuildState}' \subseteq Clean0
      BY <2>1, <2>2, CleanFacts, NextCleanState DEF Cleans
    <2> QED BY <1>1, <1>2, <1>4, <2>1, <2>2, <2>3, <2>4, CleanKept
  <1>8. CASE StartNextProject
    <2>1. /\ At("commands") /\ ~EnterState /\ UNCHANGED <<built, m_BuildState, m_CommandQueue>>
          /\ m_NextBuildState' = "bsProjectPreBuild" /\ m_BuildState = "bsProjectDone"
      BY <1>8 DEF StartNextProject, NextProject, EnterState, At, ghostVars
    <2>2. building # NoTarget BY <2>1 DEF AnswerInv
    <2>3. Cleans \/ Rebuilds => Quiet' BY <1>2, <2>1, CleanFacts DEF Quiet, procVars
    <2>4. {m_BuildState, m_NextBuildState}' \subseteq Clean0 BY <2>1 DEF Clean0
    <2> QED BY <1>1, <1>2, <1>4, <2>1, <2>2, <2>3, <2>4, CleanKept
  <1>9. CASE NextProjectStarted
    <2>1. /\ At("projectDone") /\ ~EnterState /\ UNCHANGED <<built, m_BuildState, m_CommandQueue, building>>
          /\ m_NextBuildState' = FirstTargetState
      BY <1>9 DEF NextProjectStarted, EnterState, At, ghostVars
    <2>2. Cleans \/ Rebuilds => Quiet' BY <1>2, <2>1, CleanFacts DEF Quiet, procVars
    <2>3. building' # NoTarget /\ ~m_Build => {m_BuildState, m_NextBuildState}' \subseteq Clean0
      BY <2>1, CleanFacts, NextCleanState DEF Cleans
    <2> QED BY <1>1, <1>2, <1>4, <2>1, <2>2, <2>3, CleanKept
  <1>10. CASE Managed
    <2>1. /\ ~EnterState /\ UNCHANGED jobVars /\ UNCHANGED <<built, m_CommandQueue>>
      BY <1>10 DEF Managed, EnterState, At, ghostVars
    <2>2. Cleans \/ Rebuilds => Quiet' BY <1>2, <2>1, CleanFacts DEF Quiet, procVars
    <2>3. building' # NoTarget /\ ~m_Build => {m_BuildState, m_NextBuildState}' \subseteq Clean0
      BY <2>1, CleanFacts DEF Cleans, jobVars
    <2>4. UNCHANGED building BY <2>1 DEF jobVars
    <2> QED BY <1>1, <1>2, <1>4, <2>1, <2>2, <2>3, <2>4, CleanKept
  <1> QED BY <1>5, <1>6, <1>7, <1>8, <1>9, <1>10 DEF BuildStateManagement

LEMMA CleanStep ==
    ASSUME TypeOK, LoopAssumption, SlotInv, StackInv, CleanInv, AnswerInv, FailInv, Next,
           stack' \in Seq(Frames)
    PROVE  CleanInv'
  <1>1. CASE User \/ RebuildCleaned BY <1>1, UserStarts, CleanAtUser
  <1>2. CASE DoRunQueue \/ OnJobEnd \/ KillProcess \/ ProcessEnds BY <1>2, CleanAtSmallSteps
  <1>3. CASE BuildStateManagement BY <1>3, CleanAtManagement
  <1> QED BY <1>1, <1>2, <1>3 DEF Next, Handle

-----------------------------------------------------------------------------
(* The innermost call after each step.                                        *)
LEMMA ChangedTop ==
    ASSUME TypeOK, stack' \in Seq(Frames)
    PROVE  /\ \A f : stack # <<>> /\ Puts(f) => stack' # <<>> /\ Top' = f.at
           /\ \A f : Pushes(f) => stack' # <<>> /\ Top' = f.at
           /\ \A f : stack # <<>> /\ PutsAndPushes(f, Frame("yield")) => stack' # <<>> /\ Top' = "yield"
           /\ stack # <<>> /\ Pops => /\ stack' # <<>> <=> Len(stack) > 1
                                      /\ stack' # <<>> => Top' = stack[Len(stack) - 1].at
  <1>1. /\ Len(stack) \in Nat /\ (stack # <<>> <=> Len(stack) > 0)
        /\ Len(stack') \in Nat /\ (stack' # <<>> <=> Len(stack') > 0)
        /\ stack' # <<>> => Top' = stack'[Len(stack')].at
    BY TopFacts, NewTop
  <1>2. \A f : stack # <<>> /\ Puts(f) => stack' # <<>> /\ Top' = f.at
    <2> SUFFICES ASSUME NEW f, stack # <<>>, Puts(f) PROVE stack' # <<>> /\ Top' = f.at
      OBVIOUS
    <2> QED BY <1>1 DEF Puts
  <1>3. \A f : Pushes(f) => stack' # <<>> /\ Top' = f.at
    <2> SUFFICES ASSUME NEW f, Pushes(f) PROVE stack' # <<>> /\ Top' = f.at
      OBVIOUS
    <2> QED BY <1>1 DEF Pushes
  <1>4. \A f : stack # <<>> /\ PutsAndPushes(f, Frame("yield")) => stack' # <<>> /\ Top' = "yield"
    <2> SUFFICES ASSUME NEW f, stack # <<>>, PutsAndPushes(f, Frame("yield"))
                 PROVE  stack' # <<>> /\ Top' = "yield"
      OBVIOUS
    <2> QED BY <1>1 DEF PutsAndPushes, Frame
  <1>5. stack # <<>> /\ Pops => /\ stack' # <<>> <=> Len(stack) > 1
                                /\ stack' # <<>> => Top' = stack[Len(stack) - 1].at
    <2> SUFFICES ASSUME stack # <<>>, Pops
                 PROVE  /\ stack' # <<>> <=> Len(stack) > 1
                        /\ stack' # <<>> => Top' = stack[Len(stack) - 1].at
      OBVIOUS
    <2> QED BY <1>1 DEF Pops
  <1> QED BY <1>2, <1>3, <1>4, <1>5

LEMMA TopAfter ==
    ASSUME TypeOK, LoopAssumption, SlotInv, StackInv, stack' \in Seq(Frames)
    PROVE  /\ RunCommand \/ QueueFound \/ EndFound => stack' # <<>> /\ Top' = "run"
           /\ QueueEmpty \/ GoOn("queueTest", "queueLoop") => stack' # <<>> /\ Top' = "queueLoop"
           /\ GoOn("endTest", "endLoop") => stack' # <<>> /\ Top' = "endLoop"
           /\ JobSucceeds => stack' # <<>> /\ Top' \in {"run", "endLoop"}
           /\ Manage("queueLoop", "queueTest") \/ Manage("endLoop", "endTest") \/ StartNextProject =>
                  stack' # <<>> /\ Top' = "yield"
           /\ EnterState => stack' # <<>> /\ Top' = "commands"
           /\ LeaveState \/ NextProjectStarted => stack' # <<>> /\ Top' = "last"
           /\ QueueWaits \/ QueueEnds \/ EndJobs \/ ManageNothing \/ Managed =>
                  /\ stack' # <<>> <=> Len(stack) > 1
                  /\ stack' # <<>> => Top' = stack[Len(stack) - 1].at
  <1>1. stack # <<>> => \A label \in Labels : Jumped(label).at = label BY FrameType
  <1>2. {"run", "queueLoop", "queueTest", "endLoop", "endTest", "projectDone", "last"} \subseteq Labels
    BY DEF Labels, Yields
  <1>3. ASSUME RunCommand \/ QueueFound \/ EndFound PROVE stack' # <<>> /\ Top' = "run"
    BY <1>1, <1>2, <1>3, StepsThatRun, ChangedTop
  <1>4. ASSUME QueueEmpty PROVE stack' # <<>> /\ Top' = "queueLoop"
    <2> DEFINE f == [Frame("queueLoop") EXCEPT !.slot = GetNextAvailableProcessIndex]
    <2>1. stack # <<>> /\ stack' = Append(Below, f) /\ Available # {} BY <1>4 DEF QueueEmpty, At
    <2>2. GetNextAvailableProcessIndex \in 0..Slots BY <2>1, SlotIsAvailable, BuildAssumption
    <2>3. Frame("queueLoop") \in Frames /\ Frame("queueLoop").at = "queueLoop" BY <1>2, FrameType
    <2>4. f \in Frames /\ f.at = "queueLoop" BY <2>2, <2>3 DEF Frames
    <2> HIDE DEF f
    <2>5. Puts(f) BY <2>1, <2>4, PutChanges DEF TypeOK
    <2> QED BY <2>1, <2>4, <2>5, ChangedTop
  <1>5. ASSUME GoOn("queueTest", "queueLoop") PROVE stack' # <<>> /\ Top' = "queueLoop"
    BY <1>1, <1>2, <1>5, StepsThatJump, ChangedTop
  <1>6. ASSUME GoOn("endTest", "endLoop") PROVE stack' # <<>> /\ Top' = "endLoop"
    BY <1>1, <1>2, <1>6, StepsThatJump, ChangedTop
  <1>7. ASSUME JobSucceeds PROVE stack' # <<>> /\ Top' \in {"run", "endLoop"}
    <2> DEFINE f == Frame(IF m_CommandQueue # <<>> \/ StillRunning THEN "run" ELSE "endLoop")
    <2>1. stack' = Append(stack, f) BY <1>7 DEF JobSucceeds
    <2>2. f \in Frames /\ f.at \in {"run", "endLoop"}
      <3>1. \A label \in {"run", "endLoop"} : Frame(label) \in Frames /\ Frame(label).at = label
        BY FrameType DEF Labels
      <3> QED BY <3>1
    <2> HIDE DEF f
    <2>3. Pushes(f) BY <2>1, <2>2, PushChanges DEF TypeOK
    <2> QED BY <2>2, <2>3, ChangedTop
  <1>8. ASSUME Manage("queueLoop", "queueTest") \/ Manage("endLoop", "endTest") \/ StartNextProject
        PROVE  stack' # <<>> /\ Top' = "yield"
    <2>1. ~IsProcessRunning BY <1>8, NotResting, NoProcessRuns DEF Manage, StartNextProject
    <2> QED BY <1>8, <2>1, StepsThatYield, ChangedTop
  <1>9. ASSUME EnterState PROVE stack' # <<>> /\ Top' = "commands"
    <2>1. PICK commands : Puts(Entering(commands)) /\ Entering(commands).at = "commands"
      BY <1>9, EnterChanges
    <2>2. stack # <<>> BY <1>9, EnterChanges
    <2> DEFINE f == Entering(commands)
    <2>3. Puts(f) /\ f.at = "commands" BY <2>1
    <2> HIDE DEF f
    <2> QED BY <2>2, <2>3, ChangedTop
  <1>10. ASSUME LeaveState \/ NextProjectStarted PROVE stack' # <<>> /\ Top' = "last"
    BY <1>1, <1>2, <1>10, StepsThatJump, ChangedTop
  <1>11. ASSUME QueueWaits \/ QueueEnds \/ EndJobs \/ ManageNothing \/ Managed
         PROVE  /\ stack' # <<>> <=> Len(stack) > 1
                /\ stack' # <<>> => Top' = stack[Len(stack) - 1].at
    BY <1>11, StepsThatPop, ChangedTop
  <1> QED BY <1>3, <1>4, <1>5, <1>6, <1>7, <1>8, <1>9, <1>10, <1>11

-----------------------------------------------------------------------------
(* Answers.                                                                   *)
LEMMA AnswerKept ==
    ASSUME TypeOK, AnswerInv, UNCHANGED requests, finished' \in {finished, finished + 1},
           \/ UNCHANGED <<m_BuildJob, building, m_BuildState>>
           \/ ResetBuildState
           \/ building # NoTarget /\ building' # NoTarget /\ UNCHANGED m_BuildJob,
           AtRest' => requests <= finished' /\ Dead',
           stack' # <<>> /\ Top' = "rebuild" => building' = NoTarget
    PROVE  AnswerInv'
  <1>1. requests' <= finished' + 1
    <2>1. requests \in Int /\ finished \in Int /\ requests <= finished + 1
      BY BuildAssumption DEF AnswerInv, TypeOK
    <2>2. CASE finished' = finished BY <2>1, <2>2
    <2>3. CASE finished' = finished + 1 BY <2>1, <2>3
    <2> QED BY <2>2, <2>3
  <1>2. /\ m_BuildJob' = "bjIdle" <=> building' = NoTarget
        /\ building' = NoTarget => m_BuildState' = "bsNone"
    BY DEF AnswerInv, ResetBuildState
  <1> QED BY <1>1, <1>2 DEF AnswerInv

LEMMA AnswerAtUser ==
    ASSUME TypeOK, SlotInv, CleanInv, AnswerInv, CompileFile \/ Starting, TypeOK'
    PROVE  AnswerInv'
  <1>1. CASE CompileFile
    <2>1. /\ stack = <<>> /\ events = <<>> /\ ~IsRunning /\ UNCHANGED jobVars
          /\ requests' = requests + 1 /\ UNCHANGED finished /\ stack' = <<Frame("run")>>
      BY <1>1 DEF CompileFile, Ask, exitVars
    <2>2. processes = {} BY <2>1, NoProcessRuns DEF IsRunning
    <2>3. requests' <= finished' + 1 BY <2>1, <2>2 DEF AnswerInv, AtRest, TypeOK
    <2>4. stack' # <<>> /\ Top' = "run" BY <2>1 DEF Top, Last, Frame
    <2> QED BY <2>1, <2>3, <2>4 DEF AnswerInv, AtRest, jobVars
  <1>2. ASSUME Starting, NEW last \in BOOLEAN, NothingToDo(last) PROVE AnswerInv'
    <2>1. /\ Dead /\ m_BuildJob = "bjIdle" /\ m_BuildState = "bsNone" /\ requests' <= finished + 1
          /\ UNCHANGED jobVars /\ UNCHANGED m_CommandQueue
          /\ stack' = IF last THEN <<>> ELSE <<Frame("rebuild")>>
          /\ finished' = IF last THEN finished + 1 ELSE finished
      BY <1>2 DEF Starting, NothingToDo, Idle
    <2>2. Dead' BY <2>1 DEF Dead, jobVars
    <2>3. requests' \in Nat /\ finished \in Nat BY DEF TypeOK
    <2>4. requests' <= finished' + 1 /\ (AtRest' => requests' <= finished')
      BY <2>1, <2>3 DEF AtRest
    <2> QED BY <2>1, <2>2, <2>4 DEF AnswerInv, Dead, jobVars
  <1>3. ASSUME Starting, NEW list \in Seq(Targets), NEW clean \in BOOLEAN, NEW build \in BOOLEAN,
               NEW last \in BOOLEAN, Begins(list, clean, build, last)
        PROVE  AnswerInv'
    <2>1. /\ requests' <= finished + 1 /\ finished' = finished
          /\ m_BuildJob' # "bjIdle" /\ m_BuildState' = "bsNone"
          /\ list # <<>> /\ building' = Head(list)
      BY <1>3 DEF Starting, Begins
    <2>2. building' # NoTarget
      <3>1. building' \in Targets BY <2>1, HeadTailProperties
      <3> QED BY <3>1, BuildAssumption
    <2>3. stack' # <<>> /\ Top' = "yield"
      <3>1. \/ stack' = <<Frame("run"), Frame("yield")>>
            \/ stack' = <<Frame("rebuild"), Frame("run"), Frame("yield")>>
        BY <1>3, BuildFrames DEF Begins
      <3>2. Frame("yield").at = "yield" BY DEF Frame
      <3> DEFINE x == Frame("rebuild")
                 y == Frame("run")
                 z == Frame("yield")
      <3>3. stack' # <<>> /\ stack'[Len(stack')].at = "yield"
        <4>1. z.at = "yield" /\ (stack' = <<y, z>> \/ stack' = <<x, y, z>>) BY <3>1, <3>2
        <4> HIDE DEF x, y, z
        <4>2. CASE stack' = <<y, z>> BY <4>1, <4>2
        <4>3. CASE stack' = <<x, y, z>> BY <4>1, <4>3
        <4> QED BY <4>1, <4>2, <4>3
      <3>4. stack' \in Seq(Frames) BY DEF TypeOK
      <3> QED BY <3>3, <3>4, NewTop
    <2> QED BY <2>1, <2>2, <2>3 DEF AnswerInv, AtRest
  <1> QED BY <1>1, <1>2, <1>3 DEF Starting

LEMMA Finishes ==
    ASSUME TypeOK, NEW code, NEW running, NotifyJobDone(code, running)
    PROVE  /\ finished' \in {finished, finished + 1}
           /\ m_LastBuildStep /\ ~running => finished' = finished + 1
  BY DEF NotifyJobDone

LEMMA WaitsForSomething ==
    ASSUME TypeOK, SlotInv, QueueWaits
    PROVE  processes # {} \/ events # <<>>
  <1> SUFFICES ASSUME processes = {}, events = <<>> PROVE FALSE
    OBVIOUS
  <1>1. ~IsProcessRunning BY NoProcessRuns
  <1>2. Available = {} BY <1>1 DEF QueueWaits, CommandMustWait
  <1>3. \A i \in 1..Slots : ~pProcess[i] /\ ~PID[i] BY DEF SlotInv, ProcessIn, EventOf
  <1>4. 1 \in 1..Slots BY BuildAssumption
  <1> QED BY <1>2, <1>3, <1>4 DEF Available

LEMMA RebuildBelow ==
    ASSUME TypeOK, CleanInv, stack # <<>>, Top # "rebuild", ~m_LastBuildStep
    PROVE  Len(stack) > 1
  BY TopFacts DEF CleanInv

LEMMA AnswerAtSmallSteps ==
    ASSUME TypeOK, LoopAssumption, SlotInv, StackInv, CleanInv, AnswerInv, stack' \in Seq(Frames),
           DoRunQueue \/ OnJobEnd \/ KillProcess \/ ProcessEnds
    PROVE  AnswerInv'
  <1>0. requests \in Nat /\ finished \in Nat /\ requests <= finished + 1 BY DEF TypeOK, AnswerInv
  <1>1. ASSUME UNCHANGED <<m_BuildJob, building, m_BuildState>> \/ ResetBuildState,
               UNCHANGED <<requests, finished>>,
               stack' # <<>>, Top' # "rebuild"
        PROVE  AnswerInv'
    BY <1>1, AnswerKept DEF AtRest
  <1>2. CASE RunCommand \/ QueueFound
    <2>1. stack' # <<>> /\ Top' = "run" BY <1>2, TopAfter
    <2>2. /\ UNCHANGED <<m_BuildJob, building, m_BuildState>> \/ ResetBuildState
          /\ UNCHANGED <<requests, finished>>
      BY <1>2 DEF RunCommand, QueueFound, StartCommand, RefuseCommand, jobVars, boundVars, exitVars
    <2> QED BY <1>1, <2>1, <2>2
  <1>3. CASE \/ QueueEmpty \/ Manage("queueLoop", "queueTest") \/ GoOn("queueTest", "queueLoop")
             \/ Manage("endLoop", "endTest") \/ EndFound \/ GoOn("endTest", "endLoop")
    <2>1. stack' # <<>> /\ Top' # "rebuild" BY <1>3, TopAfter
    <2>2. UNCHANGED <<m_BuildJob, building, m_BuildState>> /\ UNCHANGED <<requests, finished>>
      BY <1>3 DEF QueueEmpty, Manage, GoOn, EndFound, jobVars, boundVars, exitVars
    <2> QED BY <1>1, <2>1, <2>2
  <1>4. CASE JobSucceeds
    <2>1. stack' # <<>> /\ Top' \in {"run", "endLoop"} BY <1>4, TopAfter
    <2>2. UNCHANGED <<m_BuildJob, building, m_BuildState>> /\ UNCHANGED <<requests, finished>>
      BY <1>4 DEF JobSucceeds, jobVars, boundVars
    <2> QED BY <1>1, <2>1, <2>2
  <1>5. CASE QueueWaits
    <2>1. processes # {} \/ events # <<>> BY <1>5, WaitsForSomething
    <2>2. /\ UNCHANGED <<m_BuildJob, building, m_BuildState>> /\ UNCHANGED <<requests, finished>>
          /\ UNCHANGED procVars
      BY <1>5 DEF QueueWaits, jobVars, boundVars, exitVars
    <2>3. ~AtRest' BY <2>1, <2>2 DEF AtRest, procVars
    <2>4. stack' # <<>> => Top' # "rebuild"
      <3> SUFFICES ASSUME stack' # <<>>, Top' = "rebuild" PROVE FALSE
        OBVIOUS
      <3>1. Len(stack) > 1 /\ stack[Len(stack) - 1].at = "rebuild" BY <1>5, TopAfter
      <3>2. Len(stack) - 1 \in DOMAIN stack BY <3>1, TopFacts
      <3> QED BY <2>1, <3>1, <3>2 DEF CleanInv
    <2> QED BY <2>2, <2>3, <2>4, AnswerKept
  <1>6. CASE QueueEnds \/ EndJobs
    <2>1. /\ ResetBuildState /\ NotifyJobDone(m_LastExitCode, IsProcessRunning) /\ UNCHANGED requests
          /\ \E label \in {"queueTest", "endTest"} : At(label)
      BY <1>6 DEF QueueEnds, EndJobs, boundVars
    <2>2. ~IsProcessRunning /\ stack # <<>> /\ Top # "rebuild"
      BY <2>1, NotResting, NoProcessRuns DEF At, Top
    <2>3. /\ finished' \in {finished, finished + 1}
          /\ m_LastBuildStep => finished' = finished + 1
      BY <2>1, <2>2, Finishes
    <2>4. ~m_LastBuildStep => stack' # <<>> BY <1>6, <2>2, RebuildBelow, TopAfter
    <2>5. AtRest' => requests <= finished' BY <1>0, <2>3, <2>4 DEF AtRest
    <2>6. building' = NoTarget /\ Dead' BY <2>1 DEF ResetBuildState, Dead
    <2> QED BY <2>1, <2>3, <2>5, <2>6, AnswerKept
  <1>7. CASE JobFails
    <2>1. /\ ResetBuildState /\ NotifyJobDone(1, StillRunning) /\ UNCHANGED <<requests, processes, stack>>
      BY <1>7 DEF JobFails, TakeEvent, boundVars
    <2>2. AtRest' => ~StillRunning /\ m_LastBuildStep
      <3> SUFFICES ASSUME AtRest' PROVE ~StillRunning /\ m_LastBuildStep
        OBVIOUS
      <3>1. processes = {} /\ stack = <<>> BY <2>1 DEF AtRest
      <3>2. ~IsProcessRunning BY <3>1, NoProcessRuns
      <3> QED BY <3>1, <3>2 DEF IsProcessRunning, StillRunning, CleanInv
    <2>3. /\ finished' \in {finished, finished + 1}
          /\ m_LastBuildStep /\ ~StillRunning => finished' = finished + 1
      BY <2>1, Finishes
    <2>4. AtRest' => requests <= finished' BY <1>0, <2>2, <2>3
    <2>5. building' = NoTarget /\ Dead' BY <2>1 DEF ResetBuildState, Dead
    <2> QED BY <2>1, <2>3, <2>4, <2>5, AnswerKept
  <1>8. CASE KillProcess
    <2>1. ResetBuildState /\ UNCHANGED <<requests, finished, stack, events, processes>>
      BY <1>8 DEF KillProcess, procVars, exitVars
    <2>2. building' = NoTarget /\ Dead' BY <2>1 DEF ResetBuildState, Dead
    <2>3. AtRest' => requests <= finished' BY <2>1 DEF AtRest, AnswerInv
    <2> QED BY <2>1, <2>2, <2>3, AnswerKept
  <1>9. CASE ProcessEnds
    <2>1. PICK p \in processes, code \in {0, 1} : Terminate(p, code) BY <1>9 DEF ProcessEnds
    <2>2. /\ stack' = <<>> /\ UNCHANGED <<m_BuildJob, building, m_BuildState>>
          /\ UNCHANGED <<requests, finished>>
          /\ events' = Append(events, [slot |-> p.slot, code |-> code])
      BY <2>1, EndsAtRest DEF Terminate, jobVars, boundVars, exitVars
    <2>3. events' # <<>>
      <3>1. [slot |-> p.slot, code |-> code] \in [slot : 1..Slots, code : {0, 1}] BY DEF TypeOK
      <3>2. Len(events') = Len(events) + 1 /\ Len(events) \in Nat
        BY <2>2, <3>1, AppendProperties DEF TypeOK
      <3> QED BY <3>2
    <2>4. ~AtRest' BY <2>3 DEF AtRest
    <2> QED BY <2>2, <2>4, AnswerKept
  <1> QED BY <1>2, <1>3, <1>4, <1>5, <1>6, <1>7, <1>8, <1>9 DEF DoRunQueue, OnJobEnd

LEMMA AnswerAtManagement ==
    ASSUME TypeOK, LoopAssumption, SlotInv, StackInv, CleanInv, AnswerInv, stack' \in Seq(Frames),
           BuildStateManagement
    PROVE  AnswerInv'
  <1>1. UNCHANGED <<requests, finished>>
    BY DEF BuildStateManagement, ManageNothing, EnterState, LeaveState, StartNextProject,
           NextProjectStarted, Managed, boundVars, exitVars
  <1>2. ASSUME \/ UNCHANGED <<m_BuildJob, building, m_BuildState>>
               \/ ResetBuildState
               \/ building # NoTarget /\ building' # NoTarget /\ UNCHANGED m_BuildJob,
               stack' # <<>>, Top' # "rebuild" \/ building' = NoTarget
        PROVE  AnswerInv'
    BY <1>1, <1>2, AnswerKept DEF AtRest
  <1>3. ASSUME NEW label \in {"yield", "last"}, At(label)
        PROVE  /\ Len(stack) > 1
               /\ stack[Len(stack) - 1].at \in {"run", "queueTest", "endTest", "projectDone"}
    <2>1. Len(stack) \in DOMAIN stack /\ stack[Len(stack)].at = label
      BY <1>3, TopFacts
    <2>2. PlaceAt(Len(stack)) BY <2>1 DEF StackInv
    <2> QED BY <2>1, <2>2 DEF PlaceAt, Yields
  <1>4. CASE ManageNothing
    <2>1. At("yield") /\ ResetBuildState BY <1>4 DEF ManageNothing
    <2>2. stack' # <<>> BY <1>3, <1>4, <2>1, TopAfter
    <2>3. building' = NoTarget BY <2>1 DEF ResetBuildState
    <2> QED BY <1>2, <2>1, <2>2, <2>3
  <1>5. CASE EnterState
    <2>1. building # NoTarget /\ building' = building /\ UNCHANGED m_BuildJob BY <1>5 DEF EnterState
    <2>2. stack' # <<>> /\ Top' = "commands" BY <1>5, TopAfter
    <2> QED BY <1>2, <2>1, <2>2
  <1>6. ASSUME GetNextJob, m_BuildJobTargetsList # <<>> PROVE building' # NoTarget
    <2>1. building' \in Targets BY <1>6, HeadTailProperties DEF GetNextJob, TypeOK
    <2> QED BY <2>1, BuildAssumption
  <1>7. CASE LeaveState
    <2>1. stack' # <<>> /\ Top' = "last" BY <1>7, TopAfter
    <2>2. UNCHANGED <<m_BuildJob, m_BuildState>> BY <1>7 DEF LeaveState
    <2>3. CASE NextTarget
      <3>1. GetNextJob /\ m_BuildJobTargetsList # <<>> /\ m_BuildState = "bsTargetDone"
        BY <1>7, <2>3 DEF LeaveState, NextTarget, SameProject
      <3>2. building # NoTarget BY <3>1 DEF AnswerInv
      <3> QED BY <1>2, <1>6, <2>1, <2>2, <3>1, <3>2
    <2>4. CASE ~NextTarget
      <3>1. UNCHANGED building BY <1>7, <2>4 DEF LeaveState
      <3> QED BY <1>2, <2>1, <2>2, <3>1
    <2> QED BY <2>3, <2>4
  <1>8. CASE StartNextProject
    <2>1. stack' # <<>> /\ Top' = "yield" BY <1>8, TopAfter
    <2>2. GetNextJob /\ m_BuildJobTargetsList # <<>> /\ m_BuildState = "bsProjectDone" /\ UNCHANGED m_BuildJob
      BY <1>8 DEF StartNextProject, NextProject
    <2>3. building # NoTarget BY <2>2 DEF AnswerInv
    <2> QED BY <1>2, <1>6, <2>1, <2>2, <2>3
  <1>9. CASE NextProjectStarted
    <2>1. stack' # <<>> /\ Top' = "last" BY <1>9, TopAfter
    <2>2. UNCHANGED <<m_BuildJob, building, m_BuildState>> BY <1>9 DEF NextProjectStarted
    <2> QED BY <1>2, <2>1, <2>2
  <1>10. CASE Managed
    <2>1. At("last") /\ UNCHANGED <<m_BuildJob, building, m_BuildState>> BY <1>10 DEF Managed, jobVars
    <2>2. stack' # <<>> /\ Top' # "rebuild"
      <3>1. /\ Len(stack) > 1
            /\ stack[Len(stack) - 1].at \in {"run", "queueTest", "endTest", "projectDone"}
        BY <1>3, <2>1
      <3> QED BY <1>10, <3>1, TopAfter
    <2> QED BY <1>2, <2>1, <2>2
  <1> QED BY <1>4, <1>5, <1>7, <1>8, <1>9, <1>10 DEF BuildStateManagement

LEMMA AnswerStep ==
    ASSUME TypeOK, LoopAssumption, SlotInv, StackInv, CleanInv, AnswerInv, FailInv, Next, TypeOK'
    PROVE  AnswerInv'
  <1>0. stack' \in Seq(Frames) BY DEF TypeOK
  <1>1. CASE User \/ RebuildCleaned BY <1>1, UserStarts, AnswerAtUser
  <1>2. CASE DoRunQueue \/ OnJobEnd \/ KillProcess \/ ProcessEnds BY <1>0, <1>2, AnswerAtSmallSteps
  <1>3. CASE BuildStateManagement BY <1>0, <1>3, AnswerAtManagement
  <1> QED BY <1>1, <1>2, <1>3 DEF Next, Handle

-----------------------------------------------------------------------------
(* Failures.                                                                  *)
LEMMA NestedKept ==
    ASSUME TypeOK, stack' \in Seq(Frames), Nested,
           Keeps("rebuild"), Keeps("commands"), Keeps("projectDone"), Keeps("last")
    PROVE  Nested'
  <1> SUFFICES ASSUME NEW k \in DOMAIN stack' PROVE stack'[k].at \in Loops \cup {"yield"}
    BY DEF Nested
  <1>1. stack'[k].at \in Labels
    <2>1. ASSUME NEW s \in Seq(Frames), NEW l \in DOMAIN s PROVE s[l].at \in Labels
      <3>1. s[l] \in Frames OBVIOUS
      <3> QED BY <3>1 DEF Frames
    <2> QED BY <2>1
  <1>2. ASSUME NEW label \in {"rebuild", "commands", "projectDone", "last"} PROVE stack'[k].at # label
    <2>1. Keeps(label) => (stack'[k].at = label => k \in DOMAIN stack /\ stack[k].at = label)
      BY DEF Keeps
    <2>2. Keeps(label) OBVIOUS
    <2> QED BY <2>1, <2>2 DEF Nested, Loops
  <1> QED BY <1>1, <1>2 DEF Labels, Yields, Loops

LEMMA FailStep ==
    ASSUME TypeOK, LoopAssumption, SlotInv, StackInv, CleanInv, AnswerInv, FailInv, Next, TypeOK'
    PROVE  FailInv'
  <1>0. stack' \in Seq(Frames) BY DEF TypeOK
  <1>1. CASE User \/ RebuildCleaned
    <2>1. failed' = FALSE BY <1>1, UserStarts DEF CompileFile, Ask, Starting
    <2> QED BY <2>1 DEF FailInv
  <1>2. ASSUME UNCHANGED failed, ~JobFails,
               DoRunQueue \/ OnJobEnd \/ KillProcess \/ ProcessEnds \/ BuildStateManagement
        PROVE  FailInv'
    <2> SUFFICES ASSUME failed PROVE Dead' /\ Nested'
      BY <1>2 DEF FailInv
    <2>1. Dead /\ Nested BY DEF FailInv
    <2>2. ASSUME NEW label, At(label) PROVE label \in Loops \cup {"yield"}
      <3>1. stack # <<>> /\ Len(stack) \in DOMAIN stack /\ stack[Len(stack)].at = label
        BY <2>2, TopFacts
      <3> QED BY <2>1, <3>1 DEF Nested
    <2>3. /\ ~At("commands") /\ ~At("last") /\ ~At("projectDone")
          /\ stack # <<>> => Top \notin {"commands", "projectDone"}
      <3>1. {"commands", "last", "projectDone"} \cap (Loops \cup {"yield"}) = {} BY DEF Loops
      <3>2. ~At("commands") /\ ~At("last") /\ ~At("projectDone") BY <2>2, <3>1
      <3> QED BY <3>2, TopFacts
    <2>4. BuildStateManagement => ManageNothing
      BY <2>1, <2>3 DEF BuildStateManagement, EnterState, LeaveState, StartNextProject,
                        NextProjectStarted, Managed, Dead
    <2>5. Nested'
      <3>1. ManageNothing => ~EnterState /\ ~StartNextProject
        BY DEF ManageNothing, EnterState, StartNextProject, At
      <3>2. Keeps("rebuild") /\ Keeps("commands") /\ Keeps("projectDone")
        BY <1>0, <1>2, <2>4, <3>1, FramesKept
      <3>3. CASE stack # <<>>
        <4>1. Keeps("last") BY <1>0, <1>2, <2>3, <3>3, FramesKept
        <4> QED BY <1>0, <2>1, <3>2, <4>1, NestedKept
      <3>4. CASE stack = <<>>
        <4>1. JobSucceeds \/ UNCHANGED stack
          BY <1>2, <2>4, <3>4 DEF DoRunQueue, OnJobEnd, KillProcess, ProcessEnds, QueueWaits, RunCommand,
             QueueEmpty, Manage, QueueFound, QueueEnds, GoOn, EndFound, EndJobs, ManageNothing, At,
             Terminate
        <4>2. CASE JobSucceeds
          <5>1. stack' = Append(<<>>, Frame(IF m_CommandQueue # <<>> \/ StillRunning THEN "run" ELSE "endLoop"))
            BY <3>4, <4>2 DEF JobSucceeds
          <5>2. \A k \in DOMAIN stack' : stack'[k].at \in {"run", "endLoop"} BY <5>1 DEF Frame
          <5> QED BY <5>2 DEF Nested, Loops
        <4>3. CASE UNCHANGED stack BY <2>1, <4>3 DEF Nested
        <4> QED BY <4>1, <4>2, <4>3
      <3> QED BY <3>3, <3>4
    <2>6. Dead'
      <3>1. ASSUME NEW i, StartCommand(i) PROVE FALSE BY <2>1, <3>1 DEF StartCommand, Dead
      <3>2. UNCHANGED <<m_CommandQueue, building>> \/ ResetBuildState
        <4>1. CASE RunCommand \/ QueueFound
          BY <3>1, <4>1 DEF RunCommand, QueueFound, RefuseCommand
        <4>2. CASE QueueEnds \/ EndJobs \/ KillProcess \/ ManageNothing
          BY <4>2 DEF QueueEnds, EndJobs, KillProcess, ManageNothing
        <4>3. CASE \/ QueueWaits \/ QueueEmpty \/ Manage("queueLoop", "queueTest")
                   \/ GoOn("queueTest", "queueLoop") \/ JobSucceeds \/ Manage("endLoop", "endTest")
                   \/ EndFound \/ GoOn("endTest", "endLoop") \/ ProcessEnds
          BY <4>3 DEF QueueWaits, QueueEmpty, Manage, GoOn, JobSucceeds, EndFound, ProcessEnds,
                      Terminate, jobVars
        <4> QED BY <1>2, <2>4, <4>1, <4>2, <4>3 DEF DoRunQueue, OnJobEnd
      <3> QED BY <2>1, <3>2 DEF Dead, ResetBuildState
    <2> QED BY <2>5, <2>6
  <1>3. ASSUME RefuseCommand, RunCommand \/ QueueFound PROVE FailInv'
    <2>1. Dead' BY <1>3 DEF RefuseCommand, ResetBuildState, Dead
    <2>2. m_CommandQueue # <<>> /\ stack # <<>> /\ Top \in Loops
      BY <1>3 DEF RefuseCommand, RunCommand, QueueFound, At, Top, Loops
    <2>3. Len(stack) = 1 BY <2>2, QueuedAtTheBottom
    <2>4. stack' # <<>> /\ Top' = "run" BY <1>0, <1>3, TopAfter
    <2>5. Len(stack') = 1
      <3> DEFINE f == Jumped("run")
      <3>1. Puts(f) BY <1>3, StepsThatRun
      <3> HIDE DEF f
      <3> QED BY <2>3, <3>1 DEF Puts
    <2>6. Nested' BY <1>0, <2>4, <2>5, NewTop DEF Nested, Loops
    <2> QED BY <2>1, <2>6 DEF FailInv
  <1>4. CASE JobFails
    <2>1. Looping /\ events # <<>> /\ UNCHANGED stack /\ Dead'
      BY <1>4 DEF JobFails, TakeEvent, ResetBuildState, Dead
    <2>2. Nested
      <3>1. stack = <<>> => Nested BY DEF Nested
      <3> QED BY <2>1, <3>1, EventsAtYields
    <2>3. Nested' BY <2>1, <2>2 DEF Nested
    <2> QED BY <2>1, <2>3 DEF FailInv
  <1>5. ASSUME DoRunQueue \/ OnJobEnd \/ KillProcess \/ ProcessEnds \/ BuildStateManagement,
               ~(RefuseCommand /\ (RunCommand \/ QueueFound)), ~JobFails
        PROVE  UNCHANGED failed
    <2>1. UNCHANGED failed
      BY <1>5 DEF DoRunQueue, OnJobEnd, KillProcess, ProcessEnds, BuildStateManagement,
         QueueWaits, RunCommand, QueueEmpty, Manage, QueueFound, QueueEnds, GoOn, EndFound, EndJobs,
         ManageNothing, EnterState, LeaveState, StartNextProject, NextProjectStarted, Managed,
         Terminate, JobSucceeds, StartCommand, ghostVars
    <2> QED BY <2>1
  <1> QED BY <1>1, <1>2, <1>3, <1>4, <1>5 DEF Next, Handle

-----------------------------------------------------------------------------
(* The order of the targets.                                                  *)
LEMMA Rearranged ==
    ASSUME NEW S, NEW s \in Seq(S), NEW t \in Seq(S), NEW b \in S
    PROVE  /\ Append(s, b) \o <<>> \o t = s \o <<b>> \o t
           /\ t # <<>> => s \o <<>> \o t = s \o <<Head(t)>> \o Tail(t)
           /\ s \o <<>> \o <<>> = s
           /\ Len(Append(s, b)) <= Len(s \o <<b>> \o t)
           /\ \A k \in DOMAIN Append(s, b) : Append(s, b)[k] = (s \o <<b>> \o t)[k]
  <1>1. <<b>> \in Seq(S) /\ <<>> \in Seq(S) /\ Len(<<b>>) = 1 /\ <<b>>[1] = b BY EmptySeq
  <1>2. /\ s \o <<b>> \in Seq(S) /\ Len(s \o <<b>>) = Len(s) + 1
        /\ \A i \in 1..(Len(s) + 1) : (s \o <<b>>)[i] = IF i <= Len(s) THEN s[i] ELSE <<b>>[i - Len(s)]
    BY <1>1, ConcatProperties
  <1>3. /\ Append(s, b) \in Seq(S) /\ Len(Append(s, b)) = Len(s) + 1 /\ Len(s) \in Nat
        /\ \A i \in 1..Len(s) : Append(s, b)[i] = s[i]
        /\ Append(s, b)[Len(s) + 1] = b
    BY AppendProperties, LenProperties
  <1>4. Append(s, b) = s \o <<b>>
    <2> DEFINE u == s \o <<b>>
               v == Append(s, b)
               n == Len(s)
    <2>1. /\ u \in Seq(S) /\ v \in Seq(S) /\ Len(u) = n + 1 /\ Len(v) = n + 1 /\ n \in Nat
          /\ \A i \in 1..(n + 1) : u[i] = IF i <= n THEN s[i] ELSE <<b>>[i - n]
          /\ \A i \in 1..n : v[i] = s[i]
          /\ v[n + 1] = b
      BY <1>2, <1>3
    <2> HIDE DEF u, v, n
    <2>2. \A i \in 1..(n + 1) : i \in 1..n \/ i = n + 1 BY <2>1
    <2>3. u[n + 1] = b
      <3>1. n + 1 \in 1..(n + 1) /\ ~(n + 1 <= n) /\ (n + 1) - n = 1 BY <2>1
      <3>2. u[n + 1] = <<b>>[(n + 1) - n] BY <2>1, <3>1
      <3> QED BY <1>1, <3>1, <3>2
    <2>4. \A i \in 1..n : i \in 1..(n + 1) /\ i <= n BY <2>1
    <2>5. \A i \in 1..n : u[i] = v[i] BY <2>1, <2>4
    <2>6. \A i \in 1..Len(v) : v[i] = u[i] BY <2>1, <2>2, <2>3, <2>5
    <2>7. v = u BY <2>1, <2>6, SeqEqual
    <2> QED BY <2>7 DEF u, v
  <1>5. s \o <<>> = s /\ Append(s, b) \o <<>> = Append(s, b) BY <1>3, ConcatEmptySeq
  <1>6. ASSUME t # <<>> PROVE s \o t = s \o <<Head(t)>> \o Tail(t)
    <2> DEFINE h == Head(t)
               r == Tail(t)
    <2>1. /\ h \in S /\ r \in Seq(S) /\ Len(r) = Len(t) - 1 /\ h = t[1]
          /\ \A k \in 1..Len(r) : r[k] = t[k + 1]
          /\ Len(t) \in Nat /\ Len(t) > 0
      BY <1>6, HeadTailProperties, EmptySeq, LenProperties
    <2> HIDE DEF h, r
    <2>2. <<h>> \in Seq(S) /\ Len(<<h>>) = 1 /\ <<h>>[1] = h BY <2>1
    <2>3. /\ <<h>> \o r \in Seq(S) /\ Len(<<h>> \o r) = 1 + Len(r)
          /\ \A i \in 1..(1 + Len(r)) : (<<h>> \o r)[i] = IF i <= 1 THEN <<h>>[i] ELSE r[i - 1]
      BY <2>1, <2>2, ConcatProperties
    <2>4. \A i \in 1..Len(t) : (<<h>> \o r)[i] = t[i]
      <3> SUFFICES ASSUME NEW i \in 1..Len(t) PROVE (<<h>> \o r)[i] = t[i]
        OBVIOUS
      <3>1. CASE i = 1 BY <2>1, <2>2, <2>3, <3>1
      <3>2. CASE i # 1
        <4>1. i - 1 \in 1..Len(r) /\ ~(i <= 1) /\ i \in 1..(1 + Len(r)) /\ (i - 1) + 1 = i BY <2>1, <3>2
        <4> QED BY <2>1, <2>3, <4>1
      <3> QED BY <3>1, <3>2
    <2>5. <<h>> \o r = t
      <3> DEFINE w == <<h>> \o r
      <3>1. w \in Seq(S) /\ Len(w) = Len(t) /\ \A i \in 1..Len(t) : w[i] = t[i] BY <2>1, <2>3, <2>4
      <3> HIDE DEF w
      <3>2. w = t BY <3>1, SeqEqual
      <3> QED BY <3>2 DEF w
    <2>6. s \o <<h>> \o r = s \o (<<h>> \o r) BY <2>1, <2>2, ConcatAssociative
    <2>7. s \o t = s \o <<h>> \o r BY <2>5, <2>6
    <2> QED BY <2>7 DEF h, r
  <1>7. /\ Len(Append(s, b)) <= Len(s \o <<b>> \o t)
        /\ \A k \in DOMAIN Append(s, b) : Append(s, b)[k] = (s \o <<b>> \o t)[k]
    <2> DEFINE u == s \o <<b>>
    <2>1. u \in Seq(S) /\ Len(u) \in Nat /\ DOMAIN u = 1..Len(u) BY <1>2, LenProperties
    <2>2. Append(s, b) = u BY <1>4
    <2> HIDE DEF u
    <2>3. /\ Len(u \o t) = Len(u) + Len(t) /\ Len(t) \in Nat
          /\ \A i \in 1..(Len(u) + Len(t)) : (u \o t)[i] = IF i <= Len(u) THEN u[i] ELSE t[i - Len(u)]
      BY <2>1, ConcatProperties, LenProperties
    <2>4. \A i \in 1..Len(u) : (u \o t)[i] = u[i]
      <3>1. \A i \in 1..Len(u) : i \in 1..(Len(u) + Len(t)) /\ i <= Len(u) BY <2>1, <2>3
      <3> QED BY <2>3, <3>1
    <2>5. Len(u) <= Len(u \o t) /\ \A k \in DOMAIN u : u[k] = (u \o t)[k] BY <2>1, <2>3, <2>4
    <2> QED BY <2>2, <2>5 DEF u
  <1> QED BY <1>4, <1>5, <1>6, <1>7

LEMMA OrderAtReset ==
    ASSUME OrderInv, ResetBuildState, UNCHANGED <<m_Build, due, built>>,
           m_Build => failed' \/ aborted' \/ built = due
    PROVE  OrderInv'
  <1>1. building' = NoTarget /\ m_BuildState' = "bsNone" BY DEF ResetBuildState
  <1> QED BY <1>1 DEF OrderInv

LEMMA OrderKept ==
    ASSUME OrderInv, UNCHANGED <<m_Clean, m_Build, due, built, m_BuildJobTargetsList>>,
           UNCHANGED jobVars, UNCHANGED failed, UNCHANGED aborted,
           building # NoTarget /\ stack' # <<>> => Top' # "commands",
           m_BuildState = "bsTargetBuild" => stack = <<>> \/ Top # "commands",
           building # NoTarget => Keeps("projectDone"),
           building # NoTarget /\ stack' # <<>> /\ Top' = "yield" =>
               \A k \in DOMAIN stack : stack[k].at # "projectDone"
    PROVE  OrderInv'
  <1>1. /\ UNCHANGED m_BuildState /\ UNCHANGED m_NextBuildState /\ UNCHANGED building
        /\ UNCHANGED FirstTargetState /\ (Pending' <=> Pending)
    BY DEF jobVars, FirstTargetState, Pending
  <1>2. \A k \in DOMAIN stack' : stack'[k].at = "projectDone" /\ building' # NoTarget =>
           /\ m_BuildState' \in {"bsProjectDone", "bsProjectPreBuild"}
           /\ m_NextBuildState' \in {"bsProjectPreBuild", FirstTargetState'}
           /\ Top' = "yield" => m_NextBuildState' = "bsProjectPreBuild"
    <2> SUFFICES ASSUME NEW k \in DOMAIN stack', stack'[k].at = "projectDone", building # NoTarget
                 PROVE  /\ m_BuildState \in {"bsProjectDone", "bsProjectPreBuild"}
                        /\ m_NextBuildState \in {"bsProjectPreBuild", FirstTargetState}
                        /\ Top' = "yield" => m_NextBuildState = "bsProjectPreBuild"
      BY <1>1
    <2>1. k \in DOMAIN stack /\ stack[k].at = "projectDone" BY DEF Keeps
    <2>2. Top' # "yield"
      <3>1. stack' # <<>> OBVIOUS
      <3> QED BY <2>1, <3>1
    <2> QED BY <2>1, <2>2 DEF OrderInv
  <1>3. due' = built' \o (IF Pending' THEN <<building'>> ELSE <<>>) \o m_BuildJobTargetsList'
        <=> due = built \o (IF Pending THEN <<building>> ELSE <<>>) \o m_BuildJobTargetsList
    BY <1>1
  <1> QED BY <1>1, <1>2, <1>3 DEF OrderInv

(* No project is between two others when the queue is run.                    *)
LEMMA NoProjectBelow ==
    ASSUME TypeOK, StackInv, building # NoTarget, stack # <<>>, Top \in Loops
    PROVE  /\ \A k \in DOMAIN stack : stack[k].at # "projectDone"
           /\ Len(stack) > 1 => stack[Len(stack) - 1].at = "rebuild"
  <1>1. Flat BY DEF StackInv, Dead
  <1>2. /\ Len(stack) \in DOMAIN stack /\ stack[Len(stack)].at \in Loops /\ DOMAIN stack = 1..Len(stack)
        /\ Len(stack) \in Nat
    BY TopFacts
  <1>3. Len(stack) = 1 \/ (Len(stack) = 2 /\ stack[1].at = "rebuild") BY <1>1, <1>2 DEF Flat
  <1>4. \A k \in DOMAIN stack : k = Len(stack) \/ (k = 1 /\ Len(stack) = 2) BY <1>2, <1>3
  <1> QED BY <1>2, <1>3, <1>4 DEF Loops

LEMMA OrderAtSmallSteps ==
    ASSUME TypeOK, LoopAssumption, SlotInv, StackInv, AnswerInv, OrderInv, stack' \in Seq(Frames),
           DoRunQueue \/ OnJobEnd \/ KillProcess \/ ProcessEnds
    PROVE  OrderInv'
  <1>1. UNCHANGED <<m_Clean, m_Build, due, built>> BY SmallSteps DEF modeVars
  <1>2. Keeps("projectDone") BY FramesKept
  <1>3. CASE QueueEnds \/ EndJobs
    <2>1. JobsEnded /\ ResetBuildState /\ UNCHANGED failed /\ UNCHANGED aborted
      BY <1>3 DEF QueueEnds, EndJobs, ghostVars
    <2>2. ASSUME m_Build, building # NoTarget PROVE built = due
      <3>1. m_NextBuildState = "bsNone" BY <2>1 DEF JobsEnded
      <3>2. m_BuildJobTargetsList = <<>> /\ ~Pending BY <2>2, <3>1 DEF OrderInv, Pending
      <3>3. due = built \o <<>> \o <<>> BY <2>2, <3>2 DEF OrderInv
      <3>4. built \in Seq(Targets) BY DEF TypeOK
      <3>5. built \o <<>> = built BY <3>4, ConcatEmptySeq
      <3> QED BY <3>3, <3>5
    <2>3. ASSUME m_Build, building = NoTarget PROVE failed' \/ aborted' \/ built = due
      BY <2>1, <2>3 DEF OrderInv
    <2> QED BY <1>1, <2>1, <2>2, <2>3, OrderAtReset
  <1>4. CASE (RefuseCommand /\ (RunCommand \/ QueueFound)) \/ JobFails \/ KillProcess
    <2>1. ResetBuildState /\ (failed' \/ aborted')
      BY <1>4 DEF RefuseCommand, JobFails, KillProcess
    <2> QED BY <1>1, <2>1, OrderAtReset
  <1>5. ASSUME \/ (RunCommand \/ QueueFound) /\ ~RefuseCommand
               \/ EndFound \/ QueueEmpty \/ GoOn("queueTest", "queueLoop") \/ GoOn("endTest", "endLoop")
               \/ Manage("queueLoop", "queueTest") \/ Manage("endLoop", "endTest") \/ QueueWaits
        PROVE  OrderInv'
    <2>1. stack # <<>> /\ Top \in Loops
      BY <1>5 DEF RunCommand, QueueFound, EndFound, QueueEmpty, GoOn, Manage, QueueWaits, At, Top, Loops
    <2>2. /\ UNCHANGED jobVars /\ UNCHANGED m_BuildJobTargetsList
          /\ UNCHANGED failed /\ UNCHANGED aborted
      BY <1>5 DEF RunCommand, QueueFound, EndFound, QueueEmpty, GoOn, Manage, QueueWaits,
                  StartCommand, ghostVars
    <2>3. building # NoTarget =>
             /\ \A k \in DOMAIN stack : stack[k].at # "projectDone"
             /\ Len(stack) > 1 => stack[Len(stack) - 1].at = "rebuild"
      BY <2>1, NoProjectBelow
    <2>4. building # NoTarget /\ stack' # <<>> => Top' # "commands"
      BY <1>5, <2>3, TopAfter
    <2>5. Top # "commands" BY <2>1 DEF Loops
    <2> QED BY <1>1, <1>2, <2>2, <2>3, <2>4, <2>5, OrderKept
  <1>6. ASSUME JobSucceeds \/ ProcessEnds PROVE OrderInv'
    <2>1. /\ UNCHANGED jobVars /\ UNCHANGED m_BuildJobTargetsList
          /\ UNCHANGED failed /\ UNCHANGED aborted
      BY <1>6 DEF JobSucceeds, ProcessEnds, Terminate, ghostVars
    <2>2. stack = <<>> \/ building = NoTarget
      <3>1. CASE JobSucceeds
        <4>1. Looping /\ events # <<>> BY <3>1 DEF JobSucceeds, TakeEvent
        <4> QED BY <4>1, EventsAtYields DEF Dead
      <3>2. CASE ProcessEnds BY <3>2, EndsAtRest DEF ProcessEnds
      <3> QED BY <1>6, <3>1, <3>2
    <2>3. building # NoTarget => \A k \in DOMAIN stack : stack[k].at # "projectDone" BY <2>2
    <2>4. building # NoTarget /\ stack' # <<>> => Top' # "commands"
      <3>1. CASE JobSucceeds BY <3>1, TopAfter
      <3>2. CASE ProcessEnds BY <2>2, <3>2 DEF ProcessEnds, Terminate
      <3> QED BY <1>6, <3>1, <3>2
    <2>5. m_BuildState = "bsTargetBuild" => stack = <<>> BY <2>2 DEF AnswerInv
    <2> QED BY <1>1, <1>2, <2>1, <2>3, <2>4, <2>5, OrderKept
  <1> QED BY <1>3, <1>4, <1>5, <1>6 DEF DoRunQueue, OnJobEnd

LEMMA OrderAtUser ==
    ASSUME TypeOK, AnswerInv, CompileFile \/ Starting, TypeOK'
    PROVE  OrderInv'
  <1>1. ASSUME building' = NoTarget, m_BuildState' = "bsNone", due' = <<>>, built' = <<>>
        PROVE  OrderInv'
    BY <1>1 DEF OrderInv
  <1>2. CASE CompileFile
    <2>1. ~IsRunning /\ UNCHANGED jobVars /\ due' = <<>> /\ built' = <<>>
      BY <1>2 DEF CompileFile, Ask
    <2>2. building = NoTarget /\ m_BuildState = "bsNone" BY <2>1 DEF IsRunning, AnswerInv
    <2> QED BY <1>1, <2>1, <2>2 DEF jobVars
  <1>3. CASE Starting /\ \E last \in BOOLEAN : NothingToDo(last)
    <2>1. PICK last \in BOOLEAN : NothingToDo(last) BY <1>3
    <2>2. building = NoTarget /\ m_BuildState = "bsNone" BY <1>3 DEF Starting, Idle, Dead
    <2> QED BY <1>1, <2>1, <2>2 DEF NothingToDo, jobVars
  <1>4. ASSUME NEW list \in Seq(Targets), NEW clean \in BOOLEAN, NEW build \in BOOLEAN,
               NEW last \in BOOLEAN, Begins(list, clean, build, last)
        PROVE  OrderInv'
    <2>1. /\ list # <<>> /\ due' = list /\ built' = <<>>
          /\ building' = Head(list) /\ m_BuildJobTargetsList' = Tail(list)
          /\ m_BuildState' = "bsNone" /\ m_NextBuildState' = "bsProjectPreBuild"
          /\ stack' = (IF last THEN <<>> ELSE <<Frame("rebuild")>>) \o <<Frame("run"), Frame("yield")>>
      BY <1>4 DEF Begins
    <2>2. Head(list) \in Targets /\ Head(list) # NoTarget
      BY <2>1, HeadTailProperties, BuildAssumption
    <2>3. list = <<>> \o <<Head(list)>> \o Tail(list)
      <3>1. <<>> \in Seq(Targets) /\ <<>> \o <<>> = <<>> BY EmptySeq
      <3>2. <<>> \o list = list BY ConcatEmptySeq
      <3>3. <<>> \o <<>> \o list = <<>> \o <<Head(list)>> \o Tail(list)
        BY <2>1, <2>2, <3>1, Rearranged
      <3> QED BY <3>1, <3>2, <3>3
    <2>4. Pending' BY <2>1 DEF Pending
    <2>5. Len(built') <= Len(due') /\ \A k \in DOMAIN built' : built'[k] = due'[k]
      <3>1. Len(list) \in Nat OBVIOUS
      <3> QED BY <2>1, <3>1
    <2>6. \/ stack' = <<Frame("run"), Frame("yield")>>
          \/ stack' = <<Frame("rebuild"), Frame("run"), Frame("yield")>>
      BY <2>1, BuildFrames
    <2>7. /\ Frame("run").at = "run" /\ Frame("yield").at = "yield" /\ Frame("rebuild").at = "rebuild"
      BY DEF Frame
    <2>8. \A k \in DOMAIN stack' : stack'[k].at \in {"run", "yield", "rebuild"}
      <3>1. CASE stack' = <<Frame("run"), Frame("yield")>> BY <2>7, <3>1
      <3>2. CASE stack' = <<Frame("rebuild"), Frame("run"), Frame("yield")>> BY <2>7, <3>2
      <3> QED BY <2>6, <3>1, <3>2
    <2>9. stack' # <<>> => Top' \in {"run", "yield", "rebuild"}
      <3>1. stack' \in Seq(Frames) BY DEF TypeOK
      <3> QED BY <2>8, <3>1, NewTop
    <2> QED BY <2>1, <2>2, <2>3, <2>4, <2>5, <2>8, <2>9 DEF OrderInv
  <1> QED BY <1>2, <1>3, <1>4 DEF Starting

LEMMA OrderAtEnter ==
    ASSUME TypeOK, LoopAssumption, SlotInv, StackInv, CleanInv, AnswerInv, OrderInv,
           stack' \in Seq(Frames), EnterState
    PROVE  OrderInv'
  <1> DEFINE n == m_NextBuildState
  <1>1. /\ At("yield") /\ building # NoTarget /\ m_BuildState' = n
        /\ built' = IF n = "bsTargetBuild" THEN Append(built, building) ELSE built
        /\ UNCHANGED m_NextBuildState /\ UNCHANGED building /\ UNCHANGED m_BuildJobTargetsList
        /\ UNCHANGED due
    BY DEF EnterState
  <1>2. UNCHANGED m_Build /\ UNCHANGED m_Clean BY DEF EnterState, modeVars
  <1>3. stack' # <<>> /\ Top' = "commands" BY TopAfter
  <1>4. Keeps("projectDone")
    <2>1. ~StartNextProject BY DEF EnterState, StartNextProject, At
    <2> QED BY <2>1, FramesKept DEF BuildStateManagement
  <1>5. stack # <<>> /\ Top = "yield" BY <1>1, TopFacts
  <1>6. m_BuildState = "bsTargetBuild" => n = "bsTargetPostBuild" BY <1>5 DEF OrderInv
  <1>7. building \in Targets /\ built \in Seq(Targets) /\ m_BuildJobTargetsList \in Seq(Targets)
    BY <1>1 DEF TypeOK
  <1>8. CASE n = "bsTargetBuild"
    <2>1. m_Build
      <3>1. ~m_Build => n \in Clean0 BY <1>1, CleanFacts DEF Cleans
      <3> QED BY <1>8, <3>1 DEF Clean0
    <2>2. Pending /\ ~Pending' BY <1>1, <1>6, <1>8 DEF Pending
    <2>3. due = built \o <<building>> \o m_BuildJobTargetsList BY <1>1, <2>1, <2>2 DEF OrderInv
    <2>4. built' = Append(built, building) BY <1>1, <1>8
    <2>5. /\ due' = built' \o <<>> \o m_BuildJobTargetsList'
          /\ Len(built') <= Len(due') /\ \A k \in DOMAIN built' : built'[k] = due'[k]
      BY <1>1, <1>7, <2>3, <2>4, Rearranged
    <2>6. \A k \in DOMAIN stack' : stack'[k].at # "projectDone"
      BY <1>1, <1>4, <1>5, <1>8 DEF OrderInv, Keeps
    <2> QED BY <1>1, <1>3, <1>8, <2>2, <2>5, <2>6 DEF OrderInv
  <1>9. CASE n # "bsTargetBuild"
    <2>1. UNCHANGED built BY <1>1, <1>9
    <2>2. Pending' <=> Pending BY <1>1, <1>6, <1>9 DEF Pending
    <2>3. m_Build' => due' = built' \o (IF Pending' THEN <<building'>> ELSE <<>>) \o m_BuildJobTargetsList'
      BY <1>1, <1>2, <2>1, <2>2 DEF OrderInv
    <2>4. Len(built') <= Len(due') /\ \A k \in DOMAIN built' : built'[k] = due'[k]
      BY <1>1, <2>1 DEF OrderInv
    <2>5. \A k \in DOMAIN stack' : stack'[k].at = "projectDone" => n = "bsProjectPreBuild"
      BY <1>1, <1>4, <1>5 DEF OrderInv, Keeps
    <2>6. n = "bsNone" => m_BuildJobTargetsList' = <<>> BY <1>1 DEF OrderInv
    <2> QED BY <1>1, <1>3, <1>9, <2>3, <2>4, <2>5, <2>6 DEF OrderInv
  <1> QED BY <1>8, <1>9

LEMMA OrderAtLeave ==
    ASSUME TypeOK, LoopAssumption, SlotInv, StackInv, CleanInv, AnswerInv, OrderInv,
           stack' \in Seq(Frames), LeaveState
    PROVE  OrderInv'
  <1> DEFINE s == m_BuildState
             rest == m_BuildJobTargetsList
  <1>1. /\ At("commands") /\ ~NextProject /\ m_NextBuildState' = GetNextStateBasedOnJob
        /\ UNCHANGED m_BuildState /\ UNCHANGED due /\ UNCHANGED built
        /\ UNCHANGED failed /\ UNCHANGED aborted
    BY DEF LeaveState, ghostVars
  <1>2. UNCHANGED m_Build /\ UNCHANGED m_Clean /\ UNCHANGED FirstTargetState
    BY DEF LeaveState, modeVars, FirstTargetState
  <1>3. stack' # <<>> /\ Top' = "last" BY TopAfter
  <1>4. Keeps("projectDone")
    <2>1. ~StartNextProject BY DEF LeaveState, StartNextProject
    <2> QED BY <2>1, FramesKept DEF BuildStateManagement
  <1>5. stack # <<>> /\ Top = "commands" BY <1>1, TopFacts
  <1>6. Len(built') <= Len(due') /\ \A k \in DOMAIN built' : built'[k] = due'[k]
    BY <1>1 DEF OrderInv
  <1>7. CASE building = NoTarget
    <2>1. s = "bsNone" BY <1>7 DEF AnswerInv
    <2>2. building' = NoTarget BY <1>1, <1>7, <2>1 DEF LeaveState, NextTarget
    <2> QED BY <1>1, <1>2, <1>6, <1>7, <2>1, <2>2 DEF OrderInv
  <1>8. CASE building # NoTarget
    <2>1. s = m_NextBuildState /\ s \in States BY <1>5, <1>8 DEF OrderInv, TypeOK
    <2>2. building \in Targets /\ built \in Seq(Targets) /\ rest \in Seq(Targets)
      BY <1>8 DEF TypeOK
    <2>3. building' # NoTarget
      <3>1. CASE NextTarget
        <4>1. rest # <<>> /\ building' = Head(rest)
          BY <3>1 DEF LeaveState, GetNextJob, NextTarget, SameProject
        <4> QED BY <2>2, <4>1, HeadTailProperties, BuildAssumption
      <3>2. CASE ~NextTarget BY <1>8, <3>2 DEF LeaveState
      <3> QED BY <3>1, <3>2
    <2>4. m_Build => due' = built' \o (IF Pending' THEN <<building'>> ELSE <<>>) \o m_BuildJobTargetsList'
      <3> SUFFICES ASSUME m_Build
                   PROVE  due = built \o (IF Pending' THEN <<building'>> ELSE <<>>) \o m_BuildJobTargetsList'
        BY <1>1
      <3>1. due = built \o (IF Pending THEN <<building>> ELSE <<>>) \o rest BY <1>8 DEF OrderInv
      <3>2. Pending <=> s \in {"bsProjectPreBuild", "bsTargetPreBuild", "bsTargetClean"}
        BY <2>1 DEF Pending
      <3>3. CASE NextTarget
        <4>1. /\ s = "bsTargetDone" /\ SameProject /\ rest # <<>>
              /\ building' = Head(rest) /\ m_BuildJobTargetsList' = Tail(rest)
          BY <3>3 DEF LeaveState, GetNextJob, NextTarget, SameProject
        <4>2. m_NextBuildState' = "bsTargetPreBuild"
          BY <1>1, <4>1 DEF GetNextStateBasedOnJob, FirstTargetState
        <4>3. ~Pending BY <3>2, <4>1
        <4>4. Pending' BY <1>1, <4>1, <4>2 DEF Pending
        <4>5. due = built \o <<>> \o rest BY <3>1, <4>3
        <4>6. built \o <<>> \o rest = built \o <<Head(rest)>> \o Tail(rest)
          BY <2>2, <4>1, Rearranged
        <4> QED BY <4>1, <4>4, <4>5, <4>6
      <3>4. CASE ~NextTarget
        <4>1. UNCHANGED building /\ UNCHANGED m_BuildJobTargetsList BY <3>4 DEF LeaveState
        <4>2. Pending' <=> Pending
          BY <1>1, <2>1, <3>2, <3>4
             DEF Pending, GetNextStateBasedOnJob, FirstTargetState, NextTarget, States
        <4> QED BY <3>1, <4>1, <4>2
      <3> QED BY <3>3, <3>4
    <2>5. m_NextBuildState' = "bsNone" => m_BuildJobTargetsList' = <<>>
      <3> SUFFICES ASSUME m_NextBuildState' = "bsNone" PROVE m_BuildJobTargetsList' = <<>>
        OBVIOUS
      <3>1. s = "bsProjectDone" \/ s = "bsNone"
        BY <1>1, <2>1 DEF GetNextStateBasedOnJob, FirstTargetState, States
      <3>2. rest = <<>> BY <1>1, <1>8, <2>1, <3>1 DEF NextProject, OrderInv
      <3>3. UNCHANGED m_BuildJobTargetsList BY <3>1 DEF LeaveState, NextTarget
      <3> QED BY <3>2, <3>3
    <2>6. s = "bsTargetBuild" => m_NextBuildState' = "bsTargetPostBuild"
      BY <1>1 DEF GetNextStateBasedOnJob
    <2>7. \A k \in DOMAIN stack' : stack'[k].at = "projectDone" =>
              s = "bsProjectPreBuild" /\ m_NextBuildState' = FirstTargetState
      <3> SUFFICES ASSUME NEW k \in DOMAIN stack', stack'[k].at = "projectDone"
                   PROVE  s = "bsProjectPreBuild" /\ m_NextBuildState' = FirstTargetState
        OBVIOUS
      <3>1. k \in DOMAIN stack /\ stack[k].at = "projectDone" BY <1>4 DEF Keeps
      <3>2. s \in {"bsProjectDone", "bsProjectPreBuild"}
            /\ m_NextBuildState \in {"bsProjectPreBuild", FirstTargetState}
        BY <1>8, <3>1 DEF OrderInv
      <3>3. s = "bsProjectPreBuild" BY <2>1, <3>2 DEF FirstTargetState
      <3> QED BY <1>1, <3>3 DEF GetNextStateBasedOnJob
    <2> QED BY <1>1, <1>2, <1>3, <1>6, <2>3, <2>4, <2>5, <2>6, <2>7 DEF OrderInv
  <1> QED BY <1>7, <1>8

LEMMA OrderAtStart ==
    ASSUME TypeOK, LoopAssumption, SlotInv, StackInv, CleanInv, AnswerInv, OrderInv,
           stack' \in Seq(Frames), StartNextProject
    PROVE  OrderInv'
  <1> DEFINE rest == m_BuildJobTargetsList
  <1>1. /\ At("commands") /\ m_BuildState = "bsProjectDone" /\ rest # <<>>
        /\ m_NextBuildState' = "bsProjectPreBuild"
        /\ building' = Head(rest) /\ m_BuildJobTargetsList' = Tail(rest)
        /\ UNCHANGED m_BuildState /\ UNCHANGED due /\ UNCHANGED built
    BY DEF StartNextProject, NextProject, GetNextJob, ghostVars
  <1>2. UNCHANGED m_Build BY DEF StartNextProject, modeVars
  <1>3. stack' # <<>> /\ Top' = "yield" BY TopAfter
  <1>4. stack # <<>> /\ Top = "commands" BY <1>1, TopFacts
  <1>5. building # NoTarget BY <1>1 DEF AnswerInv
  <1>6. m_NextBuildState = "bsProjectDone" BY <1>1, <1>4, <1>5 DEF OrderInv
  <1>7. ~Pending /\ Pending' BY <1>1, <1>6 DEF Pending
  <1>8. built \in Seq(Targets) /\ rest \in Seq(Targets) /\ building' \in Targets /\ building' # NoTarget
    BY <1>1, HeadTailProperties, BuildAssumption DEF TypeOK
  <1>9. m_Build => due' = built' \o <<building'>> \o m_BuildJobTargetsList'
    <2> SUFFICES ASSUME m_Build PROVE due = built \o <<Head(rest)>> \o Tail(rest)
      BY <1>1
    <2>1. due = built \o <<>> \o rest BY <1>5, <1>7 DEF OrderInv
    <2>2. built \o <<>> \o rest = built \o <<Head(rest)>> \o Tail(rest)
      BY <1>1, <1>8, Rearranged
    <2> QED BY <2>1, <2>2
  <1>10. Len(built') <= Len(due') /\ \A k \in DOMAIN built' : built'[k] = due'[k]
    BY <1>1 DEF OrderInv
  <1> QED BY <1>1, <1>2, <1>3, <1>7, <1>8, <1>9, <1>10 DEF OrderInv

LEMMA OrderAtStarted ==
    ASSUME TypeOK, LoopAssumption, SlotInv, StackInv, CleanInv, AnswerInv, OrderInv,
           stack' \in Seq(Frames), NextProjectStarted
    PROVE  OrderInv'
  <1>1. /\ At("projectDone") /\ m_NextBuildState' = FirstTargetState
        /\ UNCHANGED m_BuildState /\ UNCHANGED building /\ UNCHANGED m_BuildJobTargetsList
        /\ UNCHANGED due /\ UNCHANGED built /\ UNCHANGED failed /\ UNCHANGED aborted
    BY DEF NextProjectStarted, ghostVars
  <1>2. UNCHANGED m_Build /\ UNCHANGED FirstTargetState
    BY DEF NextProjectStarted, modeVars, FirstTargetState
  <1>3. stack' # <<>> /\ Top' = "last" BY TopAfter
  <1>4. Keeps("projectDone")
    <2>1. ~StartNextProject BY DEF NextProjectStarted, StartNextProject, At
    <2> QED BY <2>1, FramesKept DEF BuildStateManagement
  <1>5. Len(built') <= Len(due') /\ \A k \in DOMAIN built' : built'[k] = due'[k]
    BY <1>1 DEF OrderInv
  <1>6. CASE building = NoTarget
    <2>1. m_BuildState = "bsNone" BY <1>6 DEF AnswerInv
    <2> QED BY <1>1, <1>2, <1>5, <1>6, <2>1 DEF OrderInv
  <1>7. CASE building # NoTarget
    <2>1. Len(stack) \in DOMAIN stack /\ stack[Len(stack)].at = "projectDone" BY <1>1, TopFacts
    <2>2. /\ m_BuildState \in {"bsProjectDone", "bsProjectPreBuild"}
          /\ m_NextBuildState \in {"bsProjectPreBuild", FirstTargetState}
      BY <1>7, <2>1 DEF OrderInv
    <2>3. Pending /\ Pending' BY <1>1, <2>2 DEF Pending, FirstTargetState
    <2>4. m_Build => due' = built' \o <<building'>> \o m_BuildJobTargetsList'
      BY <1>1, <1>7, <2>3 DEF OrderInv
    <2>5. FirstTargetState # "bsNone" BY DEF FirstTargetState
    <2> QED BY <1>1, <1>2, <1>3, <1>5, <1>7, <2>2, <2>3, <2>4, <2>5 DEF OrderInv
  <1> QED BY <1>6, <1>7

LEMMA OrderStep ==
    ASSUME TypeOK, LoopAssumption, SlotInv, StackInv, CleanInv, AnswerInv, OrderInv, FailInv, Next,
           TypeOK'
    PROVE  OrderInv'
  <1>0. stack' \in Seq(Frames) BY DEF TypeOK
  <1>1. CASE User \/ RebuildCleaned BY <1>1, UserStarts, OrderAtUser
  <1>2. CASE DoRunQueue \/ OnJobEnd \/ KillProcess \/ ProcessEnds BY <1>0, <1>2, OrderAtSmallSteps
  <1>3. CASE EnterState BY <1>0, <1>3, OrderAtEnter
  <1>4. CASE LeaveState BY <1>0, <1>4, OrderAtLeave
  <1>5. CASE StartNextProject BY <1>0, <1>5, OrderAtStart
  <1>6. CASE NextProjectStarted BY <1>0, <1>6, OrderAtStarted
  <1>7. CASE ManageNothing
    <2>1. /\ ResetBuildState /\ building = NoTarget /\ UNCHANGED m_Build /\ UNCHANGED due /\ UNCHANGED built
          /\ UNCHANGED failed /\ UNCHANGED aborted
      BY <1>7 DEF ManageNothing, modeVars, ghostVars
    <2>2. m_Build => failed' \/ aborted' \/ built = due BY <2>1 DEF OrderInv
    <2> QED BY <2>1, <2>2, OrderAtReset
  <1>8. CASE Managed
    <2>1. /\ At("last") /\ UNCHANGED m_Build /\ UNCHANGED m_Clean /\ UNCHANGED due /\ UNCHANGED built
          /\ UNCHANGED m_BuildJobTargetsList /\ UNCHANGED jobVars
          /\ UNCHANGED failed /\ UNCHANGED aborted
      BY <1>8 DEF Managed, modeVars, ghostVars
    <2>2. Keeps("projectDone")
      <3>1. ~StartNextProject BY <1>8 DEF Managed, StartNextProject, At
      <3> QED BY <1>0, <1>8, <3>1, FramesKept DEF BuildStateManagement
    <2>3. Len(stack) \in DOMAIN stack /\ stack[Len(stack)].at = "last" /\ Top = "last" BY <2>1, TopFacts
    <2>4. PlaceAt(Len(stack)) BY <2>3 DEF StackInv
    <2>5. stack[Len(stack) - 1].at \in {"run", "queueTest", "endTest", "projectDone"}
      BY <2>3, <2>4 DEF PlaceAt, Yields
    <2>6. stack' # <<>> => Top' \in {"run", "queueTest", "endTest", "projectDone"}
      BY <1>0, <1>8, <2>5, TopAfter
    <2> QED BY <2>1, <2>2, <2>3, <2>6, OrderKept
  <1> QED BY <1>1, <1>2, <1>3, <1>4, <1>5, <1>6, <1>7, <1>8 DEF Next, Handle, BuildStateManagement

-----------------------------------------------------------------------------
(* The invariant is inductive.                                                *)
LEMMA SchedulerInit == Init => SchedulerInv
  <1> SUFFICES ASSUME Init PROVE SchedulerInv
    OBVIOUS
  <1>1. /\ stack = <<>> /\ m_CommandQueue = <<>> /\ events = <<>> /\ processes = {}
        /\ building = NoTarget /\ m_BuildJob = "bjIdle" /\ m_BuildState = "bsNone"
        /\ due = <<>> /\ built = <<>> /\ ~failed /\ ~handling /\ m_LastBuildStep
        /\ requests = 0 /\ finished = 0
        /\ pProcess = [i \in 1..Slots |-> FALSE] /\ PID = [i \in 1..Slots |-> FALSE]
    BY DEF Init, AllocProcesses
  <1>2. TypeOK
    <2>1. asked \in [workspace : BOOLEAN, jobs : Seq(Targets)] BY EmptySeq DEF Init, NoRequest
    <2>2. /\ requests \in 0..MaxRequests /\ aborts \in 0..MaxAborts /\ refusals \in 0..MaxRefusals
      BY BuildAssumption DEF Init
    <2>3. /\ stack \in Seq(Frames) /\ m_BuildJobTargetsList \in Seq(Targets)
          /\ m_CommandQueue \in Seq(Commands) /\ events \in Seq([slot : 1..Slots, code : {0, 1}])
          /\ due \in Seq(Targets) /\ built \in Seq(Targets)
      BY EmptySeq DEF Init
    <2>4. pProcess \in [1..Slots -> BOOLEAN] /\ PID \in [1..Slots -> BOOLEAN] BY <1>1
    <2>5. /\ m_Clean \in BOOLEAN /\ m_Build \in BOOLEAN
          /\ m_LastBuildStep \in BOOLEAN /\ m_IsWorkspaceOperation \in BOOLEAN
          /\ m_RunTargetPostBuild \in BOOLEAN /\ m_RunProjectPostBuild \in BOOLEAN
          /\ handling \in BOOLEAN /\ failed \in BOOLEAN /\ aborted \in BOOLEAN
      BY Zenon DEF Init
    <2>6. /\ m_BuildJob \in Jobs /\ m_BuildState \in States /\ m_NextBuildState \in States
          /\ building \in Targets \cup {NoTarget}
      BY DEF Init, Jobs, States
    <2>7. /\ m_LastExitCode \in {0, 1} /\ reported \in {0, 1} /\ finished \in Nat
          /\ \A p \in processes : p \in [slot : 1..Slots, command : Commands]
      BY DEF Init
    <2> QED BY <2>1, <2>2, <2>3, <2>4, <2>5, <2>6, <2>7 DEF TypeOK
  <1>3. SlotInv BY <1>1 DEF SlotInv, ProcessIn, EventOf
  <1>4. StackInv BY <1>1 DEF StackInv, Resting, Flat
  <1>5. QueueInv BY <1>1 DEF QueueInv, OneTarget, OneStageAtATime
  <1>6. CleanInv /\ AnswerInv /\ OrderInv /\ FailInv
    BY <1>1 DEF CleanInv, AnswerInv, AtRest, Dead, OrderInv, FailInv
  <1> QED BY <1>2, <1>3, <1>4, <1>5, <1>6 DEF SchedulerInv

LEMMA SchedulerStutter == SchedulerInv /\ UNCHANGED vars => SchedulerInv'
  <1> SUFFICES ASSUME SchedulerInv, UNCHANGED vars PROVE SchedulerInv'
    OBVIOUS
  <1>1. /\ UNCHANGED stack /\ UNCHANGED m_CommandQueue /\ UNCHANGED m_BuildJobTargetsList
        /\ UNCHANGED m_BuildJob /\ UNCHANGED m_BuildState /\ UNCHANGED m_NextBuildState
        /\ UNCHANGED building
    BY DEF vars, jobVars
  <1>2. /\ UNCHANGED m_Clean /\ UNCHANGED m_Build /\ UNCHANGED m_LastBuildStep
        /\ UNCHANGED m_IsWorkspaceOperation
        /\ UNCHANGED m_RunTargetPostBuild /\ UNCHANGED m_RunProjectPostBuild
    BY DEF vars, modeVars, postVars
  <1>3. /\ UNCHANGED pProcess /\ UNCHANGED PID /\ UNCHANGED processes /\ UNCHANGED events
        /\ UNCHANGED handling
        /\ UNCHANGED m_LastExitCode /\ UNCHANGED finished /\ UNCHANGED reported
    BY DEF vars, procVars, exitVars
  <1>4. /\ UNCHANGED asked /\ UNCHANGED failed /\ UNCHANGED aborted /\ UNCHANGED due /\ UNCHANGED built
        /\ UNCHANGED requests /\ UNCHANGED aborts /\ UNCHANGED refusals
    BY DEF vars, ghostVars, boundVars
  <1>5. TypeOK' BY <1>1, <1>2, <1>3, <1>4 DEF SchedulerInv, TypeOK
  <1>6. SlotInv' BY <1>3 DEF SchedulerInv, SlotInv, ProcessIn, EventOf
  <1>7. StackInv' BY <1>1, <1>3 DEF SchedulerInv, StackInv, PlaceAt, Resting, Flat, Dead, Nested, Top
  <1>8. QueueInv' BY <1>1, <1>3 DEF SchedulerInv, QueueInv, OneTarget, Waits, OneStageAtATime, AtMostOne
  <1>9. CleanInv' BY <1>1, <1>2, <1>3, <1>4 DEF SchedulerInv, CleanInv
  <1>10. AnswerInv' BY <1>1, <1>3, <1>4 DEF SchedulerInv, AnswerInv, AtRest, Dead, Top
  <1>11. OrderInv'
    BY <1>1, <1>2, <1>4 DEF SchedulerInv, OrderInv, Pending, FirstTargetState, Top
  <1>12. FailInv' BY <1>1, <1>4 DEF SchedulerInv, FailInv, Dead, Nested
  <1> QED BY <1>5, <1>6, <1>7, <1>8, <1>9, <1>10, <1>11, <1>12 DEF SchedulerInv

LEMMA SchedulerStep == LoopAssumption /\ SchedulerInv /\ [Next]_vars => SchedulerInv'
  <1> SUFFICES ASSUME LoopAssumption, SchedulerInv, Next PROVE SchedulerInv'
    BY SchedulerStutter
  <1>1. TypeOK /\ SlotInv /\ StackInv /\ QueueInv /\ CleanInv /\ AnswerInv /\ OrderInv /\ FailInv
    BY DEF SchedulerInv
  <1>2. TypeOK' BY <1>1, TypeStep
  <1>3. stack' \in Seq(Frames) BY <1>2 DEF TypeOK
  <1>4. SlotInv' /\ StackInv' BY <1>1, SlotStep, StackStep
  <1>5. QueueInv' BY <1>1, <1>3, QueueStep
  <1>6. CleanInv' BY <1>1, <1>3, CleanStep
  <1>7. AnswerInv' /\ OrderInv' /\ FailInv' BY <1>1, <1>2, AnswerStep, OrderStep, FailStep
  <1> QED BY <1>2, <1>4, <1>5, <1>6, <1>7 DEF SchedulerInv

THEOREM Scheduler == LoopAssumption => (Spec => []SchedulerInv)
  <1> SUFFICES ASSUME LoopAssumption PROVE Spec => []SchedulerInv
    OBVIOUS
  <1>1. SchedulerInv /\ [Next]_vars => SchedulerInv' BY SchedulerStep
  <1> QED BY <1>1, SchedulerInit, PTL DEF Spec

-----------------------------------------------------------------------------
(* What it shows.                                                             *)

(* A slot that runs a process says so until OnJobEnd has handled its end, and no
   other process is put there, whatever yields between the choice and the use.  *)
THEOREM ProcessesHaveSlots == LoopAssumption => (Spec => []BuildInv)
  <1> SUFFICES ASSUME LoopAssumption PROVE Spec => []BuildInv
    OBVIOUS
  <1>1. SchedulerInv => BuildInv
    <2> SUFFICES ASSUME TypeOK, SlotInv PROVE SlotsTell
      BY DEF SchedulerInv, BuildInv
    <2>1. \A p \in processes : p.slot \in 1..Slots BY DEF TypeOK
    <2> QED BY <2>1 DEF SlotInv, SlotsTell, ProcessIn
  <1> QED BY <1>1, Scheduler, PTL

(* Commands that run together are of one stage of one target, and the targets are
   built in the order of the job list.                                        *)
THEOREM StagesAndTargetsInOrder == LoopAssumption => (Spec => []CommandsInOrder)
  <1> SUFFICES ASSUME LoopAssumption PROVE Spec => []CommandsInOrder
    OBVIOUS
  <1>1. SchedulerInv => CommandsInOrder
    <2> SUFFICES ASSUME TypeOK, QueueInv, OrderInv PROVE OneStageAtATime /\ IsPrefix(built, due)
      BY DEF SchedulerInv, CommandsInOrder, BuiltInOrder
    <2>1. built \in Seq(Targets) /\ due \in Seq(Targets) BY DEF TypeOK
    <2>2. Len(built) <= Len(due) /\ \A k \in DOMAIN built : built[k] = due[k] BY DEF OrderInv
    <2> DEFINE n == Len(built)
               s == SubSeq(built, 1, n)
               t == SubSeq(due, 1, n)
    <2>3. n \in Nat /\ DOMAIN built = 1..n /\ Len(due) \in Nat /\ DOMAIN due = 1..Len(due)
          /\ n <= Len(due)
      BY <2>1, <2>2, LenProperties
    <2>4. /\ \A k \in 1..n : built[k] \in Targets /\ due[k] \in Targets
      <3>1. \A k \in 1..n : k \in 1..Len(due) BY <2>3
      <3> QED BY <2>1, <2>3, <3>1
    <2>5. s \in Seq(Targets) /\ Len(s) = n /\ \A k \in 1..n : s[k] = built[k]
      <3> HIDE DEF n
      <3>1. /\ SubSeq(built, 1, n) \in Seq(Targets)
            /\ Len(SubSeq(built, 1, n)) = IF 1 <= n THEN n - 1 + 1 ELSE 0
            /\ \A k \in 1..(n - 1 + 1) : SubSeq(built, 1, n)[k] = built[1 + k - 1]
        BY <2>1, <2>3, <2>4, SubSeqProperties
      <3>2. n - 1 + 1 = n /\ \A k \in 1..n : 1 + k - 1 = k BY <2>3
      <3> QED BY <2>3, <3>1, <3>2
    <2>6. t \in Seq(Targets) /\ Len(t) = n /\ \A k \in 1..n : t[k] = due[k]
      <3> HIDE DEF n
      <3>1. /\ SubSeq(due, 1, n) \in Seq(Targets)
            /\ Len(SubSeq(due, 1, n)) = IF 1 <= n THEN n - 1 + 1 ELSE 0
            /\ \A k \in 1..(n - 1 + 1) : SubSeq(due, 1, n)[k] = due[1 + k - 1]
        BY <2>1, <2>3, <2>4, SubSeqProperties
      <3>2. n - 1 + 1 = n /\ \A k \in 1..n : 1 + k - 1 = k BY <2>3
      <3> QED BY <2>3, <3>1, <3>2
    <2>7. s = t
      <3> HIDE DEF s, t, n
      <3>1. \A k \in 1..Len(s) : s[k] = t[k] BY <2>2, <2>3, <2>5, <2>6
      <3> QED BY <2>5, <2>6, <3>1, SeqEqual
    <2>8. IsPrefix(built, due) BY <2>3, <2>7 DEF IsPrefix
    <2> QED BY <2>8 DEF QueueInv
  <1> QED BY <1>1, Scheduler, PTL

(* The plugin is idle when nothing is left to happen, and has answered every request. *)
THEOREM RequestsAreAnswered == LoopAssumption => (Spec => []EveryRequestIsAnswered)
  <1> SUFFICES ASSUME LoopAssumption PROVE Spec => []EveryRequestIsAnswered
    OBVIOUS
  <1>1. SchedulerInv => EveryRequestIsAnswered
    <2> SUFFICES ASSUME TypeOK, SlotInv, AnswerInv, AtRest PROVE ~IsRunning /\ finished >= requests
      BY DEF SchedulerInv, EveryRequestIsAnswered
    <2>1. requests <= finished /\ Dead BY DEF AnswerInv
    <2>2. m_BuildJob = "bjIdle" /\ m_CommandQueue = <<>> BY <2>1 DEF AnswerInv, Dead
    <2>3. ~IsProcessRunning BY NoProcessRuns DEF AtRest
    <2>4. finished \in Int /\ requests \in Int BY BuildAssumption DEF TypeOK
    <2> QED BY <2>1, <2>2, <2>3, <2>4 DEF IsRunning
  <1> QED BY <1>1, Scheduler, PTL

(* The loops around BuildStateManagement do not turn while a process runs.    *)
THEOREM LoopsMakeProgress == LoopAssumption => (Spec => []NoSpin)
  <1> SUFFICES ASSUME LoopAssumption PROVE Spec => []NoSpin
    OBVIOUS
  <1>1. SchedulerInv => NoSpin
    <2> SUFFICES ASSUME TypeOK, SlotInv, StackInv, At("endLoop") \/ At("queueLoop")
                 PROVE  ~IsProcessRunning
      BY DEF SchedulerInv, NoSpin
    <2> QED BY NotResting, NoProcessRuns
  <1> QED BY <1>1, Scheduler, PTL

(* A handler that yielded before a failure starts no command after it.        *)
THEOREM FailureStops == LoopAssumption => (Spec => NothingAfterFailure)
  <1> SUFFICES ASSUME LoopAssumption PROVE Spec => NothingAfterFailure
    OBVIOUS
  <1>1. SchedulerInv /\ [Next]_vars =>
            [failed /\ processes' # processes => processes' \subseteq processes]_vars
    <2> SUFFICES ASSUME SchedulerInv, Next, failed PROVE processes' \subseteq processes
      OBVIOUS
    <2>1. m_CommandQueue = <<>> BY DEF SchedulerInv, FailInv, Dead
    <2>2. ASSUME NEW i, StartCommand(i) PROVE FALSE BY <2>1, <2>2 DEF StartCommand
    <2>3. CASE User \/ RebuildCleaned
      <3>1. UNCHANGED procVars
        BY <2>3 DEF User, Build, Clean, BuildWorkspace, CleanWorkspace, Rebuild, CompileFile,
                    RebuildCleaned, DoBuild
      <3> QED BY <3>1 DEF procVars
    <2>4. CASE DoRunQueue \/ KillProcess \/ BuildStateManagement
      <3>1. UNCHANGED procVars
        BY <2>2, <2>4 DEF DoRunQueue, KillProcess, BuildStateManagement, QueueWaits, RunCommand, QueueEmpty,
           Manage, QueueFound, QueueEnds, GoOn, RefuseCommand, ManageNothing, EnterState, LeaveState,
           StartNextProject, NextProjectStarted, Managed
      <3> QED BY <3>1 DEF procVars
    <2>5. CASE OnJobEnd
      BY <2>5 DEF OnJobEnd, JobSucceeds, JobFails, TakeEvent, Manage, EndFound, EndJobs, GoOn, procVars
    <2>6. CASE ProcessEnds BY <2>6 DEF ProcessEnds, Terminate
    <2> QED BY <2>3, <2>4, <2>5, <2>6 DEF Next, Handle
  <1> QED BY <1>1, Scheduler, PTL DEF Spec, NothingAfterFailure

(* A build that ends without a failure or an abort has built all its targets.  *)
THEOREM NoTargetIsForgotten == LoopAssumption => (Spec => SuccessMeansBuilt)
  <1> SUFFICES ASSUME LoopAssumption PROVE Spec => SuccessMeansBuilt
    OBVIOUS
  <1>1. SchedulerInv /\ [Next]_vars =>
            [finished' # finished /\ m_Build /\ ~failed' /\ ~aborted => built' = due']_vars
    <2> SUFFICES ASSUME SchedulerInv, Next, finished' # finished, m_Build, ~failed', ~aborted
                 PROVE  built' = due'
      OBVIOUS
    <2>1. TypeOK /\ SlotInv /\ StackInv /\ CleanInv /\ AnswerInv /\ OrderInv /\ FailInv
          /\ finished \in Nat
      BY DEF SchedulerInv, TypeOK
    <2>2. CASE User \/ RebuildCleaned
      <3>1. CompileFile \/ Starting BY <2>1, <2>2, UserStarts
      <3> QED BY <2>1, <3>1 DEF CompileFile, Starting, NothingToDo, Begins, exitVars
    <2>3. CASE QueueEnds \/ EndJobs
      <3>1. JobsEnded /\ UNCHANGED failed /\ UNCHANGED due /\ UNCHANGED built
        BY <2>3 DEF QueueEnds, EndJobs, ghostVars
      <3>2. CASE building = NoTarget BY <2>1, <3>1, <3>2 DEF OrderInv
      <3>3. CASE building # NoTarget
        <4>1. m_NextBuildState = "bsNone" BY <3>1 DEF JobsEnded
        <4>2. m_BuildJobTargetsList = <<>> /\ ~Pending BY <2>1, <3>3, <4>1 DEF OrderInv, Pending
        <4>3. due = built \o <<>> \o <<>> BY <2>1, <3>3, <4>2 DEF OrderInv
        <4>4. built \o <<>> = built BY <2>1, ConcatEmptySeq DEF TypeOK
        <4> QED BY <3>1, <4>3, <4>4
      <3> QED BY <3>2, <3>3
    <2>4. CASE JobFails BY <2>4 DEF JobFails
    <2>5. ASSUME \/ DoRunQueue \/ OnJobEnd \/ KillProcess \/ BuildStateManagement \/ ProcessEnds,
                 ~(QueueEnds \/ EndJobs \/ JobFails)
          PROVE  FALSE
      <3>1. UNCHANGED finished
        BY <2>5 DEF DoRunQueue, OnJobEnd, KillProcess, BuildStateManagement, ProcessEnds, QueueWaits,
           RunCommand, QueueEmpty, Manage, QueueFound, GoOn, StartCommand, RefuseCommand, JobSucceeds,
           EndFound, Terminate, ManageNothing, EnterState, LeaveState, StartNextProject,
           NextProjectStarted, Managed, exitVars
      <3> QED BY <3>1
    <2> QED BY <2>2, <2>3, <2>4, <2>5 DEF Next, Handle
  <1> QED BY <1>1, Scheduler, PTL DEF Spec, SuccessMeansBuilt
=============================================================================
