------------------------ MODULE ParserScheduleProofs ------------------------
(* Theorems of ParserSchedule: every parser, every file and every call, in any
   number. The parts of the inductive invariant are about one parser each; what
   one parser's step does to the others is said once, in Elsewhere.           *)
EXTENDS ParserSchedule, SequenceTheorems, TLAPS

(* The thread's place agrees with its count in the pool and with its stack.   *)
PlaceAt(p) ==
    /\ working[p] <=> at[p] # "wait"
    /\ stack[p] # <<>> <=> at[p] \in {"open", "body"}
PlaceInv == \A p \in Parsers : PlaceAt(p)

(* A batch from its task to idParserEnd: what is in the pool is announced once, by
   an event that finds the parser in a batch; a timer that runs during the batch has
   nothing to do while anything is under way.                                *)
BatchInv(p) ==
    /\ m_IsParsing[p] <=> ~m_IgnoreThreadEvents[p]
    /\ queue[p] # <<>> \/ Executing(p) => taskAdded[p]
    /\ taskAdded[p] =>
           \/ m_IsParsing[p] \/ at[p] \in {"copy", "macros", "parse"}
           \/ \E i \in DOMAIN queue[p] : queue[p][i] = Batch
    /\ at[p] = "parse" => m_PredefinedMacros[p] = {}
    /\ allDone[p] > 0 => allDone[p] = 1 /\ ~taskAdded[p] /\ m_IsParsing[p]
    /\ m_IsParsing[p] /\ m_BatchTimer[p] /\ MoreToParse(p) => ~taskAdded[p] /\ allDone[p] = 0
    /\ taskAdded[p] \/ allDone[p] > 0 \/ m_IsParsing[p] => s_CurrentParser = p

(* A parser that is being deleted is no longer alive.                         *)
BatchesInv ==
    /\ deleting \notin alive
    /\ "AddPredefinedMacros" \notin calls.midway => \A p \in alive : BatchInv(p)

(* Work in the pool will be announced, a batch under way listens to its events, and a
   timer that is all it has finds something to parse.                        *)
GoingAt(p) ==
    /\ m_IsParsing[p] <=> ~m_IgnoreThreadEvents[p]
    /\ queue[p] # <<>> \/ Executing(p) => taskAdded[p]
    /\ m_IsParsing[p] /\ m_BatchTimer[p] /\ ~taskAdded[p] /\ allDone[p] = 0 => MoreToParse(p)
GoingInv == \A p \in alive : GoingAt(p)

(* The files a thread is inside of are reserved for it, each of them once.    *)
FilesAt(p) ==
    /\ \A i \in DOMAIN stack[p] : i < Len(stack[p]) \/ at[p] = "body" =>
           m_FileStatusMap[p][stack[p][i]] = "fpsBeingParsed"
    /\ \A i, j \in DOMAIN stack[p] : stack[p][i] = stack[p][j] => i = j
FilesInv == "RemoveFile" \notin calls.midway => \A p \in Parsers : FilesAt(p)

ScheduleInv ==
    /\ TypeOK /\ PlaceInv /\ QueueIsServed
    /\ BatchesInv /\ GoingInv
    /\ FilesInv /\ NoStrandedFile

-----------------------------------------------------------------------------
(* Types.                                                                    *)
LEMMA StackFacts ==
    ASSUME TypeOK, NEW p \in Parsers, stack[p] # <<>>
    PROVE  /\ Top(p) \in Files /\ Len(stack[p]) \in Nat /\ Len(stack[p]) > 0
           /\ Popped(p) \in Seq(Files) /\ Len(Popped(p)) = Len(stack[p]) - 1
           /\ \A i \in 1..Len(Popped(p)) : Popped(p)[i] = stack[p][i]
           /\ Popped(p) = <<>> <=> Len(stack[p]) = 1
  <1>1. stack[p] \in Seq(Files) BY DEF TypeOK
  <1>2. Len(stack[p]) \in Nat /\ Len(stack[p]) > 0 BY <1>1
  <1>3. Top(p) \in Files BY <1>1, <1>2 DEF Top
  <1>4. \A i \in 1..(Len(stack[p]) - 1) : stack[p][i] \in Files BY <1>1, <1>2
  <1> DEFINE n == Len(stack[p]) - 1
  <1>5. n \in Int /\ 1 \in Int BY <1>2
  <1>6. /\ Popped(p) \in Seq(Files)
        /\ Len(Popped(p)) = IF 1 <= n THEN n - 1 + 1 ELSE 0
        /\ \A i \in 1..(n - 1 + 1) : Popped(p)[i] = stack[p][1 + i - 1]
    <2>1. Popped(p) = SubSeq(stack[p], 1, n) BY DEF Popped
    <2> HIDE DEF n
    <2> QED BY <1>4, <1>5, <2>1, SubSeqProperties DEF n
  <1>7. Len(Popped(p)) = n BY <1>2, <1>6
  <1>8. \A i \in 1..Len(Popped(p)) : Popped(p)[i] = stack[p][i] BY <1>2, <1>6, <1>7
  <1>9. Popped(p) = <<>> <=> Len(Popped(p)) = 0 BY <1>6, EmptySeq
  <1>10. Popped(p) = <<>> <=> Len(stack[p]) = 1 BY <1>2, <1>7, <1>9
  <1> QED BY <1>2, <1>3, <1>6, <1>7, <1>8, <1>10

LEMMA AppendNotEmpty ==
    ASSUME NEW S, NEW s \in Seq(S), NEW x \in S
    PROVE  Append(s, x) # <<>>
  <1>1. Len(Append(s, x)) = Len(s) + 1 /\ Len(s) \in Nat BY AppendProperties
  <1>2. Len(<<>>) = 0 OBVIOUS
  <1> QED BY <1>1, <1>2

LEMMA CallType ==
    ASSUME TypeOK, NEW p \in Parsers, NEW name, Call(p, name)
    PROVE  calls' \in [number : 0..MaxCalls, midway : SUBSET Upsetting]
  <1>1. calls.number \in 0..MaxCalls /\ calls.midway \in SUBSET Upsetting BY DEF TypeOK
  <1>2. calls.number + 1 \in 0..MaxCalls BY <1>1, ParserAssumption DEF Call
  <1> QED BY <1>1, <1>2 DEF Call

LEMMA AddTaskType ==
    ASSUME TypeOK, NEW p \in Parsers, NEW task \in Files \cup {Batch, Local}, AddTask(p, task)
    PROVE  /\ queue' \in [Parsers -> Seq(Files \cup {Batch, Local})]
           /\ taskAdded' \in [Parsers -> BOOLEAN] /\ working' \in [Parsers -> BOOLEAN]
           /\ credit' \in [Parsers -> {0, 1}]
  <1>1. Append(queue[p], task) \in Seq(Files \cup {Batch, Local}) BY DEF TypeOK
  <1> QED BY <1>1 DEF AddTask, Set, TypeOK

LEMMA ReserveType ==
    ASSUME TypeOK, NEW p \in Parsers, NEW f \in Files, NEW preliminary \in BOOLEAN,
           ReserveFileForParsing(p, f, preliminary)
    PROVE  /\ m_FileStatusMap' \in [Parsers -> [Files -> Status]]
           /\ m_FileMap' \in [Parsers -> SUBSET Files]
           /\ m_FilesToBeReparsed' \in [Parsers -> SUBSET Files]
  BY DEF ReserveFileForParsing, TypeOK, Status

LEMMA LeaveType ==
    ASSUME TypeOK, NEW p \in Parsers, stack[p] # <<>>, Leave(p)
    PROVE  at' \in [Parsers -> Labels] /\ stack' \in [Parsers -> Seq(Files)]
  BY StackFacts DEF Leave, Set, TypeOK, Labels

LEMMA TypeOfCalls == TypeOK /\ (\E p \in Parsers : Ask(p)) => TypeOK'
  <1> SUFFICES ASSUME TypeOK, NEW p \in Parsers, Ask(p) PROVE TypeOK'
    OBVIOUS
  <1> USE DEF listVars, flagVars, stateVars, timerVars, poolVars, taskVars, treeVars, lifeVars, Set
  <1>1. ASSUME NEW d \in Defs, AddPredefinedMacros(p, d) PROVE TypeOK'
    BY <1>1, CallType DEF AddPredefinedMacros, FromUndefined, RestartBatchTimer, TypeOK, States
  <1>2. ASSUME NEW files \in SUBSET Files, AddBatchParse(p, files) PROVE TypeOK'
    BY <1>2, CallType DEF AddBatchParse, AddToBatch, FromUndefined, RestartBatchTimer, TypeOK, States
  <1>3. ASSUME NEW f \in Files, AddFile(p, f) PROVE TypeOK'
    BY <1>3, CallType DEF AddFile, AddToBatch, FromUndefined, RestartBatchTimer, TypeOK, States
  <1>4. ASSUME NEW f \in Files, RemoveFile(p, f) PROVE TypeOK'
    BY <1>4, CallType DEF RemoveFile, TypeOK, Status
  <1>5. ASSUME NEW f \in Files, Reparse(p, f) PROVE TypeOK'
    BY <1>5, CallType DEF Reparse, TypeOK
  <1>6. ASSUME NEW project \in Projects \cup {NoProject}, UpdateParsingProject(p, project) PROVE TypeOK'
    BY <1>6, CallType DEF UpdateParsingProject, TypeOK
  <1>7. CASE Delete(p)
    <2>1. <<>> \in Seq(Files \cup {Batch, Local}) OBVIOUS
    <2> QED BY <1>7, <2>1, CallType DEF Delete, TypeOK
  <1> QED BY <1>1, <1>2, <1>3, <1>4, <1>5, <1>6, <1>7 DEF Ask

LEMMA TypeOfHandlers == TypeOK /\ (\E p \in Parsers : Handle(p)) => TypeOK'
  <1> SUFFICES ASSUME TypeOK, NEW p \in Parsers, Handle(p) PROVE TypeOK'
    OBVIOUS
  <1> USE DEF listVars, flagVars, stateVars, timerVars, poolVars, taskVars, treeVars, lifeVars
  <1>1. CASE IgnoreAllDone(p) BY <1>1 DEF IgnoreAllDone, TakeAllDone, TypeOK
  <1>2. CASE NextBatch(p) BY <1>2 DEF NextBatch, TakeAllDone, TypeOK, Set
  <1>3. CASE MarkLocal(p)
    <2>1. AddTask(p, Local) BY <1>3 DEF MarkLocal
    <2>2. /\ queue' \in [Parsers -> Seq(Files \cup {Batch, Local})]
          /\ taskAdded' \in [Parsers -> BOOLEAN] /\ working' \in [Parsers -> BOOLEAN]
          /\ credit' \in [Parsers -> {0, 1}]
      BY <2>1, AddTaskType
    <2>3. allDone' \in [Parsers -> Nat] BY <1>3 DEF MarkLocal, TakeAllDone, TypeOK
    <2>4. m_NeedMarkFileAsLocal' \in [Parsers -> BOOLEAN] BY <1>3 DEF MarkLocal, Set, TypeOK
    <2> QED BY <1>3, <2>2, <2>3, <2>4 DEF MarkLocal, TypeOK
  <1>4. CASE EndParsing(p) BY <1>4 DEF EndParsing, TakeAllDone, TypeOK, Set, States
  <1>5. CASE OnBatchTimer(p)
    <2>1. Batch \in Files \cup {Batch, Local} OBVIOUS
    <2>2. CASE m_BatchParseFiles[p] = {} /\ m_PredefinedMacros[p] = {}
      BY <1>5, <2>2 DEF OnBatchTimer, TypeOK, Set
    <2>3. CASE ~(m_BatchParseFiles[p] = {} /\ m_PredefinedMacros[p] = {})
      BY <1>5, <2>1, <2>3, AddTaskType DEF OnBatchTimer, TypeOK, Set
    <2> QED BY <2>2, <2>3
  <1>6. CASE ReparseModifiedFiles(p)
    <2> DEFINE files == m_FilesToBeReparsed[p]
    <2>1. files \in SUBSET Files BY DEF TypeOK
    <2>2. /\ m_ReparseTimer' \in [Parsers -> BOOLEAN] /\ m_NeedsReparse' \in [Parsers -> BOOLEAN]
          /\ m_FileMap' \in [Parsers -> SUBSET Files]
      BY <1>6, <2>1 DEF ReparseModifiedFiles, TypeOK, Set
    <2>3. /\ m_BatchParseFiles' \in [Parsers -> SUBSET Files]
          /\ m_PredefinedMacros' \in [Parsers -> SUBSET Defs]
          /\ m_BatchTimer' \in [Parsers -> BOOLEAN]
          /\ m_ParserState' \in [Parsers -> States]
      <3>1. CASE files = {} BY <1>6, <3>1 DEF ReparseModifiedFiles, TypeOK
      <3>2. CASE files # {}
        <4>1. AddToBatch(p, files) /\ FromUndefined(p, "ptReparseFile")
          BY <1>6, <3>2 DEF ReparseModifiedFiles
        <4>2. m_ParserState' \in [Parsers -> States] BY <4>1 DEF FromUndefined, TypeOK, States, Set
        <4> HIDE DEF files
        <4> QED BY <2>1, <4>1, <4>2 DEF AddToBatch, RestartBatchTimer, TypeOK, Set
      <3> QED BY <3>1, <3>2
    <2> QED BY <1>6, <2>2, <2>3 DEF ReparseModifiedFiles, TypeOK
  <1>7. CASE Deleted(p)
    <2>1. <<>> \in Seq(Files \cup {Batch, Local}) OBVIOUS
    <2> QED BY <1>7, <2>1 DEF Deleted, TypeOK, Set
  <1> QED BY <1>1, <1>2, <1>3, <1>4, <1>5, <1>6, <1>7 DEF Handle, OnAllThreadsDone

LEMMA TypeOfThread == TypeOK /\ PlaceInv /\ (\E p \in Parsers : Thread(p)) => TypeOK'
  <1> SUFFICES ASSUME TypeOK, PlaceInv, NEW p \in Parsers, Thread(p) PROVE TypeOK'
    OBVIOUS
  <1> USE DEF listVars, flagVars, stateVars, timerVars, poolVars, taskVars, treeVars, lifeVars,
              guiVars, restVars
  <1>1. CASE BeginRound(p)
    <2>1. /\ credit' \in [Parsers -> {0, 1}] /\ working' \in [Parsers -> BOOLEAN]
      BY <1>1 DEF BeginRound, Set, TypeOK
    <2>2. /\ queue' \in [Parsers -> Seq(Files \cup {Batch, Local})]
          /\ at' \in [Parsers -> Labels] /\ stack' \in [Parsers -> Seq(Files)]
      <3>1. CASE queue[p] = <<>> BY <1>1, <3>1 DEF BeginRound, Set, TypeOK, Labels
      <3>2. CASE queue[p] # <<>>
        <4>1. Tail(queue[p]) \in Seq(Files \cup {Batch, Local}) BY <3>2, EmptySeq, HeadTailProperties DEF TypeOK
        <4> DEFINE task == Head(queue[p])
        <4>2. (IF task \in Files THEN <<task>> ELSE <<>>) \in Seq(Files) OBVIOUS
        <4>3. queue' = [queue EXCEPT ![p] = Tail(queue[p])] BY <1>1, <3>2 DEF BeginRound
        <4>4. stack' = [stack EXCEPT ![p] = IF task \in Files THEN <<task>> ELSE <<>>]
          BY <1>1, <3>2 DEF BeginRound, Set
        <4> DEFINE label == IF task = Batch THEN "copy" ELSE IF task = Local THEN "local" ELSE "open"
        <4>5. at' = [at EXCEPT ![p] = label] BY <1>1, <3>2 DEF BeginRound, Set
        <4>6. label \in Labels BY DEF Labels
        <4> HIDE DEF label
        <4>7. at' \in [Parsers -> Labels] BY <4>5, <4>6 DEF TypeOK
        <4> HIDE DEF task
        <4> QED BY <4>1, <4>2, <4>3, <4>4, <4>7 DEF TypeOK
      <3> QED BY <3>1, <3>2
    <2> QED BY <1>1, <2>1, <2>2 DEF BeginRound, TypeOK
  <1>2. CASE EndRound(p)
    <2>1. /\ allDone' \in [Parsers -> Nat] /\ taskAdded' \in [Parsers -> BOOLEAN]
          /\ credit' \in [Parsers -> {0, 1}]
      <3>1. CASE Announces(p)
        <4> DEFINE n == allDone[p] + (IF taskAdded[p] THEN 1 ELSE 0)
        <4>2. n \in Nat BY DEF TypeOK
        <4>3. allDone' = [allDone EXCEPT ![p] = n] BY <1>2, <3>1 DEF EndRound
        <4> HIDE DEF n
        <4>1. allDone' \in [Parsers -> Nat] BY <4>2, <4>3 DEF TypeOK
        <4> QED BY <1>2, <3>1, <4>1 DEF EndRound, Set, TypeOK
      <3>2. CASE ~Announces(p) BY <1>2, <3>2 DEF EndRound, Set, TypeOK
      <3> QED BY <3>1, <3>2
    <2>2. working' \in [Parsers -> BOOLEAN] BY <1>2 DEF EndRound, Set, TypeOK
    <2>3. at' \in [Parsers -> Labels] BY <1>2 DEF EndRound, Set, TypeOK, Labels
    <2> QED BY <1>2, <2>1, <2>2, <2>3 DEF EndRound, TypeOK
  <1>3. CASE CopyLists(p) BY <1>3 DEF CopyLists, Set, TypeOK, Labels
  <1>4. CASE ClearPredefinedMacros(p) BY <1>4 DEF ClearPredefinedMacros, Set, TypeOK, Labels
  <1>5. CASE EndBatch(p) BY <1>5 DEF EndBatch, Set, TypeOK, Labels
  <1>6. ASSUME NEW f \in Files, Parse(p, f) PROVE TypeOK'
    <2>1. batchFiles' \in [Parsers -> SUBSET Files] BY <1>6 DEF Parse, TypeOK
    <2>2. CASE CanParse(p, f)
      <3>1. ReserveFileForParsing(p, f, TRUE) /\ AddTask(p, f) BY <1>6, <2>2 DEF Parse
      <3>2. /\ queue' \in [Parsers -> Seq(Files \cup {Batch, Local})]
            /\ taskAdded' \in [Parsers -> BOOLEAN] /\ working' \in [Parsers -> BOOLEAN]
            /\ credit' \in [Parsers -> {0, 1}]
        BY <3>1, AddTaskType
      <3>3. /\ m_FileStatusMap' \in [Parsers -> [Files -> Status]]
            /\ m_FileMap' \in [Parsers -> SUBSET Files]
            /\ m_FilesToBeReparsed' \in [Parsers -> SUBSET Files]
        BY <3>1, ReserveType
      <3> QED BY <1>6, <2>1, <3>2, <3>3 DEF Parse, TypeOK
    <2>3. CASE ~CanParse(p, f) BY <1>6, <2>1, <2>3 DEF Parse, TypeOK
    <2> QED BY <2>2, <2>3
  <1>7. ASSUME NEW f \in Files, Include(p, f) PROVE TypeOK'
    <2>1. /\ m_FileStatusMap' \in [Parsers -> [Files -> Status]]
          /\ m_FileMap' \in [Parsers -> SUBSET Files]
          /\ m_FilesToBeReparsed' \in [Parsers -> SUBSET Files]
      BY <1>7, ReserveType DEF Include
    <2>2. Append(stack[p], f) \in Seq(Files) BY DEF TypeOK
    <2>3. at' \in [Parsers -> Labels] /\ stack' \in [Parsers -> Seq(Files)]
      BY <1>7, <2>2 DEF Include, Set, TypeOK, Labels
    <2> QED BY <1>7, <2>1, <2>3 DEF Include, TypeOK
  <1>8. CASE MarkFilesAsLocal(p) BY <1>8 DEF MarkFilesAsLocal, Set, TypeOK, Labels
  <1>9. CASE OpenFile(p)
    <2>1. stack[p] # <<>> /\ Top(p) \in Files BY <1>9, StackFacts DEF OpenFile, PlaceInv, PlaceAt
    <2>2. CASE CanReserve(p, Top(p), FALSE)
      <3> DEFINE f == Top(p)
      <3>1. ReserveFileForParsing(p, f, FALSE) BY <1>9, <2>2 DEF OpenFile
      <3>2. f \in Files BY <2>1
      <3> HIDE DEF f
      <3>3. /\ m_FileStatusMap' \in [Parsers -> [Files -> Status]]
            /\ m_FileMap' \in [Parsers -> SUBSET Files]
            /\ m_FilesToBeReparsed' \in [Parsers -> SUBSET Files]
        BY <3>1, <3>2, ReserveType
      <3> QED BY <1>9, <2>2, <3>3 DEF OpenFile, Set, TypeOK, Labels
    <2>3. CASE ~CanReserve(p, Top(p), FALSE)
      <3>1. at' \in [Parsers -> Labels] /\ stack' \in [Parsers -> Seq(Files)]
        BY <1>9, <2>1, <2>3, LeaveType DEF OpenFile
      <3> QED BY <1>9, <2>3, <3>1 DEF OpenFile, TypeOK
    <2> QED BY <2>2, <2>3
  <1>10. CASE OpenFails(p)
    <2>1. at' \in [Parsers -> Labels] /\ stack' \in [Parsers -> Seq(Files)]
      BY <1>10, LeaveType DEF OpenFails, PlaceInv, PlaceAt
    <2>2. failures' \in 0..MaxFailures BY <1>10, ParserAssumption DEF OpenFails, TypeOK
    <2> QED BY <1>10, <2>1, <2>2 DEF OpenFails, TypeOK
  <1>11. CASE CloseFile(p)
    <2>1. stack[p] # <<>> BY <1>11 DEF CloseFile, PlaceInv, PlaceAt
    <2>2. at' \in [Parsers -> Labels] /\ stack' \in [Parsers -> Seq(Files)]
      BY <1>11, <2>1, LeaveType DEF CloseFile
    <2>3. Top(p) \in Files BY <2>1, StackFacts
    <2>4. m_FileStatusMap' \in [Parsers -> [Files -> Status]] /\ m_FileMap' \in [Parsers -> SUBSET Files]
      BY <1>11, <2>3 DEF CloseFile, TypeOK, Status
    <2> QED BY <1>11, <2>2, <2>4 DEF CloseFile, TypeOK
  <1> QED BY <1>1, <1>2, <1>3, <1>4, <1>5, <1>6, <1>7, <1>8, <1>9, <1>10, <1>11 DEF Thread

(* A step of one parser leaves everything of the others alone, but for
   s_CurrentParser and what the bounds count.                                *)
Untouched(q) ==
    /\ m_BatchParseFiles'[q] = m_BatchParseFiles[q] /\ m_PredefinedMacros'[q] = m_PredefinedMacros[q]
    /\ m_IsParsing'[q] = m_IsParsing[q] /\ m_IgnoreThreadEvents'[q] = m_IgnoreThreadEvents[q]
    /\ m_BatchTimer'[q] = m_BatchTimer[q]
    /\ queue'[q] = queue[q] /\ taskAdded'[q] = taskAdded[q]
    /\ credit'[q] = credit[q] /\ working'[q] = working[q] /\ allDone'[q] = allDone[q]
    /\ at'[q] = at[q] /\ stack'[q] = stack[q]
    /\ m_FileStatusMap'[q] = m_FileStatusMap[q]

LEMMA Elsewhere ==
    ASSUME TypeOK, NEW p \in Parsers, NEW q \in Parsers, p # q, Ask(p) \/ Handle(p) \/ Thread(p)
    PROVE  Untouched(q)
  <1> USE DEF listVars, flagVars, stateVars, timerVars, poolVars, taskVars, treeVars, lifeVars,
              guiVars, restVars, Set, Untouched, TypeOK
  <1>1. CASE Ask(p)
    <2> USE DEF AddToBatch, RestartBatchTimer
    <2>1. ASSUME NEW d \in Defs, AddPredefinedMacros(p, d) PROVE Untouched(q)
      BY <2>1 DEF AddPredefinedMacros
    <2>2. ASSUME NEW files \in SUBSET Files, AddBatchParse(p, files) PROVE Untouched(q)
      BY <2>2 DEF AddBatchParse
    <2>3. ASSUME NEW f \in Files, AddFile(p, f) PROVE Untouched(q) BY <2>3 DEF AddFile
    <2>4. ASSUME NEW f \in Files, RemoveFile(p, f) PROVE Untouched(q) BY <2>4 DEF RemoveFile
    <2>5. ASSUME NEW f \in Files, Reparse(p, f) PROVE Untouched(q) BY <2>5 DEF Reparse
    <2>6. ASSUME NEW project \in Projects \cup {NoProject}, UpdateParsingProject(p, project)
          PROVE Untouched(q)
      BY <2>6 DEF UpdateParsingProject
    <2>7. CASE Delete(p) BY <2>7 DEF Delete
    <2> QED BY <1>1, <2>1, <2>2, <2>3, <2>4, <2>5, <2>6, <2>7 DEF Ask
  <1>2. CASE Handle(p)
    <2> USE DEF TakeAllDone, AddTask
    <2>1. CASE IgnoreAllDone(p) BY <2>1 DEF IgnoreAllDone
    <2>2. CASE NextBatch(p) BY <2>2 DEF NextBatch
    <2>3. CASE MarkLocal(p) BY <2>3 DEF MarkLocal
    <2>4. CASE EndParsing(p) BY <2>4 DEF EndParsing
    <2>5. CASE OnBatchTimer(p) BY <2>5 DEF OnBatchTimer
    <2>6. CASE ReparseModifiedFiles(p)
      BY <2>6 DEF ReparseModifiedFiles, AddToBatch, RestartBatchTimer
    <2>7. CASE Deleted(p) BY <2>7 DEF Deleted
    <2> QED BY <1>2, <2>1, <2>2, <2>3, <2>4, <2>5, <2>6, <2>7 DEF Handle, OnAllThreadsDone
  <1>3. CASE Thread(p)
    <2> USE DEF AddTask, ReserveFileForParsing, Leave
    <2>1. CASE BeginRound(p) BY <2>1 DEF BeginRound
    <2>2. CASE EndRound(p) BY <2>2 DEF EndRound
    <2>3. CASE CopyLists(p) BY <2>3 DEF CopyLists
    <2>4. CASE ClearPredefinedMacros(p) BY <2>4 DEF ClearPredefinedMacros
    <2>5. CASE EndBatch(p) BY <2>5 DEF EndBatch
    <2>6. ASSUME NEW f \in Files, Parse(p, f) PROVE Untouched(q) BY <2>6 DEF Parse
    <2>7. ASSUME NEW f \in Files, Include(p, f) PROVE Untouched(q) BY <2>7 DEF Include
    <2>8. CASE MarkFilesAsLocal(p) BY <2>8 DEF MarkFilesAsLocal
    <2>9. CASE OpenFile(p) BY <2>9 DEF OpenFile
    <2>10. CASE OpenFails(p) BY <2>10 DEF OpenFails
    <2>11. CASE CloseFile(p) BY <2>11 DEF CloseFile
    <2> QED BY <1>3, <2>1, <2>2, <2>3, <2>4, <2>5, <2>6, <2>7, <2>8, <2>9, <2>10, <2>11 DEF Thread
  <1> QED BY <1>1, <1>2, <1>3

-----------------------------------------------------------------------------
(* What the three kinds of steps leave alone, and what they can change.       *)
Step(p) == Ask(p) \/ Handle(p) \/ Thread(p)

CallEffect(p) ==
    /\ UNCHANGED <<s_CurrentParser, m_IsParsing, m_IgnoreThreadEvents, taskAdded, credit,
                    working, allDone, at, stack, failures>>
    /\ queue'[p] = queue[p] \/ (p \notin alive' /\ queue'[p] = <<>>)
    /\ alive' \subseteq alive /\ deleting' \notin alive'
    /\ calls.midway \subseteq calls'.midway
    /\ calls' # calls
    /\ AtRest(p) \/ p \notin alive' => calls'.midway = calls.midway
    /\ \/ m_BatchTimer'[p] = ~m_IsParsing[p]
       \/ /\ m_BatchTimer'[p] = m_BatchTimer[p]
          /\ m_BatchParseFiles'[p] = m_BatchParseFiles[p]
          /\ m_PredefinedMacros'[p] = m_PredefinedMacros[p]
    /\ \/ m_PredefinedMacros'[p] = m_PredefinedMacros[p]
       \/ AtRest(p) \/ "AddPredefinedMacros" \in calls'.midway
    /\ m_FileStatusMap' = m_FileStatusMap \/ AtRest(p) \/ "RemoveFile" \in calls'.midway
    /\ \A f \in Files : m_FileStatusMap'[p][f] = "fpsAssigned" => m_FileStatusMap[p][f] = "fpsAssigned"

LEMMA CallsHaveEffect ==
    ASSUME TypeOK, NEW p \in Parsers, Ask(p)
    PROVE  CallEffect(p)
  <1>0. NoParser \notin alive BY ParserAssumption DEF TypeOK
  <1>9. ASSUME NEW name, Call(p, name)
        PROVE  /\ calls.midway \subseteq calls'.midway /\ p \in alive /\ deleting = NoParser
               /\ calls' # calls
               /\ AtRest(p) => calls'.midway = calls.midway
               /\ name = "Delete" => calls'.midway = calls.midway
               /\ name \in Upsetting /\ ~AtRest(p) => name \in calls'.midway
    <2>1. calls.number \in Int /\ calls'.number = calls.number + 1 BY <1>9 DEF Call, TypeOK
    <2>2. calls' # calls BY <2>1
    <2> QED BY <1>9, <2>2 DEF Call, GUI, Upsetting
  <1>1. ASSUME NEW d \in Defs, AddPredefinedMacros(p, d) PROVE CallEffect(p)
    <2>1. Call(p, "AddPredefinedMacros") BY <1>1 DEF AddPredefinedMacros
    <2>2. "AddPredefinedMacros" \in Upsetting BY DEF Upsetting
    <2> QED BY <1>0, <1>1, <1>9, <2>1, <2>2 DEF AddPredefinedMacros, CallEffect, listVars, flagVars, stateVars, timerVars,
              poolVars, taskVars, treeVars, lifeVars, Set, TypeOK, AddToBatch, RestartBatchTimer
  <1>2. ASSUME NEW files \in SUBSET Files, AddBatchParse(p, files) PROVE CallEffect(p)
    <2>1. Call(p, "AddBatchParse") BY <1>2 DEF AddBatchParse
    <2> QED BY <1>0, <1>2, <1>9, <2>1 DEF AddBatchParse, CallEffect, listVars, flagVars, stateVars, timerVars,
              poolVars, taskVars, treeVars, lifeVars, Set, TypeOK, AddToBatch, RestartBatchTimer
  <1>3. ASSUME NEW f \in Files, AddFile(p, f) PROVE CallEffect(p)
    <2>1. Call(p, "AddFile") BY <1>3 DEF AddFile
    <2> QED BY <1>0, <1>3, <1>9, <2>1 DEF AddFile, CallEffect, listVars, flagVars, stateVars, timerVars,
              poolVars, taskVars, treeVars, lifeVars, Set, TypeOK, AddToBatch, RestartBatchTimer
  <1>4. ASSUME NEW f \in Files, RemoveFile(p, f) PROVE CallEffect(p)
    <2>1. Call(p, "RemoveFile") BY <1>4 DEF RemoveFile
    <2>2. "RemoveFile" \in Upsetting BY DEF Upsetting
    <2> QED BY <1>0, <1>4, <1>9, <2>1, <2>2 DEF RemoveFile, CallEffect, listVars, flagVars, stateVars, timerVars,
              poolVars, taskVars, treeVars, lifeVars, Set, TypeOK
  <1>5. ASSUME NEW f \in Files, Reparse(p, f) PROVE CallEffect(p)
    <2>1. Call(p, "Reparse") BY <1>5 DEF Reparse
    <2> QED BY <1>0, <1>5, <1>9, <2>1 DEF Reparse, CallEffect, listVars, flagVars, stateVars, timerVars,
              poolVars, taskVars, treeVars, lifeVars, Set, TypeOK
  <1>6. ASSUME NEW project \in Projects \cup {NoProject}, UpdateParsingProject(p, project) PROVE CallEffect(p)
    <2>1. Call(p, "UpdateParsingProject") BY <1>6 DEF UpdateParsingProject
    <2> QED BY <1>0, <1>6, <1>9, <2>1 DEF UpdateParsingProject, CallEffect, listVars, flagVars, stateVars, timerVars,
              poolVars, taskVars, treeVars, lifeVars, Set, TypeOK
  <1>7. CASE Delete(p)
    <2>1. Call(p, "Delete") BY <1>7 DEF Delete
    <2> QED BY <1>0, <1>7, <1>9, <2>1 DEF Delete, CallEffect, listVars, flagVars, stateVars, timerVars,
              poolVars, taskVars, treeVars, lifeVars, Set, TypeOK
  <1> QED BY <1>1, <1>2, <1>3, <1>4, <1>5, <1>6, <1>7 DEF Ask

HandlerEffect(p) ==
    /\ UNCHANGED <<working, at, stack, m_FileStatusMap, calls, failures, alive>>
    /\ deleting' \in {deleting, NoParser}
    /\ \/ UNCHANGED <<queue, credit>>
       \/ p \notin alive /\ queue'[p] = <<>>
       \/ \E task \in {Batch, Local} : AddTask(p, task)

LEMMA HandlersHaveEffect ==
    ASSUME TypeOK, NEW p \in Parsers, BatchesInv, Handle(p)
    PROVE  HandlerEffect(p)
  <1> USE DEF listVars, flagVars, stateVars, timerVars, poolVars, taskVars, treeVars, lifeVars,
              HandlerEffect, GUI, TakeAllDone
  <1>1. CASE IgnoreAllDone(p) BY <1>1 DEF IgnoreAllDone
  <1>2. CASE NextBatch(p) BY <1>2 DEF NextBatch
  <1>3. CASE MarkLocal(p)
    <2>1. AddTask(p, Local) BY <1>3 DEF MarkLocal
    <2>2. working' = working BY <2>1 DEF AddTask
    <2> QED BY <1>3, <2>1, <2>2 DEF MarkLocal
  <1>4. CASE EndParsing(p) BY <1>4 DEF EndParsing
  <1>5. CASE OnBatchTimer(p)
    <2>1. CASE m_BatchParseFiles[p] = {} /\ m_PredefinedMacros[p] = {}
      BY <1>5, <2>1 DEF OnBatchTimer
    <2>2. CASE ~(m_BatchParseFiles[p] = {} /\ m_PredefinedMacros[p] = {})
      <3>1. AddTask(p, Batch) BY <1>5, <2>2 DEF OnBatchTimer
      <3>2. working' = working BY <3>1 DEF AddTask
      <3> QED BY <1>5, <3>1, <3>2 DEF OnBatchTimer
    <2> QED BY <2>1, <2>2
  <1>6. CASE ReparseModifiedFiles(p) BY <1>6 DEF ReparseModifiedFiles
  <1>7. CASE Deleted(p)
    <2>1. queue'[p] = <<>> /\ p \notin alive BY <1>7 DEF Deleted, Set, TypeOK, BatchesInv
    <2> QED BY <1>7, <2>1 DEF Deleted
  <1> QED BY <1>1, <1>2, <1>3, <1>4, <1>5, <1>6, <1>7 DEF Handle, OnAllThreadsDone

ThreadEffect(p) ==
    /\ UNCHANGED <<s_CurrentParser, m_BatchTimer, alive, deleting, calls>>
    /\ failures' >= failures

LEMMA ThreadsHaveEffect ==
    ASSUME TypeOK, NEW p \in Parsers, Thread(p)
    PROVE  ThreadEffect(p)
  <1>0. failures \in Int /\ failures >= failures /\ failures + 1 >= failures BY DEF TypeOK
  <1> USE <1>0 DEF timerVars, lifeVars, guiVars, restVars, ThreadEffect
  <1>1. CASE BeginRound(p) BY <1>1 DEF BeginRound
  <1>2. CASE EndRound(p) BY <1>2 DEF EndRound
  <1>3. CASE CopyLists(p) BY <1>3 DEF CopyLists
  <1>4. CASE ClearPredefinedMacros(p) BY <1>4 DEF ClearPredefinedMacros
  <1>5. CASE EndBatch(p) BY <1>5 DEF EndBatch
  <1>6. ASSUME NEW f \in Files, Parse(p, f) PROVE ThreadEffect(p) BY <1>6 DEF Parse
  <1>7. ASSUME NEW f \in Files, Include(p, f) PROVE ThreadEffect(p) BY <1>7 DEF Include
  <1>8. CASE MarkFilesAsLocal(p) BY <1>8 DEF MarkFilesAsLocal
  <1>9. CASE OpenFile(p) BY <1>9 DEF OpenFile
  <1>10. CASE OpenFails(p) BY <1>10 DEF OpenFails
  <1>11. CASE CloseFile(p) BY <1>11 DEF CloseFile
  <1> QED BY <1>1, <1>2, <1>3, <1>4, <1>5, <1>6, <1>7, <1>8, <1>9, <1>10, <1>11 DEF Thread

-----------------------------------------------------------------------------
(* Where the thread is, and that a queue is served.                           *)
LEMMA PlaceOfThread ==
    ASSUME TypeOK, PlaceInv, NEW p \in Parsers, Thread(p)
    PROVE  PlaceAt(p)'
  <1>0. PlaceAt(p) BY DEF PlaceInv
  <1> USE <1>0 DEF taskVars, poolVars, guiVars, restVars, Set, TypeOK, PlaceAt
  <1>1. CASE BeginRound(p)
    <2>1. CASE queue[p] = <<>> BY <1>1, <2>1 DEF BeginRound
    <2>2. CASE queue[p] # <<>>
      <3> DEFINE task == Head(queue[p])
      <3>1. task \in Files \cup {Batch, Local} BY <2>2
      <3>2. Batch \notin Files /\ Local \notin Files /\ Batch # Local BY ParserAssumption
      <3>3. /\ working'[p]
            /\ at'[p] = IF task = Batch THEN "copy" ELSE IF task = Local THEN "local" ELSE "open"
            /\ stack'[p] = IF task \in Files THEN <<task>> ELSE <<>>
        BY <1>1, <2>2 DEF BeginRound
      <3>4. <<task>> # <<>> OBVIOUS
      <3> HIDE DEF task, TypeOK
      <3>5. CASE task \in Files BY <3>2, <3>3, <3>4, <3>5
      <3>6. CASE task = Batch BY <3>2, <3>3, <3>6
      <3>7. CASE task = Local BY <3>2, <3>3, <3>7
      <3> QED BY <3>1, <3>5, <3>6, <3>7
    <2> QED BY <2>1, <2>2
  <1>2. CASE EndRound(p) BY <1>2 DEF EndRound
  <1>3. CASE CopyLists(p) BY <1>3 DEF CopyLists
  <1>4. CASE ClearPredefinedMacros(p) BY <1>4 DEF ClearPredefinedMacros
  <1>5. CASE EndBatch(p) BY <1>5 DEF EndBatch
  <1>6. ASSUME NEW f \in Files, Parse(p, f) PROVE PlaceAt(p)' BY <1>6 DEF Parse, AddTask
  <1>7. ASSUME NEW f \in Files, Include(p, f) PROVE PlaceAt(p)'
    <2>1. stack'[p] = Append(stack[p], f) BY <1>7 DEF Include
    <2>3. stack[p] \in Seq(Files) OBVIOUS
    <2>4. Append(stack[p], f) # <<>> BY <2>3, AppendNotEmpty
    <2>2. stack'[p] # <<>> BY <2>1, <2>4
    <2> QED BY <1>7, <2>2 DEF Include
  <1>8. CASE MarkFilesAsLocal(p) BY <1>8 DEF MarkFilesAsLocal
  <1>9. ASSUME Leave(p), UNCHANGED working, at[p] \in {"open", "body"} PROVE PlaceAt(p)'
    <2>2. Popped(p) = <<>> <=> Len(stack[p]) = 1 BY <1>9, StackFacts
    <2> QED BY <1>9, <2>2 DEF Leave
  <1>10. CASE OpenFile(p) BY <1>9, <1>10 DEF OpenFile
  <1>11. CASE OpenFails(p) BY <1>9, <1>11 DEF OpenFails
  <1>12. CASE CloseFile(p) BY <1>9, <1>12 DEF CloseFile
  <1> QED BY <1>1, <1>2, <1>3, <1>4, <1>5, <1>6, <1>7, <1>8, <1>10, <1>11, <1>12 DEF Thread

LEMMA WorkingThread ==
    ASSUME TypeOK, PlaceInv, NEW p \in Parsers, Thread(p)
    PROVE  working'[p] \/ EndRound(p)
  <1>1. CASE BeginRound(p) BY <1>1 DEF BeginRound, Set, TypeOK
  <1>2. ASSUME at[p] # "wait", UNCHANGED working PROVE working'[p]
    BY <1>2 DEF PlaceInv, PlaceAt
  <1> QED BY <1>1, <1>2 DEF Thread, CopyLists, ClearPredefinedMacros, EndBatch, Parse, AddTask,
                            Include, MarkFilesAsLocal, OpenFile, OpenFails, CloseFile, poolVars, restVars

LEMMA PlaceStep ==
    ASSUME TypeOK, PlaceInv, BatchesInv, NEW p \in Parsers, Step(p)
    PROVE  PlaceInv'
  <1> SUFFICES ASSUME NEW q \in Parsers PROVE PlaceAt(q)'
    BY DEF PlaceInv
  <1>0. PlaceAt(q) BY DEF PlaceInv
  <1>1. CASE q # p BY <1>0, <1>1, Elsewhere DEF Step, Untouched, PlaceAt
  <1>2. CASE q = p /\ Thread(p) BY <1>2, PlaceOfThread
  <1>3. CASE Ask(p) BY <1>0, <1>3, CallsHaveEffect DEF CallEffect, PlaceAt
  <1>4. CASE Handle(p) BY <1>0, <1>4, HandlersHaveEffect DEF HandlerEffect, PlaceAt
  <1> QED BY <1>1, <1>2, <1>3, <1>4 DEF Step

ServedAt(p) == queue[p] # <<>> => at[p] # "wait" \/ credit[p] = 1

LEMMA ServedStep ==
    ASSUME TypeOK, PlaceInv, BatchesInv, QueueIsServed, NEW p \in Parsers, Step(p)
    PROVE  QueueIsServed'
  <1>1. alive' \subseteq alive /\ alive \subseteq Parsers
    BY CallsHaveEffect, HandlersHaveEffect, ThreadsHaveEffect
       DEF Step, CallEffect, HandlerEffect, ThreadEffect, TypeOK
  <1> SUFFICES ASSUME NEW q \in alive' PROVE ServedAt(q)'
    BY DEF QueueIsServed, ServedAt
  <1>2. q \in alive /\ q \in Parsers /\ ServedAt(q) BY <1>1 DEF QueueIsServed, ServedAt
  <1>3. CASE q # p BY <1>2, <1>3, Elsewhere DEF Step, Untouched, ServedAt
  <1>4. CASE q = p /\ Ask(p) BY <1>2, <1>4, CallsHaveEffect DEF CallEffect, ServedAt
  <1>5. CASE q = p /\ Handle(p)
    <2>1. HandlerEffect(p) BY <1>5, HandlersHaveEffect
    <2>2. ASSUME NEW task \in {Batch, Local}, AddTask(p, task) PROVE ServedAt(p)'
      BY <2>1, <2>2 DEF AddTask, HandlerEffect, ServedAt, PlaceInv, PlaceAt, Set, TypeOK
    <2> QED BY <1>2, <1>5, <2>1, <2>2 DEF HandlerEffect, ServedAt
  <1>6. CASE q = p /\ Thread(p)
    <2>1. working'[p] => ServedAt(p)' BY <1>6, PlaceOfThread DEF PlaceAt, ServedAt
    <2>2. CASE EndRound(p)
      <3>1. CASE Announces(p) BY <1>6, <2>2, <3>1 DEF EndRound, Announces, ServedAt
      <3>2. CASE ~Announces(p) BY <1>6, <2>2, <3>2 DEF EndRound, ServedAt, Set, TypeOK
      <3> QED BY <3>1, <3>2
    <2> QED BY <1>6, <2>1, <2>2, WorkingThread
  <1> QED BY <1>1, <1>2, <1>3, <1>4, <1>5, <1>6 DEF Step

-----------------------------------------------------------------------------
(* A batch, from its task to idParserEnd.                                     *)
BatchQueued(p) == \E i \in DOMAIN queue[p] : queue[p][i] = Batch

LEMMA AddTaskQueues ==
    ASSUME TypeOK, NEW p \in Parsers, NEW task \in Files \cup {Batch, Local}, AddTask(p, task)
    PROVE  /\ taskAdded'[p] /\ queue'[p] # <<>>
           /\ task = Batch \/ BatchQueued(p) => BatchQueued(p)'
           /\ \A i \in DOMAIN queue[p] : i \in DOMAIN queue'[p] /\ queue'[p][i] = queue[p][i]
           /\ \E i \in DOMAIN queue'[p] : queue'[p][i] = task
  <1> DEFINE s == queue[p] S == Files \cup {Batch, Local}
  <1>1. queue'[p] = Append(s, task) /\ taskAdded'[p] BY DEF AddTask, Set, TypeOK
  <1>2. s \in Seq(S) BY DEF TypeOK
  <1> HIDE DEF s
  <1>3. Len(s) \in Nat /\ DOMAIN s = 1..Len(s) BY <1>2
  <1>4. /\ Append(s, task) \in Seq(S) /\ Len(Append(s, task)) = Len(s) + 1
        /\ \A i \in 1..Len(s) : Append(s, task)[i] = s[i]
        /\ Append(s, task)[Len(s) + 1] = task
    BY <1>2, AppendProperties
  <1>5. DOMAIN Append(s, task) = 1..(Len(s) + 1) BY <1>4
  <1>6. \A i \in DOMAIN s : i \in DOMAIN queue'[p] /\ queue'[p][i] = s[i] BY <1>1, <1>3, <1>4, <1>5
  <1>7. Len(s) + 1 \in DOMAIN queue'[p] /\ queue'[p][Len(s) + 1] = task BY <1>1, <1>3, <1>4, <1>5
  <1>8. Len(<<>>) = 0 OBVIOUS
  <1>9. queue'[p] # <<>> BY <1>1, <1>3, <1>4, <1>8
  <1> QED BY <1>1, <1>6, <1>7, <1>9 DEF BatchQueued, s

LEMMA TakenFromQueue ==
    ASSUME TypeOK, NEW p \in Parsers, queue[p] # <<>>
    PROVE  /\ Head(queue[p]) \in Files \cup {Batch, Local}
           /\ \A i \in DOMAIN queue[p] : i = 1 \/ (i - 1 \in DOMAIN Tail(queue[p]) /\ Tail(queue[p])[i - 1] = queue[p][i])
           /\ Head(queue[p]) = queue[p][1]
  <1> DEFINE s == queue[p] S == Files \cup {Batch, Local}
  <1>1. s \in Seq(S) /\ s # <<>> BY DEF TypeOK
  <1> HIDE DEF s
  <1>2. /\ Head(s) \in S /\ Tail(s) \in Seq(S) /\ Len(Tail(s)) = Len(s) - 1
        /\ \A i \in 1..Len(Tail(s)) : Tail(s)[i] = s[i + 1]
    BY <1>1, HeadTailProperties
  <1>3. Len(s) \in Nat /\ DOMAIN s = 1..Len(s) /\ DOMAIN Tail(s) = 1..(Len(s) - 1) BY <1>1, <1>2
  <1>4. ASSUME NEW i \in DOMAIN s, i # 1 PROVE i - 1 \in DOMAIN Tail(s) /\ Tail(s)[i - 1] = s[i]
    <2>1. i \in Int /\ i - 1 \in 1..(Len(s) - 1) /\ (i - 1) + 1 = i BY <1>3, <1>4
    <2> QED BY <1>2, <1>3, <2>1
  <1>5. Head(s) = s[1] BY <1>1
  <1> QED BY <1>2, <1>4, <1>5 DEF s

LEMMA BatchOfCall ==
    ASSUME TypeOK, NEW p \in Parsers, BatchInv(p), Ask(p), p \in alive',
           "AddPredefinedMacros" \notin calls'.midway
    PROVE  BatchInv(p)'
  <1>1. CallEffect(p) BY CallsHaveEffect
  <1>2. queue'[p] = queue[p] BY <1>1 DEF CallEffect
  <1>3. at[p] = "parse" => m_PredefinedMacros'[p] = {}
    BY <1>1 DEF CallEffect, AtRest, Executing, BatchInv
  <1>4. m_IsParsing[p] /\ m_BatchTimer'[p] =>
            m_BatchTimer[p] /\ m_BatchParseFiles'[p] = m_BatchParseFiles[p]
            /\ m_PredefinedMacros'[p] = m_PredefinedMacros[p]
    BY <1>1 DEF CallEffect
  <1> QED BY <1>1, <1>2, <1>3, <1>4 DEF CallEffect, BatchInv, Executing, MoreToParse

LEMMA BatchOfHandler ==
    ASSUME TypeOK, NEW p \in Parsers, BatchInv(p), Handle(p), p \in alive, deleting \notin alive
    PROVE  BatchInv(p)'
  <1> USE DEF listVars, flagVars, stateVars, timerVars, poolVars, taskVars, lifeVars
  <1>0. /\ m_IsParsing[p] \in BOOLEAN /\ m_IgnoreThreadEvents[p] \in BOOLEAN
        /\ allDone[p] \in Nat
    BY DEF TypeOK
  <1>1. CASE IgnoreAllDone(p)
    BY <1>1 DEF IgnoreAllDone, TakeAllDone, Unheard, BatchInv
  <1>2. ASSUME TakeAllDone(p) PROVE allDone[p] = 1 /\ allDone'[p] = 0 /\ m_IsParsing[p] /\ ~taskAdded[p]
                                    /\ queue[p] = <<>> /\ ~Executing(p)
    BY <1>2, <1>0 DEF TakeAllDone, BatchInv, TypeOK
  <1>3. CASE NextBatch(p)
    <2>1. TakeAllDone(p) BY <1>3 DEF NextBatch
    <2>2. UNCHANGED <<s_CurrentParser, listVars, flagVars, poolVars, taskVars>> BY <1>3 DEF NextBatch
    <2> QED BY <1>2, <2>1, <2>2 DEF BatchInv, MoreToParse, Executing
  <1>4. CASE MarkLocal(p)
    <2>1. TakeAllDone(p) /\ AddTask(p, Local) /\ ~MoreToParse(p) BY <1>4 DEF MarkLocal
    <2>2. taskAdded'[p] BY <2>1, AddTaskQueues
    <2>3. ~MoreToParse(p)' BY <1>4, <2>1 DEF MarkLocal, MoreToParse
    <2> QED BY <1>2, <1>4, <2>1, <2>2, <2>3 DEF MarkLocal, BatchInv, Executing
  <1>5. CASE EndParsing(p)
    <2>1. TakeAllDone(p) BY <1>5 DEF EndParsing
    <2>2. ~m_IsParsing'[p] /\ m_IgnoreThreadEvents'[p] BY <1>5 DEF EndParsing, Set, TypeOK
    <2>3. UNCHANGED <<listVars, timerVars, poolVars, taskVars>> BY <1>5 DEF EndParsing
    <2> QED BY <1>2, <2>1, <2>2, <2>3 DEF BatchInv, Executing
  <1>6. CASE OnBatchTimer(p)
    <2>0. ~m_BatchTimer'[p] BY <1>6 DEF OnBatchTimer, Set, TypeOK
    <2>1. CASE m_BatchParseFiles[p] = {} /\ m_PredefinedMacros[p] = {}
      BY <1>6, <2>0, <2>1 DEF OnBatchTimer, BatchInv, Executing
    <2>2. CASE ~(m_BatchParseFiles[p] = {} /\ m_PredefinedMacros[p] = {})
      <3>1. AddTask(p, Batch) /\ s_CurrentParser' = p /\ MoreToParse(p) /\ m_BatchTimer[p]
        BY <1>6, <2>2 DEF OnBatchTimer, MoreToParse
      <3>2. taskAdded'[p] /\ BatchQueued(p)' BY <3>1, AddTaskQueues
      <3>3. allDone[p] = 0 BY <1>0, <3>1 DEF BatchInv
      <3>4. UNCHANGED <<listVars, flagVars, allDone, taskVars>> BY <1>6 DEF OnBatchTimer
      <3> QED BY <2>0, <3>1, <3>2, <3>3, <3>4 DEF BatchInv, BatchQueued, Executing
    <2> QED BY <2>1, <2>2
  <1>7. CASE ReparseModifiedFiles(p)
    <2>1. \/ UNCHANGED <<m_BatchTimer, m_BatchParseFiles>> \/ m_BatchTimer'[p] = ~m_IsParsing[p]
      BY <1>7 DEF ReparseModifiedFiles, AddToBatch, RestartBatchTimer, Set, TypeOK
    <2>2. UNCHANGED <<s_CurrentParser, m_PredefinedMacros, flagVars, poolVars, allDone, taskVars>>
      BY <1>7 DEF ReparseModifiedFiles, AddToBatch
    <2> QED BY <2>1, <2>2 DEF BatchInv, Executing, MoreToParse
  <1>8. CASE Deleted(p) BY <1>8 DEF Deleted
  <1> QED BY <1>1, <1>3, <1>4, <1>5, <1>6, <1>7, <1>8 DEF Handle, OnAllThreadsDone

LEMMA BatchOfThread ==
    ASSUME TypeOK, NEW p \in Parsers, BatchInv(p), Thread(p)
    PROVE  BatchInv(p)'
  <1> USE DEF listVars, flagVars, stateVars, timerVars, poolVars, taskVars, lifeVars, guiVars, restVars
  <1>0. /\ m_IsParsing[p] \in BOOLEAN /\ m_IgnoreThreadEvents[p] \in BOOLEAN
        /\ allDone[p] \in Nat /\ taskAdded[p] \in BOOLEAN
    BY DEF TypeOK
  <1>1. CASE BeginRound(p)
    <2>1. CASE queue[p] = <<>>
      BY <1>1, <2>1 DEF BeginRound, BatchInv, Executing, MoreToParse, Set, TypeOK
    <2>2. CASE queue[p] # <<>>
      <3>1. /\ queue'[p] = Tail(queue[p]) /\ at[p] = "wait"
            /\ at'[p] \in {"copy", "local", "open"}
            /\ Head(queue[p]) = Batch => at'[p] = "copy"
        BY <1>1, <2>2 DEF BeginRound, Set, TypeOK
      <3>2. taskAdded[p] BY <2>2 DEF BatchInv
      <3>3. BatchQueued(p) => BatchQueued(p)' \/ at'[p] = "copy"
        BY <2>2, <3>1, TakenFromQueue DEF BatchQueued
      <3>4. UNCHANGED <<s_CurrentParser, listVars, flagVars, m_BatchTimer, taskAdded, allDone>>
        BY <1>1 DEF BeginRound
      <3> QED BY <3>1, <3>2, <3>3, <3>4 DEF BatchInv, BatchQueued, Executing, MoreToParse
    <2> QED BY <2>1, <2>2
  <1>2. CASE EndRound(p)
    <2>1. at[p] = "done" /\ at'[p] = "wait" BY <1>2 DEF EndRound, Set, TypeOK
    <2>2. UNCHANGED <<s_CurrentParser, listVars, flagVars, m_BatchTimer, queue>> BY <1>2 DEF EndRound
    <2>3. CASE Announces(p)
      <3>1. /\ allDone'[p] = allDone[p] + (IF taskAdded[p] THEN 1 ELSE 0) /\ ~taskAdded'[p]
        BY <1>2, <2>3 DEF EndRound, Set, TypeOK
      <3>2. queue[p] = <<>> BY <2>3 DEF Announces
      <3>3. taskAdded[p] => allDone[p] = 0 /\ m_IsParsing[p]
        BY <1>0, <2>1, <3>2 DEF BatchInv
      <3>4. allDone'[p] > 0 => allDone'[p] = 1 /\ m_IsParsing[p] BY <1>0, <3>1, <3>3 DEF BatchInv
      <3>5. m_IsParsing[p] /\ m_BatchTimer[p] /\ MoreToParse(p) => allDone'[p] = 0
        BY <1>0, <3>1 DEF BatchInv
      <3> QED BY <1>0, <2>1, <2>2, <3>1, <3>2, <3>3, <3>4, <3>5 DEF BatchInv, Executing, MoreToParse
    <2>4. CASE ~Announces(p)
      <3>1. UNCHANGED <<allDone, taskAdded>> BY <1>2, <2>4 DEF EndRound
      <3> QED BY <2>1, <2>2, <3>1 DEF BatchInv, Executing, MoreToParse
    <2> QED BY <2>3, <2>4
  <1>3. CASE CopyLists(p) BY <1>3 DEF CopyLists, BatchInv, Executing, MoreToParse, Set, TypeOK
  <1>4. CASE ClearPredefinedMacros(p)
    <2>1. at[p] = "macros" /\ at'[p] = "parse" /\ m_PredefinedMacros'[p] = {}
      BY <1>4 DEF ClearPredefinedMacros, Set, TypeOK
    <2>2. UNCHANGED <<s_CurrentParser, m_BatchParseFiles, flagVars, m_BatchTimer, poolVars, allDone>>
      BY <1>4 DEF ClearPredefinedMacros
    <2> QED BY <2>1, <2>2 DEF BatchInv, Executing, MoreToParse
  <1>5. CASE EndBatch(p)
    <2>1. /\ at[p] = "parse" /\ at'[p] = "done" /\ m_BatchParseFiles'[p] = {}
          /\ m_IsParsing'[p] /\ ~m_IgnoreThreadEvents'[p]
      BY <1>0, <1>5 DEF EndBatch, Set, TypeOK, BatchInv
    <2>2. UNCHANGED <<s_CurrentParser, m_PredefinedMacros, m_BatchTimer, poolVars, allDone>>
      BY <1>5 DEF EndBatch
    <2> QED BY <2>1, <2>2 DEF BatchInv, Executing, MoreToParse
  <1>6. ASSUME NEW f \in Files, Parse(p, f) PROVE BatchInv(p)'
    <2>1. at[p] = "parse" /\ UNCHANGED <<s_CurrentParser, listVars, flagVars, m_BatchTimer, allDone, at>>
      BY <1>6 DEF Parse
    <2>2. taskAdded[p] /\ taskAdded'[p]
      <3>1. taskAdded[p] BY <2>1 DEF BatchInv, Executing
      <3>2. AddTask(p, f) \/ UNCHANGED taskAdded BY <1>6 DEF Parse
      <3> QED BY <3>1, <3>2, AddTaskQueues
    <2> QED BY <2>1, <2>2 DEF BatchInv, Executing, MoreToParse
  <1>7. ASSUME at[p] \in {"local", "open", "body"}, at'[p] \in {"open", "body", "done"}, UNCHANGED restVars
        PROVE  BatchInv(p)'
    BY <1>7 DEF BatchInv, Executing, MoreToParse
  <1>8. ASSUME NEW f \in Files, Include(p, f) PROVE BatchInv(p)'
    BY <1>7, <1>8 DEF Include, Set, TypeOK
  <1>9. CASE MarkFilesAsLocal(p) BY <1>7, <1>9 DEF MarkFilesAsLocal, Set, TypeOK
  <1>10. CASE OpenFile(p) BY <1>7, <1>10 DEF OpenFile, Leave, Set, TypeOK
  <1>11. CASE OpenFails(p) BY <1>7, <1>11 DEF OpenFails, Leave, Set, TypeOK
  <1>12. CASE CloseFile(p) BY <1>7, <1>12 DEF CloseFile, Leave, Set, TypeOK
  <1> QED BY <1>1, <1>2, <1>3, <1>4, <1>5, <1>6, <1>8, <1>9, <1>10, <1>11, <1>12 DEF Thread

(* Nobody takes the token from the parser that holds it.                      *)
LEMMA CurrentIsKept ==
    ASSUME TypeOK, BatchesInv, "AddPredefinedMacros" \notin calls.midway,
           NEW p \in Parsers, NEW q \in Parsers, q # p, s_CurrentParser = q, Step(p)
    PROVE  s_CurrentParser' = q
  <1>1. CASE Ask(p) BY <1>1, CallsHaveEffect DEF CallEffect
  <1>2. CASE Thread(p) BY <1>2, ThreadsHaveEffect DEF ThreadEffect
  <1>3. CASE Handle(p)
    <2>1. CASE IgnoreAllDone(p) BY <2>1 DEF IgnoreAllDone
    <2>2. CASE NextBatch(p) BY <2>2 DEF NextBatch
    <2>3. CASE MarkLocal(p) BY <2>3 DEF MarkLocal
    <2>4. CASE EndParsing(p)
      <3>1. p \in alive /\ allDone[p] > 0 BY <2>4 DEF EndParsing, TakeAllDone, GUI
      <3>2. BatchInv(p) BY <3>1 DEF BatchesInv
      <3> QED BY <3>1, <3>2 DEF BatchInv
    <2>5. CASE OnBatchTimer(p) BY <2>5, ParserAssumption DEF OnBatchTimer
    <2>6. CASE ReparseModifiedFiles(p) BY <2>6 DEF ReparseModifiedFiles
    <2>7. CASE Deleted(p) BY <2>7 DEF Deleted
    <2> QED BY <1>3, <2>1, <2>2, <2>3, <2>4, <2>5, <2>6, <2>7 DEF Handle, OnAllThreadsDone
  <1> QED BY <1>1, <1>2, <1>3 DEF Step

LEMMA LifeStep ==
    ASSUME TypeOK, BatchesInv, NEW p \in Parsers, Step(p)
    PROVE  /\ alive' \subseteq alive /\ alive \subseteq Parsers /\ deleting' \notin alive'
           /\ calls.midway \subseteq calls'.midway /\ failures' >= failures
  <1>1. deleting \notin alive /\ alive \subseteq Parsers /\ NoParser \notin alive /\ failures \in Int
    BY ParserAssumption DEF BatchesInv, TypeOK
  <1>2. CASE Ask(p) BY <1>1, <1>2, CallsHaveEffect DEF CallEffect
  <1>3. CASE Handle(p) BY <1>1, <1>3, HandlersHaveEffect DEF HandlerEffect
  <1>4. CASE Thread(p) BY <1>1, <1>4, ThreadsHaveEffect DEF ThreadEffect
  <1> QED BY <1>2, <1>3, <1>4 DEF Step

LEMMA BatchesStep ==
    ASSUME TypeOK, BatchesInv, NEW p \in Parsers, Step(p)
    PROVE  BatchesInv'
  <1>1. /\ alive' \subseteq alive /\ alive \subseteq Parsers /\ deleting' \notin alive'
        /\ calls.midway \subseteq calls'.midway
    BY LifeStep
  <1> SUFFICES ASSUME "AddPredefinedMacros" \notin calls'.midway, NEW q \in alive' PROVE BatchInv(q)'
    BY <1>1 DEF BatchesInv
  <1>2. /\ "AddPredefinedMacros" \notin calls.midway /\ q \in alive /\ q \in Parsers
        /\ BatchInv(q) /\ deleting \notin alive
    BY <1>1 DEF BatchesInv
  <1>3. CASE q = p BY <1>2, <1>3, BatchOfCall, BatchOfHandler, BatchOfThread DEF Step
  <1>4. CASE q # p
    <2>1. Untouched(q) BY <1>2, <1>4, Elsewhere DEF Step
    <2>2. s_CurrentParser = q => s_CurrentParser' = q BY <1>2, <1>4, CurrentIsKept
    <2> QED BY <1>2, <2>1, <2>2 DEF Untouched, BatchInv, Executing, MoreToParse
  <1> QED BY <1>3, <1>4

-----------------------------------------------------------------------------
(* A batch goes on.                                                          *)
LEMMA GoingOfCall ==
    ASSUME TypeOK, NEW p \in Parsers, GoingAt(p), Ask(p), p \in alive'
    PROVE  GoingAt(p)' /\ (GoesOn(p) /\ ~GoesOn(p)' => calls' # calls /\ m_BatchTimer[p])
  <1>1. CallEffect(p) BY CallsHaveEffect
  <1>2. UNCHANGED <<m_IsParsing, m_IgnoreThreadEvents, taskAdded, allDone, at>> /\ queue'[p] = queue[p]
    BY <1>1 DEF CallEffect
  <1>3. m_BatchTimer'[p] = ~m_IsParsing[p] \/ (m_BatchTimer'[p] = m_BatchTimer[p] /\ MoreToParse(p)' = MoreToParse(p))
    BY <1>1 DEF CallEffect, MoreToParse
  <1>4. m_BatchTimer[p] \in BOOLEAN /\ m_IsParsing[p] \in BOOLEAN BY DEF TypeOK
  <1>5. GoingAt(p)' BY <1>2, <1>3, <1>4 DEF GoingAt, Executing
  <1>6. InFlight(p)' = InFlight(p) BY <1>2 DEF InFlight, Executing
  <1>7. calls' # calls BY <1>1 DEF CallEffect
  <1> QED BY <1>2, <1>3, <1>4, <1>5, <1>6, <1>7 DEF GoesOn

LEMMA GoingOfHandler ==
    ASSUME TypeOK, NEW p \in Parsers, GoingAt(p), Handle(p), p \in alive, deleting \notin alive
    PROVE  GoingAt(p)' /\ (GoesOn(p) => GoesOn(p)')
  <1> USE DEF listVars, flagVars, stateVars, timerVars, poolVars, taskVars
  <1>0. m_IsParsing[p] \in BOOLEAN /\ m_IgnoreThreadEvents[p] \in BOOLEAN /\ allDone[p] \in Nat
    BY DEF TypeOK
  <1>1. ASSUME taskAdded'[p], UNCHANGED <<m_IsParsing, m_IgnoreThreadEvents>>
        PROVE  GoingAt(p)' /\ GoesOn(p)'
    BY <1>1 DEF GoingAt, GoesOn, InFlight
  <1>2. CASE IgnoreAllDone(p)
    <2>1. ~m_IsParsing[p] BY <1>2 DEF IgnoreAllDone, Unheard, GoingAt
    <2>2. UNCHANGED <<m_IsParsing, m_IgnoreThreadEvents, queue, at, taskAdded>> BY <1>2 DEF IgnoreAllDone
    <2> QED BY <2>1, <2>2 DEF GoingAt, GoesOn, Executing
  <1>3. CASE NextBatch(p)
    <2>1. m_BatchTimer'[p] BY <1>3 DEF NextBatch, Set, TypeOK
    <2>2. UNCHANGED <<m_IsParsing, m_IgnoreThreadEvents, queue, at, taskAdded, listVars>> BY <1>3 DEF NextBatch
    <2>3. MoreToParse(p)' BY <1>3, <2>2 DEF NextBatch, MoreToParse
    <2> QED BY <2>1, <2>2, <2>3 DEF GoingAt, GoesOn, Executing
  <1>4. CASE MarkLocal(p)
    <2>1. AddTask(p, Local) /\ UNCHANGED <<m_IsParsing, m_IgnoreThreadEvents>> BY <1>4 DEF MarkLocal
    <2>2. taskAdded'[p] BY <2>1, AddTaskQueues
    <2> QED BY <1>1, <2>1, <2>2
  <1>5. CASE EndParsing(p)
    <2>1. ~m_IsParsing'[p] /\ m_IgnoreThreadEvents'[p] BY <1>5 DEF EndParsing, Set, TypeOK
    <2>2. UNCHANGED <<queue, at, taskAdded>> BY <1>5 DEF EndParsing
    <2> QED BY <2>1, <2>2 DEF GoingAt, GoesOn, Executing
  <1>6. CASE OnBatchTimer(p)
    <2>0. UNCHANGED <<m_IsParsing, m_IgnoreThreadEvents>> BY <1>6 DEF OnBatchTimer
    <2>1. CASE m_BatchParseFiles[p] = {} /\ m_PredefinedMacros[p] = {}
      <3>1. m_BatchTimer[p] /\ ~m_BatchTimer'[p] BY <1>6 DEF OnBatchTimer, Set, TypeOK
      <3>2. UNCHANGED <<queue, at, taskAdded, allDone>> BY <1>6, <2>1 DEF OnBatchTimer
      <3>3. m_IsParsing[p] => InFlight(p) BY <1>0, <2>1, <3>1 DEF GoingAt, MoreToParse, InFlight
      <3> QED BY <2>0, <3>1, <3>2, <3>3 DEF GoingAt, GoesOn, InFlight, Executing
    <2>2. CASE ~(m_BatchParseFiles[p] = {} /\ m_PredefinedMacros[p] = {})
      <3>1. AddTask(p, Batch) BY <1>6, <2>2 DEF OnBatchTimer
      <3>2. taskAdded'[p] BY <3>1, AddTaskQueues
      <3> QED BY <1>1, <2>0, <3>2
    <2> QED BY <2>1, <2>2
  <1>7. CASE ReparseModifiedFiles(p)
    <2>1. ~MoreToParse(p) BY <1>7 DEF ReparseModifiedFiles, Done, MoreToParse
    <2>2. UNCHANGED <<m_IsParsing, m_IgnoreThreadEvents, queue, at, taskAdded, allDone>>
      BY <1>7 DEF ReparseModifiedFiles
    <2>3. \/ m_BatchTimer'[p] = ~m_IsParsing[p]
          \/ m_BatchTimer'[p] = m_BatchTimer[p] /\ MoreToParse(p)' = MoreToParse(p)
      BY <1>7 DEF ReparseModifiedFiles, AddToBatch, RestartBatchTimer, MoreToParse, Set, TypeOK
    <2>4. m_IsParsing[p] /\ m_BatchTimer[p] => InFlight(p) BY <1>0, <2>1 DEF GoingAt, InFlight
    <2>5. InFlight(p)' = InFlight(p) BY <2>2 DEF InFlight, Executing
    <2>6. GoingAt(p)' BY <1>0, <2>2, <2>3 DEF GoingAt, Executing
    <2> QED BY <2>2, <2>4, <2>5, <2>6 DEF GoesOn
  <1>8. CASE Deleted(p) BY <1>8 DEF Deleted
  <1> QED BY <1>2, <1>3, <1>4, <1>5, <1>6, <1>7, <1>8 DEF Handle, OnAllThreadsDone

LEMMA GoingOfThread ==
    ASSUME TypeOK, NEW p \in Parsers, GoingAt(p), Thread(p)
    PROVE  GoingAt(p)' /\ (GoesOn(p) => GoesOn(p)')
  <1> USE DEF listVars, flagVars, stateVars, timerVars, poolVars, guiVars, restVars
  <1>0. allDone[p] \in Nat BY DEF TypeOK
  <1>1. Executing(p) => taskAdded[p] BY DEF GoingAt
  <1>2. ASSUME taskAdded'[p], m_IsParsing'[p] <=> ~m_IgnoreThreadEvents'[p] PROVE GoingAt(p)' /\ GoesOn(p)'
    BY <1>2 DEF GoingAt, GoesOn, InFlight
  <1>3. ASSUME taskAdded[p], UNCHANGED <<m_IsParsing, m_IgnoreThreadEvents, taskAdded>>
        PROVE  GoingAt(p)' /\ GoesOn(p)'
    BY <1>2, <1>3 DEF GoingAt
  <1>4. CASE BeginRound(p)
    <2>0. UNCHANGED <<m_IsParsing, m_IgnoreThreadEvents, listVars, m_BatchTimer, taskAdded, allDone>>
      BY <1>4 DEF BeginRound
    <2>1. CASE queue[p] = <<>>
      <3>1. UNCHANGED queue /\ at[p] = "wait" /\ at'[p] = "done" BY <1>4, <2>1 DEF BeginRound, Set, TypeOK
      <3>2. ~Executing(p) /\ ~Executing(p)' BY <3>1 DEF Executing
      <3> QED BY <2>0, <3>1, <3>2 DEF GoingAt, GoesOn, InFlight, MoreToParse
    <2>2. CASE queue[p] # <<>> BY <1>3, <2>0, <2>2 DEF GoingAt
    <2> QED BY <2>1, <2>2
  <1>5. CASE EndRound(p)
    <2>0. /\ UNCHANGED <<m_IsParsing, m_IgnoreThreadEvents, listVars, m_BatchTimer, queue>>
          /\ ~Executing(p) /\ ~Executing(p)'
      BY <1>5 DEF EndRound, Executing, Set, TypeOK
    <2>1. CASE Announces(p)
      <3>1. /\ allDone'[p] = allDone[p] + (IF taskAdded[p] THEN 1 ELSE 0) /\ ~taskAdded'[p]
            /\ queue[p] = <<>>
        BY <1>5, <2>1 DEF EndRound, Announces, Set, TypeOK
      <3>2. /\ allDone'[p] = 0 => ~taskAdded[p] /\ allDone[p] = 0
            /\ taskAdded[p] \/ allDone[p] > 0 => allDone'[p] > 0
        BY <1>0, <3>1
      <3> QED BY <2>0, <3>1, <3>2 DEF GoingAt, GoesOn, InFlight, MoreToParse
    <2>2. CASE ~Announces(p)
      <3>1. UNCHANGED <<taskAdded, allDone>> BY <1>5, <2>2 DEF EndRound
      <3> QED BY <2>0, <3>1 DEF GoingAt, GoesOn, InFlight, MoreToParse
    <2> QED BY <2>1, <2>2
  <1>6. CASE CopyLists(p) BY <1>1, <1>3, <1>6 DEF CopyLists, Executing
  <1>7. CASE ClearPredefinedMacros(p) BY <1>1, <1>3, <1>7 DEF ClearPredefinedMacros, Executing
  <1>8. CASE EndBatch(p)
    <2>1. taskAdded'[p] BY <1>1, <1>8 DEF EndBatch, Executing
    <2>2. m_IsParsing'[p] /\ ~m_IgnoreThreadEvents'[p] BY <1>8 DEF EndBatch, GoingAt, Set, TypeOK
    <2> QED BY <1>2, <2>1, <2>2
  <1>9. ASSUME NEW f \in Files, Parse(p, f) PROVE GoingAt(p)' /\ GoesOn(p)'
    <2>1. CASE AddTask(p, f)
      <3>1. taskAdded'[p] BY <2>1, AddTaskQueues
      <3> QED BY <1>2, <1>9, <3>1 DEF Parse, GoingAt
    <2>2. CASE UNCHANGED taskAdded BY <1>1, <1>3, <1>9, <2>2 DEF Parse, Executing
    <2> QED BY <1>9, <2>1, <2>2 DEF Parse
  <1>10. ASSUME NEW f \in Files, Include(p, f) PROVE GoingAt(p)' /\ GoesOn(p)'
    BY <1>1, <1>3, <1>10 DEF Include, Executing
  <1>11. CASE MarkFilesAsLocal(p) BY <1>1, <1>3, <1>11 DEF MarkFilesAsLocal, Executing
  <1>12. CASE OpenFile(p) BY <1>1, <1>3, <1>12 DEF OpenFile, Executing
  <1>13. CASE OpenFails(p) BY <1>1, <1>3, <1>13 DEF OpenFails, Executing
  <1>14. CASE CloseFile(p) BY <1>1, <1>3, <1>14 DEF CloseFile, Executing
  <1> QED BY <1>4, <1>5, <1>6, <1>7, <1>8, <1>9, <1>10, <1>11, <1>12, <1>13, <1>14 DEF Thread

LEMMA GoingStep ==
    ASSUME TypeOK, BatchesInv, GoingInv, NEW p \in Parsers, Step(p)
    PROVE  /\ GoingInv'
           /\ \A q \in alive' : GoesOn(q) /\ ~GoesOn(q)' => calls' # calls /\ m_BatchTimer[q]
  <1>1. alive' \subseteq alive /\ alive \subseteq Parsers /\ deleting \notin alive
    BY LifeStep DEF BatchesInv
  <1>2. ASSUME NEW q \in alive'
        PROVE  GoingAt(q)' /\ (GoesOn(q) /\ ~GoesOn(q)' => calls' # calls /\ m_BatchTimer[q])
    <2>1. q \in alive /\ q \in Parsers /\ GoingAt(q) BY <1>1, <1>2 DEF GoingInv
    <2>2. CASE q # p
      <3>1. Untouched(q) BY <2>1, <2>2, Elsewhere DEF Step
      <3> QED BY <2>1, <3>1 DEF Untouched, GoingAt, GoesOn, InFlight, Executing, MoreToParse
    <2>3. CASE q = p /\ Ask(p) BY <1>2, <2>1, <2>3, GoingOfCall
    <2>4. CASE q = p /\ Handle(p) BY <1>1, <2>1, <2>4, GoingOfHandler
    <2>5. CASE q = p /\ Thread(p) BY <2>1, <2>5, GoingOfThread
    <2> QED BY <2>2, <2>3, <2>4, <2>5 DEF Step
  <1> QED BY <1>2 DEF GoingInv

-----------------------------------------------------------------------------
(* Reservations.                                                             *)
ReservedTo(p, f, status) ==
    m_FileStatusMap' = [m_FileStatusMap EXCEPT ![p] = [@ EXCEPT ![f] = status]]

LEMMA FilesOfLeave ==
    ASSUME TypeOK, PlaceInv, NEW p \in Parsers, FilesAt(p), at[p] \in {"open", "body"}, Leave(p),
           m_FileStatusMap' = m_FileStatusMap \/ (at[p] = "body" /\ ReservedTo(p, Top(p), "fpsDone"))
    PROVE  FilesAt(p)'
  <1>1. stack[p] # <<>> /\ stack[p] \in Seq(Files) BY DEF PlaceInv, PlaceAt, TypeOK
  <1>2. /\ Top(p) \in Files /\ Len(stack[p]) \in Nat /\ Popped(p) \in Seq(Files)
        /\ Len(Popped(p)) = Len(stack[p]) - 1
        /\ \A i \in 1..Len(Popped(p)) : Popped(p)[i] = stack[p][i]
    BY <1>1, StackFacts
  <1>3. DOMAIN stack[p] = 1..Len(stack[p]) /\ DOMAIN Popped(p) = 1..(Len(stack[p]) - 1) BY <1>1, <1>2
  <1>4. stack'[p] = Popped(p) BY DEF Leave, Set, TypeOK
  <1>5. \A i \in DOMAIN Popped(p) : i \in DOMAIN stack[p] /\ i < Len(stack[p]) /\ Popped(p)[i] = stack[p][i]
    BY <1>2, <1>3
  <1>6. ASSUME NEW i \in DOMAIN Popped(p) PROVE m_FileStatusMap'[p][Popped(p)[i]] = "fpsBeingParsed"
    <2>1. m_FileStatusMap[p][stack[p][i]] = "fpsBeingParsed" BY <1>5, <1>6 DEF FilesAt
    <2>2. Len(stack[p]) \in DOMAIN stack[p] /\ i # Len(stack[p]) BY <1>1, <1>2, <1>3, <1>5, <1>6
    <2>3. stack[p][i] # Top(p) BY <1>5, <1>6, <2>2 DEF FilesAt, Top
    <2>4. m_FileStatusMap'[p][stack[p][i]] = m_FileStatusMap[p][stack[p][i]]
      <3> DEFINE f == stack[p][i]
      <3>1. f \in Files BY <1>1, <1>5, <1>6
      <3>2. f # Top(p) BY <2>3
      <3> HIDE DEF f
      <3>3. m_FileStatusMap'[p][f] = m_FileStatusMap[p][f] BY <1>2, <3>1, <3>2 DEF ReservedTo, TypeOK
      <3> QED BY <3>3 DEF f
    <2> QED BY <1>5, <1>6, <2>1, <2>4
  <1>7. \A i, j \in DOMAIN Popped(p) : Popped(p)[i] = Popped(p)[j] => i = j BY <1>5 DEF FilesAt
  <1> QED BY <1>4, <1>6, <1>7 DEF FilesAt

LEMMA FilesOfThread ==
    ASSUME TypeOK, PlaceInv, NEW p \in Parsers, FilesAt(p), Thread(p)
    PROVE  FilesAt(p)'
  <1>0. PlaceAt(p) BY DEF PlaceInv
  <1>1. ASSUME at[p] \notin {"open", "body"}, UNCHANGED stack PROVE FilesAt(p)'
    <2>1. stack[p] = <<>> BY <1>0, <1>1 DEF PlaceAt
    <2>2. DOMAIN stack'[p] = {} BY <1>1, <2>1
    <2> QED BY <2>2 DEF FilesAt
  <1> USE DEF restVars
  <1>2. CASE BeginRound(p)
    <2>1. CASE queue[p] = <<>> BY <1>1, <1>2, <2>1 DEF BeginRound
    <2>2. CASE queue[p] # <<>>
      <3>1. /\ stack'[p] = <<>> \/ stack'[p] = <<Head(queue[p])>>
            /\ stack'[p] = <<>> \/ at'[p] # "body"
        BY <1>2, <2>2 DEF BeginRound, Set, TypeOK
      <3>2. CASE stack'[p] = <<>>
        <4>1. DOMAIN stack'[p] = {} BY <3>2
        <4> QED BY <4>1 DEF FilesAt
      <3>3. CASE stack'[p] = <<Head(queue[p])>> /\ at'[p] # "body"
        <4>1. DOMAIN stack'[p] = {1} /\ Len(stack'[p]) = 1 BY <3>3
        <4> QED BY <3>3, <4>1 DEF FilesAt
      <3> QED BY <3>1, <3>2, <3>3
    <2> QED BY <2>1, <2>2
  <1>3. CASE EndRound(p) BY <1>1, <1>3 DEF EndRound
  <1>4. CASE CopyLists(p) BY <1>1, <1>4 DEF CopyLists
  <1>5. CASE ClearPredefinedMacros(p) BY <1>1, <1>5 DEF ClearPredefinedMacros
  <1>6. CASE EndBatch(p) BY <1>1, <1>6 DEF EndBatch
  <1>7. ASSUME NEW f \in Files, Parse(p, f) PROVE FilesAt(p)' BY <1>1, <1>7 DEF Parse
  <1>8. CASE MarkFilesAsLocal(p) BY <1>1, <1>8 DEF MarkFilesAsLocal
  <1>9. CASE OpenFile(p)
    <2>0. stack[p] # <<>> /\ stack[p] \in Seq(Files) BY <1>0, <1>9 DEF OpenFile, PlaceAt, TypeOK
    <2>1. CASE CanReserve(p, Top(p), FALSE)
      <3>1. /\ ReservedTo(p, Top(p), "fpsBeingParsed") /\ at'[p] = "body" /\ stack' = stack
            /\ at[p] = "open"
        BY <1>9, <2>1 DEF OpenFile, ReserveFileForParsing, ReservedTo, Set, TypeOK
      <3>2. Top(p) \in Files /\ Len(stack[p]) \in Nat /\ DOMAIN stack[p] = 1..Len(stack[p])
        BY <2>0, StackFacts
      <3>3. m_FileStatusMap'[p] = [m_FileStatusMap[p] EXCEPT ![Top(p)] = "fpsBeingParsed"]
        BY <3>1 DEF ReservedTo, TypeOK
      <3>4. m_FileStatusMap[p] \in [Files -> Status] BY DEF TypeOK
      <3>5. ASSUME NEW i \in DOMAIN stack[p] PROVE m_FileStatusMap'[p][stack[p][i]] = "fpsBeingParsed"
        <4>1. stack[p][i] \in Files BY <2>0, <3>2, <3>5
        <4>2. i < Len(stack[p]) \/ i = Len(stack[p]) BY <3>2, <3>5
        <4>3. i < Len(stack[p]) => m_FileStatusMap[p][stack[p][i]] = "fpsBeingParsed" BY <3>5 DEF FilesAt
        <4>4. i = Len(stack[p]) => stack[p][i] = Top(p) BY DEF Top
        <4> QED BY <3>2, <3>3, <3>4, <4>1, <4>2, <4>3, <4>4
      <3> QED BY <3>1, <3>5 DEF FilesAt
    <2>2. CASE ~CanReserve(p, Top(p), FALSE)
      BY <1>9, <2>2, FilesOfLeave DEF OpenFile, treeVars
    <2> QED BY <2>1, <2>2
  <1>10. CASE OpenFails(p) BY <1>10, FilesOfLeave DEF OpenFails, treeVars
  <1>11. ASSUME NEW f \in Files, Include(p, f) PROVE FilesAt(p)'
    <2> DEFINE s == stack[p]
    <2>1. /\ at[p] = "body" /\ at'[p] = "open" /\ stack'[p] = Append(s, f) /\ CanReserve(p, f, TRUE)
          /\ ReservedTo(p, f, "fpsAssigned")
      BY <1>11 DEF Include, CanParse, ReserveFileForParsing, ReservedTo, Set, TypeOK
    <2>2. s \in Seq(Files) /\ m_FileStatusMap[p] \in [Files -> Status] BY DEF TypeOK
    <2>3. m_FileStatusMap'[p] = [m_FileStatusMap[p] EXCEPT ![f] = "fpsAssigned"]
      BY <2>1 DEF ReservedTo, TypeOK
    <2>4. m_FileStatusMap[p][f] # "fpsBeingParsed" BY <2>1 DEF CanReserve, Forgets
    <2>5. \A i \in DOMAIN s : m_FileStatusMap[p][s[i]] = "fpsBeingParsed" BY <2>1 DEF FilesAt
    <2>6. \A i, j \in DOMAIN s : s[i] = s[j] => i = j BY DEF FilesAt
    <2> HIDE DEF s
    <2>7. /\ Len(s) \in Nat /\ DOMAIN s = 1..Len(s) /\ Len(Append(s, f)) = Len(s) + 1
          /\ DOMAIN Append(s, f) = 1..(Len(s) + 1)
          /\ \A i \in 1..Len(s) : Append(s, f)[i] = s[i]
          /\ Append(s, f)[Len(s) + 1] = f
      BY <2>2, AppendProperties
    <2>8. \A i \in DOMAIN s : s[i] \in Files /\ s[i] # f BY <2>2, <2>4, <2>5, <2>7
    <2>9. ASSUME NEW i \in 1..(Len(s) + 1), i < Len(s) + 1
          PROVE  m_FileStatusMap'[p][Append(s, f)[i]] = "fpsBeingParsed"
      <3>1. i \in 1..Len(s) BY <2>7, <2>9
      <3> QED BY <2>2, <2>3, <2>5, <2>7, <2>8, <3>1
    <2>10. ASSUME NEW i \in 1..(Len(s) + 1), NEW j \in 1..(Len(s) + 1), Append(s, f)[i] = Append(s, f)[j]
           PROVE  i = j
      <3>1. (i \in 1..Len(s) \/ i = Len(s) + 1) /\ (j \in 1..Len(s) \/ j = Len(s) + 1) BY <2>7
      <3> QED BY <2>6, <2>7, <2>8, <2>10, <3>1
    <2> QED BY <2>1, <2>7, <2>9, <2>10 DEF FilesAt
  <1>12. CASE CloseFile(p)
    <2>1. at[p] = "body" /\ Leave(p) /\ ReservedTo(p, Top(p), "fpsDone") BY <1>12 DEF CloseFile, ReservedTo
    <2> QED BY <2>1, FilesOfLeave
  <1> QED BY <1>2, <1>3, <1>4, <1>5, <1>6, <1>7, <1>8, <1>9, <1>10, <1>11, <1>12 DEF Thread

LEMMA FilesStep ==
    ASSUME TypeOK, PlaceInv, BatchesInv, FilesInv, NEW p \in Parsers, Step(p)
    PROVE  FilesInv'
  <1> SUFFICES ASSUME "RemoveFile" \notin calls'.midway, NEW q \in Parsers PROVE FilesAt(q)'
    BY DEF FilesInv
  <1>1. "RemoveFile" \notin calls.midway BY LifeStep
  <1>2. FilesAt(q) /\ FilesAt(p) BY <1>1 DEF FilesInv
  <1>3. CASE q # p BY <1>2, <1>3, Elsewhere DEF Step, Untouched, FilesAt
  <1>4. CASE q = p /\ Ask(p)
    <2>1. CallEffect(p) BY <1>4, CallsHaveEffect
    <2>2. CASE m_FileStatusMap' = m_FileStatusMap BY <1>2, <1>4, <2>1, <2>2 DEF CallEffect, FilesAt
    <2>3. CASE AtRest(p)
      <3>1. stack[p] = <<>> BY <2>3 DEF AtRest, Executing, PlaceInv, PlaceAt
      <3>2. DOMAIN stack'[p] = {} BY <2>1, <3>1 DEF CallEffect
      <3> QED BY <1>4, <3>2 DEF FilesAt
    <2> QED BY <2>1, <2>2, <2>3 DEF CallEffect
  <1>5. CASE q = p /\ Handle(p) BY <1>2, <1>5, HandlersHaveEffect DEF HandlerEffect, FilesAt
  <1>6. CASE q = p /\ Thread(p) BY <1>2, <1>6, FilesOfThread
  <1> QED BY <1>3, <1>4, <1>5, <1>6 DEF Step

Stranded(p, f) ==
    /\ m_FileStatusMap[p][f] = "fpsAssigned"
    /\ \A i \in DOMAIN queue[p] : queue[p][i] # f
    /\ ~(at[p] = "open" /\ Top(p) = f)

LEMMA StrandedByLeave ==
    ASSUME TypeOK, PlaceInv, NEW p \in Parsers, NEW f \in Files, at[p] \in {"open", "body"}, Leave(p),
           UNCHANGED queue, Stranded(p, f)', at[p] = "open" => m_FileStatusMap[p][Top(p)] # "fpsAssigned",
           m_FileStatusMap' = m_FileStatusMap \/ (at[p] = "body" /\ ReservedTo(p, Top(p), "fpsDone"))
    PROVE  Stranded(p, f)
  <1>1. stack[p] # <<>> BY DEF PlaceInv, PlaceAt
  <1>2. Top(p) \in Files BY <1>1, StackFacts
  <1>3. m_FileStatusMap[p][f] = "fpsAssigned" BY <1>2 DEF Stranded, ReservedTo, TypeOK
  <1> QED BY <1>3 DEF Stranded

LEMMA StrandedByThread ==
    ASSUME TypeOK, PlaceInv, NEW p \in Parsers, NEW f \in Files, Thread(p), failures' = 0, Stranded(p, f)'
    PROVE  Stranded(p, f)
  <1>0. PlaceAt(p) /\ failures \in Nat BY DEF PlaceInv, TypeOK
  <1>1. ASSUME at[p] # "open", UNCHANGED <<m_FileStatusMap, queue>> PROVE Stranded(p, f)
    BY <1>1 DEF Stranded
  <1> USE DEF restVars, poolVars, treeVars
  <1>2. CASE BeginRound(p)
    <2>1. CASE queue[p] = <<>> BY <1>1, <1>2, <2>1 DEF BeginRound
    <2>2. CASE queue[p] # <<>>
      <3>1. /\ at[p] = "wait" /\ queue'[p] = Tail(queue[p]) /\ UNCHANGED m_FileStatusMap
            /\ stack'[p] = IF Head(queue[p]) \in Files THEN <<Head(queue[p])>> ELSE <<>>
            /\ at'[p] = IF Head(queue[p]) = Batch THEN "copy" ELSE IF Head(queue[p]) = Local THEN "local" ELSE "open"
        BY <1>2, <2>2 DEF BeginRound, Set, TypeOK
      <3>2. ASSUME NEW i \in DOMAIN queue[p], queue[p][i] = f PROVE FALSE
        <4>1. i # 1 => i - 1 \in DOMAIN queue'[p] /\ queue'[p][i - 1] = f BY <2>2, <3>1, <3>2, TakenFromQueue
        <4>2. i = 1 => Head(queue[p]) = f BY <2>2, <3>2, TakenFromQueue
        <4>3. i = 1 => at'[p] = "open" /\ stack'[p] = <<f>> BY <3>1, <4>2, ParserAssumption
        <4>4. stack'[p] = <<f>> => Top(p)' = f BY DEF Top
        <4> QED BY <4>1, <4>3, <4>4 DEF Stranded
      <3> QED BY <3>1, <3>2 DEF Stranded
    <2> QED BY <2>1, <2>2
  <1>3. CASE EndRound(p) BY <1>1, <1>3 DEF EndRound
  <1>4. CASE CopyLists(p) BY <1>1, <1>4 DEF CopyLists
  <1>5. CASE ClearPredefinedMacros(p) BY <1>1, <1>5 DEF ClearPredefinedMacros
  <1>6. CASE EndBatch(p) BY <1>1, <1>6 DEF EndBatch
  <1>7. ASSUME NEW g \in Files, Parse(p, g) PROVE Stranded(p, f)
    <2>1. at[p] = "parse" BY <1>7 DEF Parse
    <2>2. CASE CanParse(p, g)
      <3>1. AddTask(p, g) /\ ReservedTo(p, g, "fpsAssigned")
        BY <1>7, <2>2 DEF Parse, ReserveFileForParsing, ReservedTo
      <3>2. /\ \A i \in DOMAIN queue[p] : i \in DOMAIN queue'[p] /\ queue'[p][i] = queue[p][i]
            /\ \E i \in DOMAIN queue'[p] : queue'[p][i] = g
        BY <3>1, AddTaskQueues
      <3>3. f # g BY <3>2 DEF Stranded
      <3>4. m_FileStatusMap'[p][f] = m_FileStatusMap[p][f] BY <3>1, <3>3 DEF ReservedTo, TypeOK
      <3> QED BY <2>1, <3>2, <3>4 DEF Stranded
    <2>3. CASE ~CanParse(p, g) BY <1>1, <1>7, <2>1, <2>3 DEF Parse
    <2> QED BY <2>2, <2>3
  <1>8. ASSUME NEW g \in Files, Include(p, g) PROVE Stranded(p, f)
    <2>1. /\ at[p] = "body" /\ at'[p] = "open" /\ UNCHANGED queue /\ ReservedTo(p, g, "fpsAssigned")
          /\ stack'[p] = Append(stack[p], g)
      BY <1>8 DEF Include, ReserveFileForParsing, ReservedTo, Set, TypeOK
    <2>2. Top(p)' = g
      <3> DEFINE s == stack[p]
      <3>1. s \in Seq(Files) BY DEF TypeOK
      <3> HIDE DEF s
      <3>2. Append(s, g)[Len(Append(s, g))] = g BY <3>1, AppendProperties
      <3> QED BY <2>1, <3>2 DEF Top, s
    <2>3. f # g BY <2>1, <2>2 DEF Stranded
    <2>4. m_FileStatusMap'[p][f] = m_FileStatusMap[p][f] BY <2>1, <2>3 DEF ReservedTo, TypeOK
    <2> QED BY <2>1, <2>4 DEF Stranded
  <1>9. CASE MarkFilesAsLocal(p) BY <1>1, <1>9 DEF MarkFilesAsLocal
  <1>10. CASE OpenFile(p)
    <2>1. stack[p] # <<>> /\ at[p] = "open" /\ UNCHANGED queue BY <1>0, <1>10 DEF OpenFile, PlaceAt
    <2>2. Top(p) \in Files BY <2>1, StackFacts
    <2>3. CASE CanReserve(p, Top(p), FALSE)
      <3>1. ReservedTo(p, Top(p), "fpsBeingParsed")
        BY <1>10, <2>3 DEF OpenFile, ReserveFileForParsing, ReservedTo
      <3>2. f # Top(p) BY <2>2, <3>1 DEF ReservedTo, TypeOK, Stranded
      <3>3. m_FileStatusMap'[p][f] = m_FileStatusMap[p][f] BY <2>2, <3>1, <3>2 DEF ReservedTo, TypeOK
      <3> QED BY <2>1, <3>2, <3>3 DEF Stranded
    <2>4. CASE ~CanReserve(p, Top(p), FALSE)
      <3>1. m_FileStatusMap[p][Top(p)] # "fpsAssigned" BY <2>4 DEF CanReserve
      <3>2. Leave(p) /\ m_FileStatusMap' = m_FileStatusMap BY <1>10, <2>4 DEF OpenFile
      <3> QED BY <2>1, <3>1, <3>2, StrandedByLeave
    <2> QED BY <2>3, <2>4
  <1>11. CASE OpenFails(p) BY <1>0, <1>11 DEF OpenFails
  <1>12. CASE CloseFile(p)
    <2>1. /\ at[p] = "body" /\ Leave(p) /\ UNCHANGED queue /\ ReservedTo(p, Top(p), "fpsDone")
      BY <1>12 DEF CloseFile, ReservedTo
    <2> QED BY <2>1, StrandedByLeave
  <1> QED BY <1>2, <1>3, <1>4, <1>5, <1>6, <1>7, <1>8, <1>9, <1>10, <1>11, <1>12 DEF Thread

LEMMA StrandedStep ==
    ASSUME TypeOK, PlaceInv, BatchesInv, NoStrandedFile, NEW p \in Parsers, Step(p)
    PROVE  NoStrandedFile'
  <1>1. alive' \subseteq alive /\ alive \subseteq Parsers /\ failures' >= failures /\ failures \in Nat
    BY LifeStep DEF TypeOK
  <1> SUFFICES ASSUME failures' = 0, NEW q \in alive', NEW f \in Files, Stranded(q, f)' PROVE FALSE
    BY DEF NoStrandedFile, Stranded
  <1>2. failures = 0 /\ q \in alive /\ q \in Parsers BY <1>1
  <1>3. ~Stranded(q, f) BY <1>2 DEF NoStrandedFile, Stranded
  <1>4. CASE q # p BY <1>2, <1>3, <1>4, Elsewhere DEF Step, Untouched, Stranded, Top
  <1>5. CASE q = p /\ Ask(p) BY <1>3, <1>5, CallsHaveEffect DEF CallEffect, Stranded, Top
  <1>6. CASE q = p /\ Handle(p)
    <2>1. HandlerEffect(p) BY <1>6, HandlersHaveEffect
    <2>2. ASSUME NEW task \in {Batch, Local}, AddTask(p, task) PROVE Stranded(p, f)
      BY <1>6, <2>1, <2>2, AddTaskQueues DEF HandlerEffect, Stranded, Top
    <2>3. CASE UNCHANGED queue BY <1>3, <1>6, <2>1, <2>3 DEF HandlerEffect, Stranded, Top
    <2> QED BY <1>2, <1>3, <1>6, <2>1, <2>2, <2>3 DEF HandlerEffect
  <1>7. CASE q = p /\ Thread(p) BY <1>3, <1>7, StrandedByThread
  <1> QED BY <1>4, <1>5, <1>6, <1>7 DEF Step

-----------------------------------------------------------------------------
LEMMA OnlyEndParsingEnds ==
    ASSUME TypeOK, BatchesInv, NEW q \in Parsers, Step(q), NEW p \in Parsers, m_IsParsing[p], ~m_IsParsing'[p]
    PROVE  EndParsing(p)
  <1>1. q = p BY Elsewhere DEF Step, Untouched
  <1>2. CASE Ask(p) BY <1>2, CallsHaveEffect DEF CallEffect
  <1> USE DEF listVars, flagVars, guiVars, restVars
  <1>3. CASE Handle(p)
    BY <1>3 DEF Handle, OnAllThreadsDone, IgnoreAllDone, NextBatch, MarkLocal, OnBatchTimer,
                ReparseModifiedFiles, Deleted
  <1>4. CASE Thread(p)
    <2>1. CASE EndBatch(p) BY <2>1 DEF EndBatch, TypeOK
    <2> QED BY <1>4, <2>1 DEF Thread, BeginRound, EndRound, CopyLists, ClearPredefinedMacros, Parse,
                              Include, MarkFilesAsLocal, OpenFile, OpenFails, CloseFile
  <1> QED BY <1>1, <1>2, <1>3, <1>4 DEF Step

LEMMA ScheduleInit == Init => ScheduleInv
  <1> SUFFICES ASSUME Init PROVE ScheduleInv
    OBVIOUS
  <1>1. <<>> \in Seq(Files) /\ <<>> \in Seq(Files \cup {Batch, Local}) OBVIOUS
  <1>2. TypeOK
    <2>1. calls \in [number : 0..MaxCalls, midway : SUBSET Upsetting] /\ failures \in 0..MaxFailures
      BY ParserAssumption DEF Init
    <2> QED BY <1>1, <2>1, ParserAssumption DEF Init, TypeOK, States, Status, Labels
  <1>3. PlaceInv BY DEF Init, PlaceInv, PlaceAt
  <1>4. QueueIsServed BY DEF Init, QueueIsServed
  <1>5. BatchesInv
    <2>1. \A p \in Parsers : BatchInv(p) BY DEF Init, BatchInv, Executing
    <2> QED BY <2>1, ParserAssumption DEF Init, BatchesInv
  <1>6. GoingInv BY DEF Init, GoingInv, GoingAt, Executing
  <1>7. FilesInv
    <2>1. \A p \in Parsers : DOMAIN stack[p] = {} BY DEF Init
    <2> QED BY <2>1 DEF FilesInv, FilesAt
  <1>8. NoStrandedFile BY DEF Init, NoStrandedFile
  <1> QED BY <1>2, <1>3, <1>4, <1>5, <1>6, <1>7, <1>8 DEF ScheduleInv

LEMMA ScheduleStep == ScheduleInv /\ [Next]_vars => ScheduleInv'
  <1> SUFFICES ASSUME ScheduleInv, [Next]_vars PROVE ScheduleInv'
    OBVIOUS
  <1>0. /\ TypeOK /\ PlaceInv /\ QueueIsServed /\ BatchesInv /\ GoingInv /\ FilesInv /\ NoStrandedFile
    BY DEF ScheduleInv
  <1>1. ASSUME NEW p \in Parsers, Step(p) PROVE ScheduleInv'
    <2>1. TypeOK' BY <1>0, <1>1, TypeOfCalls, TypeOfHandlers, TypeOfThread DEF Step
    <2>2. PlaceInv' BY <1>0, <1>1, PlaceStep
    <2>3. QueueIsServed' BY <1>0, <1>1, ServedStep
    <2>4. BatchesInv' BY <1>0, <1>1, BatchesStep
    <2>5. GoingInv' BY <1>0, <1>1, GoingStep
    <2>6. FilesInv' BY <1>0, <1>1, FilesStep
    <2>7. NoStrandedFile' BY <1>0, <1>1, StrandedStep
    <2> QED BY <2>1, <2>2, <2>3, <2>4, <2>5, <2>6, <2>7 DEF ScheduleInv
  <1>2. CASE UNCHANGED vars
    <2> USE <1>2 DEF vars, listVars, flagVars, stateVars, timerVars, poolVars, taskVars, treeVars, lifeVars
    <2>1. TypeOK' BY <1>0 DEF TypeOK
    <2>2. PlaceInv' /\ QueueIsServed' BY <1>0 DEF PlaceInv, PlaceAt, QueueIsServed
    <2>3. BatchesInv'
      <3>1. \A p \in Parsers : BatchInv(p) <=> BatchInv(p)' BY DEF BatchInv, Executing, MoreToParse
      <3>2. alive \subseteq Parsers BY <1>0 DEF TypeOK
      <3> QED BY <1>0, <3>1, <3>2 DEF BatchesInv
    <2>4. GoingInv' BY <1>0 DEF GoingInv, GoingAt, Executing, MoreToParse
    <2>5. FilesInv' BY <1>0 DEF FilesInv, FilesAt
    <2>6. NoStrandedFile' BY <1>0 DEF NoStrandedFile, Top
    <2> QED BY <2>1, <2>2, <2>3, <2>4, <2>5, <2>6 DEF ScheduleInv
  <1> QED BY <1>1, <1>2 DEF Next, Step

LEMMA Schedule == Spec => []ScheduleInv
  <1> QED BY ScheduleInit, ScheduleStep, PTL DEF Spec

-----------------------------------------------------------------------------
(* The type invariant, and that a task in a queue is always on its way to the
   thread: the post that an idle thread waits for is never lost.              *)
THEOREM QueuesAreServed == Spec => []ParserInv
  <1>1. ScheduleInv => ParserInv BY DEF ScheduleInv, ParserInv
  <1> QED BY <1>1, Schedule, PTL

(* Whatever is in a parser's pool, its events and its batch belong to the parser
   s_CurrentParser points to: of any number of parsers one parses at a time.  *)
THEOREM OneParserParses == Spec => []CurrentOwnsTheWork
  <1>1. ScheduleInv => CurrentOwnsTheWork
    <2> SUFFICES ASSUME ScheduleInv, "AddPredefinedMacros" \notin calls.midway, NEW p \in alive,
                        InFlight(p) \/ m_IsParsing[p]
                 PROVE  s_CurrentParser = p
      BY DEF CurrentOwnsTheWork
    <2>1. BatchInv(p) BY DEF ScheduleInv, BatchesInv
    <2> QED BY <2>1 DEF BatchInv, InFlight
  <1> QED BY <1>1, Schedule, PTL

(* The one event that can end a batch is never dropped by OnAllThreadsDone.   *)
THEOREM AllDoneIsHeard == Spec => []EventsAreHeard
  <1>1. ScheduleInv => EventsAreHeard
    <2> SUFFICES ASSUME ScheduleInv, "AddPredefinedMacros" \notin calls.midway, NEW p \in alive,
                        allDone[p] > 0
                 PROVE  allDone[p] = 1 /\ ~Unheard(p)
      BY DEF EventsAreHeard
    <2>1. BatchInv(p) BY DEF ScheduleInv, BatchesInv
    <2> QED BY <2>1 DEF BatchInv, Unheard
  <1> QED BY <1>1, Schedule, PTL

(* No cycle of includes enters a file twice, and no reservation is left behind. *)
THEOREM FilesAreReservedForATask == Spec => []ReservationsHold
  <1>1. ScheduleInv => ReservationsHold
    BY DEF ScheduleInv, ReservationsHold, FilesInv, FilesAt, NoFileInItself
  <1> QED BY <1>1, Schedule, PTL

(* At whatever moment calls are made, a batch that is under way loses what it would go
   on with only to a call that stops the timer: no worker, no event, no other parser
   and no timer takes it.                                                    *)
THEOREM BatchesGoOn == Spec => StallsOnlyByAddition
  <1> DEFINE A == \A p \in alive' : GoesOn(p) /\ ~GoesOn(p)' => calls' # calls /\ m_BatchTimer[p]
  <1>1. ScheduleInv /\ [Next]_vars => [A]_vars
    <2> SUFFICES ASSUME ScheduleInv, Next PROVE A
      OBVIOUS
    <2>1. PICK p \in Parsers : Step(p) BY DEF Next, Step
    <2> QED BY <2>1, GoingStep DEF ScheduleInv
  <1> QED BY <1>1, Schedule, PTL DEF Spec, StallsOnlyByAddition

(* idParserEnd finds the pool empty, its thread idle, no event and no list.    *)
THEOREM ParserEndIsLast == Spec => EndIsLast
  <1> DEFINE A == \A p \in Parsers : m_IsParsing[p] /\ ~m_IsParsing'[p]
                          /\ "AddPredefinedMacros" \notin calls.midway =>
           ~InFlight(p)' /\ m_BatchParseFiles[p] = {} /\ m_PredefinedMacros[p] = {}
  <1>1. ScheduleInv /\ [Next]_vars => [A]_vars
    <2> SUFFICES ASSUME ScheduleInv, Next,
                        NEW p \in Parsers, m_IsParsing[p], ~m_IsParsing'[p],
                        "AddPredefinedMacros" \notin calls.midway
                 PROVE  ~InFlight(p)' /\ m_BatchParseFiles[p] = {} /\ m_PredefinedMacros[p] = {}
      OBVIOUS
    <2>0. TypeOK /\ BatchesInv BY DEF ScheduleInv
    <2>1. PICK q \in Parsers : Step(q) BY DEF Next, Step
    <2>2. EndParsing(p) BY <2>0, <2>1, OnlyEndParsingEnds
    <2>3. p \in alive /\ allDone[p] > 0 BY <2>2 DEF EndParsing, TakeAllDone, GUI
    <2>4. BatchInv(p) BY <2>0, <2>3 DEF BatchesInv
    <2>5. allDone'[p] = 0 /\ UNCHANGED <<queue, at, taskAdded>>
      BY <2>0, <2>2, <2>3, <2>4 DEF EndParsing, TakeAllDone, BatchInv, TypeOK, poolVars, taskVars
    <2> QED BY <2>2, <2>3, <2>4, <2>5 DEF EndParsing, MoreToParse, BatchInv, InFlight, Executing
  <1> QED BY <1>1, Schedule, PTL DEF Spec, EndIsLast
=============================================================================
