--------------------------- MODULE ParserSchedule ---------------------------
(* The scheduling of the code-completion parsers: Parser and ParserThreadedTask in
   src/plugins/codecompletion/parser. Every Parser owns a pool of one thread
   (ThreadPool shows what a pool does; here it is its queue, its semaphore and its
   working count), two one-shot timers and a token tree; all of them share
   s_CurrentParser, which lets one parser run a batch at a time.

   A handler of the GUI thread is one step: it changes the shared lists and flags
   in one critical section of s_ParserMutex. The worker's task is split wherever it
   leaves a critical section. Shutting the application down is not modelled.  *)
EXTENDS Integers, Sequences, FiniteSets

CONSTANTS
    Parsers, NoParser,      \* the Parser objects, and the null pointer
    Files, Defs,            \* file names; pieces of predefined macro definitions
    Projects, NoProject,    \* the cbProject objects, and the null pointer
    Includes,               \* the files every file includes
    Batch, Local,           \* ParserThreadedTask and MarkFileAsLocalThreadedTask;
                            \* the ParserThread of a file is the file itself
    Calls,                  \* the calls NativeParser makes in this instance
    CallsWhenIdle,          \* does it make them (but Delete) only while the parser rests?
    MaxCalls,               \* bound: calls made in a behaviour
    MaxFailures             \* bound: files found unreadable in a behaviour

AllCalls == {"AddFile", "AddBatchParse", "AddPredefinedMacros", "Reparse",
             "RemoveFile", "UpdateParsingProject", "Delete"}

ASSUME ParserAssumption ==
    /\ NoParser \notin Parsers /\ NoProject \notin Projects
    /\ Batch # Local /\ {Batch, Local} \cap Files = {}
    /\ Includes \in [Files -> SUBSET Files]
    /\ Calls \subseteq AllCalls /\ CallsWhenIdle \in BOOLEAN
    /\ MaxCalls \in Nat /\ MaxFailures \in Nat

VARIABLES
    s_CurrentParser,
    m_BatchParseFiles, m_PredefinedMacros,   \* as sets: a second copy of a file is refused
    m_IsParsing, m_IgnoreThreadEvents, m_NeedsReparse, m_NeedMarkFileAsLocal,
    m_ParserState, m_Project,
    m_BatchTimer, m_ReparseTimer,            \* is the timer running?
    queue, taskAdded, credit, working,       \* m_Pool
    allDone,                                 \* ALLDONE events waiting for the GUI thread
    at, batchFiles, preDefs, stack,          \* the pool's thread and its locals
    m_FileStatusMap, m_FileMap, m_FilesToBeReparsed,   \* the token tree
    alive, deleting,                         \* live parsers; the one in its destructor
    calls, failures                          \* what the bounds count, see Call

listVars  == <<m_BatchParseFiles, m_PredefinedMacros>>
flagVars  == <<m_IsParsing, m_IgnoreThreadEvents>>
stateVars == <<m_NeedsReparse, m_NeedMarkFileAsLocal, m_ParserState, m_Project>>
timerVars == <<m_BatchTimer, m_ReparseTimer>>
poolVars  == <<queue, taskAdded, credit, working>>
taskVars  == <<at, batchFiles, preDefs, stack>>
treeVars  == <<m_FileStatusMap, m_FileMap, m_FilesToBeReparsed>>
lifeVars  == <<alive, deleting>>
vars == <<s_CurrentParser, listVars, flagVars, stateVars, timerVars, poolVars, allDone,
          taskVars, treeVars, lifeVars, calls, failures>>

States == {"ptCreateParser", "ptUndefined", "ptReparseFile", "ptAddFileToParser"}
Status == {"fpsNotParsed", "fpsAssigned", "fpsBeingParsed", "fpsDone"}
Labels == {"wait", "copy", "macros", "parse", "local", "open", "body", "done"}

Set(f, p, v) == [f EXCEPT ![p] = v]
Top(p) == stack[p][Len(stack[p])]
Popped(p) == SubSeq(stack[p], 1, Len(stack[p]) - 1)
Executing(p) == at[p] \notin {"wait", "done"}

Init ==
    /\ s_CurrentParser = NoParser
    /\ m_BatchParseFiles = [p \in Parsers |-> {}]
    /\ m_PredefinedMacros = [p \in Parsers |-> {}]
    /\ m_IsParsing = [p \in Parsers |-> FALSE]
    /\ m_IgnoreThreadEvents = [p \in Parsers |-> TRUE]
    /\ m_NeedsReparse = [p \in Parsers |-> FALSE]
    /\ m_NeedMarkFileAsLocal = [p \in Parsers |-> TRUE]
    /\ m_ParserState = [p \in Parsers |-> "ptCreateParser"]
    /\ m_Project \in [Parsers -> Projects \cup {NoProject}]
    /\ m_BatchTimer = [p \in Parsers |-> FALSE]
    /\ m_ReparseTimer = [p \in Parsers |-> FALSE]
    /\ queue = [p \in Parsers |-> <<>>]
    /\ taskAdded = [p \in Parsers |-> FALSE]
    /\ credit = [p \in Parsers |-> 1]       \* the thread's first round needs no post
    /\ working = [p \in Parsers |-> FALSE]
    /\ allDone = [p \in Parsers |-> 0]
    /\ at = [p \in Parsers |-> "wait"]
    /\ batchFiles = [p \in Parsers |-> {}]
    /\ preDefs = [p \in Parsers |-> {}]
    /\ stack = [p \in Parsers |-> <<>>]
    /\ m_FileStatusMap = [p \in Parsers |-> [f \in Files |-> "fpsNotParsed"]]
    /\ m_FileMap = [p \in Parsers |-> {}]
    /\ m_FilesToBeReparsed = [p \in Parsers |-> {}]
    /\ alive = Parsers /\ deleting = NoParser
    /\ calls = [number |-> 0, midway |-> {}] /\ failures = 0

-----------------------------------------------------------------------------
(* What several operations share.                                            *)

PoolDone(p) == ~working[p]

Done(p) ==
    /\ m_BatchParseFiles[p] = {} /\ m_PredefinedMacros[p] = {}
    /\ ~m_NeedMarkFileAsLocal[p]
    /\ PoolDone(p)

(* cbThreadPool::AddTask; an idle thread is woken, by a semaphore that counts to 1. *)
AddTask(p, task) ==
    /\ queue' = [queue EXCEPT ![p] = Append(@, task)]
    /\ taskAdded' = Set(taskAdded, p, TRUE)
    /\ credit' = IF working[p] THEN credit ELSE Set(credit, p, 1)
    /\ UNCHANGED working

(* The tail of AddParse, AddBatchParse and AddPredefinedMacros: a running batch
   timer is stopped, and started again only while no batch is being parsed.  *)
RestartBatchTimer(p) ==
    m_BatchTimer' = Set(m_BatchTimer, p, ~m_IsParsing[p])

AddToBatch(p, files) ==
    /\ m_BatchParseFiles' = [m_BatchParseFiles EXCEPT ![p] = @ \cup files]
    /\ RestartBatchTimer(p)
    /\ UNCHANGED m_PredefinedMacros

(* TokenTree.                                                                *)
TreeHasParsed(p, f) ==
    /\ f \in m_FileMap[p]
    /\ m_FileStatusMap[p][f] # "fpsNotParsed"
    /\ f \notin m_FilesToBeReparsed[p]

Forgets(p, f) ==
    /\ f \in m_FilesToBeReparsed[p]
    /\ m_FileStatusMap[p][f] \in {"fpsNotParsed", "fpsDone"}

CanReserve(p, f, preliminary) ==
    \/ Forgets(p, f)
    \/ m_FileStatusMap[p][f] = "fpsNotParsed"
    \/ ~preliminary /\ m_FileStatusMap[p][f] = "fpsAssigned"

(* A removal leaves an empty entry for the file in the file map.             *)
ReserveFileForParsing(p, f, preliminary) ==
    /\ m_FileMap' = IF Forgets(p, f) THEN [m_FileMap EXCEPT ![p] = @ \cup {f}] ELSE m_FileMap
    /\ m_FilesToBeReparsed' = [m_FilesToBeReparsed EXCEPT ![p] = @ \ {f}]
    /\ m_FileStatusMap' = [m_FileStatusMap EXCEPT
           ![p][f] = IF preliminary THEN "fpsAssigned" ELSE "fpsBeingParsed"]

IsFileParsed(p, f) == TreeHasParsed(p, f) \/ f \in m_BatchParseFiles[p]

CanParse(p, f) == ~TreeHasParsed(p, f) /\ CanReserve(p, f, TRUE)

(* The calls after which, made in the middle of a batch, less can be promised.  *)
Upsetting == {"AddPredefinedMacros", "RemoveFile"}

(* The GUI thread is free, and NativeParser may make this call on the parser. *)
GUI(p) == deleting = NoParser /\ p \in alive
AtRest(p) ==
    /\ ~m_IsParsing[p] /\ queue[p] = <<>> /\ ~Executing(p) /\ allDone[p] = 0
Call(p, name) ==
    /\ GUI(p)
    /\ name \in Calls /\ calls.number < MaxCalls
    /\ CallsWhenIdle => AtRest(p) \/ name = "Delete"
    /\ calls' = [number |-> calls.number + 1,
                 midway |-> calls.midway \cup (IF AtRest(p) THEN {} ELSE {name} \cap Upsetting)]

FromUndefined(p, state) ==
    m_ParserState' = IF m_ParserState[p] = "ptUndefined"
                     THEN Set(m_ParserState, p, state) ELSE m_ParserState

-----------------------------------------------------------------------------
(* The calls NativeParser makes.                                             *)

AddPredefinedMacros(p, d) ==
    /\ Call(p, "AddPredefinedMacros")
    /\ m_PredefinedMacros' = [m_PredefinedMacros EXCEPT ![p] = @ \cup {d}]
    /\ FromUndefined(p, "ptCreateParser")
    /\ RestartBatchTimer(p)
    /\ UNCHANGED <<s_CurrentParser, m_BatchParseFiles, flagVars, m_NeedsReparse,
                   m_NeedMarkFileAsLocal, m_Project, m_ReparseTimer, poolVars, allDone,
                   taskVars, treeVars, lifeVars, failures>>

AddBatchParse(p, filenames) ==
    /\ Call(p, "AddBatchParse")
    /\ AddToBatch(p, filenames)
    /\ FromUndefined(p, "ptCreateParser")
    /\ UNCHANGED <<s_CurrentParser, flagVars, m_NeedsReparse, m_NeedMarkFileAsLocal,
                   m_Project, m_ReparseTimer, poolVars, allDone, taskVars, treeVars,
                   lifeVars, failures>>

(* AddFile(filename, project) with the parser's own project; it does nothing
   for another one, or for a file it regards as parsed.                      *)
AddFile(p, f) ==
    /\ Call(p, "AddFile")
    /\ ~IsFileParsed(p, f)
    /\ AddToBatch(p, {f})
    /\ FromUndefined(p, "ptAddFileToParser")
    /\ m_NeedMarkFileAsLocal' = Set(m_NeedMarkFileAsLocal, p,
           m_Project[p] # NoProject \/ m_NeedMarkFileAsLocal[p])
    /\ UNCHANGED <<s_CurrentParser, flagVars, m_NeedsReparse, m_Project, m_ReparseTimer,
                   poolVars, allDone, taskVars, treeVars, lifeVars, failures>>

RemoveFile(p, f) ==
    /\ Call(p, "RemoveFile")
    /\ m_FileStatusMap' = [m_FileStatusMap EXCEPT ![p][f] = "fpsNotParsed"]
    /\ m_FileMap' = [m_FileMap EXCEPT ![p] = @ \ {f}]
    /\ m_FilesToBeReparsed' = [m_FilesToBeReparsed EXCEPT ![p] = @ \ {f}]
    /\ UNCHANGED <<s_CurrentParser, listVars, flagVars, stateVars, timerVars, poolVars,
                   allDone, taskVars, lifeVars, failures>>

Reparse(p, f) ==
    /\ Call(p, "Reparse")
    /\ Done(p)
    /\ m_FilesToBeReparsed' = [m_FilesToBeReparsed EXCEPT ![p] = @ \cup {f}]
    /\ m_NeedsReparse' = Set(m_NeedsReparse, p, TRUE)
    /\ m_ReparseTimer' = Set(m_ReparseTimer, p, TRUE)
    /\ UNCHANGED <<s_CurrentParser, listVars, flagVars, m_NeedMarkFileAsLocal, m_ParserState,
                   m_Project, m_BatchTimer, poolVars, allDone, taskVars, m_FileStatusMap,
                   m_FileMap, lifeVars, failures>>

UpdateParsingProject(p, project) ==
    /\ Call(p, "UpdateParsingProject")
    /\ m_Project[p] # project /\ Done(p)
    /\ m_Project' = Set(m_Project, p, project)
    /\ UNCHANGED <<s_CurrentParser, listVars, flagVars, m_NeedsReparse, m_NeedMarkFileAsLocal,
                   m_ParserState, timerVars, poolVars, allDone, taskVars, treeVars, lifeVars,
                   failures>>

(* ~Parser: the events are disconnected, the pool is told to abort all tasks ... *)
Delete(p) ==
    /\ Call(p, "Delete")
    /\ deleting' = p
    /\ alive' = alive \ {p}
    /\ queue' = Set(queue, p, <<>>)
    /\ UNCHANGED <<s_CurrentParser, listVars, flagVars, stateVars, timerVars, taskAdded,
                   credit, working, allDone, taskVars, treeVars, failures>>

(* ... and the GUI thread polls m_Pool.Done() before it goes on. Destroying the
   pool drops what is queued and ends the thread (ThreadPool: Destroy).      *)
Deleted(p) ==
    /\ deleting = p /\ PoolDone(p)
    /\ s_CurrentParser' = IF s_CurrentParser = p THEN NoParser ELSE s_CurrentParser
    /\ deleting' = NoParser
    /\ m_BatchTimer' = Set(m_BatchTimer, p, FALSE)
    /\ m_ReparseTimer' = Set(m_ReparseTimer, p, FALSE)
    /\ allDone' = Set(allDone, p, 0)
    /\ queue' = Set(queue, p, <<>>)
    /\ credit' = Set(credit, p, 0)
    /\ UNCHANGED <<listVars, flagVars, stateVars, taskAdded, working, taskVars, treeVars,
                   alive, calls, failures>>

-----------------------------------------------------------------------------
(* Handlers of timers and of the pool's event.                               *)

(* While another parser is current the timer is armed again: nothing changes. *)
FaultOnBatchTimer(p) ==
    /\ GUI(p) /\ m_BatchTimer[p]
    /\ m_BatchTimer' = Set(m_BatchTimer, p, FALSE)
    /\ IF m_BatchParseFiles[p] = {} /\ m_PredefinedMacros[p] = {}
       THEN UNCHANGED <<s_CurrentParser, poolVars>>
       ELSE AddTask(p, Batch) /\ s_CurrentParser' = p
    /\ UNCHANGED <<listVars, flagVars, stateVars, m_ReparseTimer, allDone, taskVars,
                   treeVars, lifeVars, calls, failures>>
OnBatchTimer(p) ==
    /\ GUI(p) /\ m_BatchTimer[p]
    /\ s_CurrentParser \in {NoParser, p}
    /\ m_BatchTimer' = Set(m_BatchTimer, p, FALSE)
    /\ IF m_BatchParseFiles[p] = {} /\ m_PredefinedMacros[p] = {}
       THEN UNCHANGED <<s_CurrentParser, poolVars>>
       ELSE AddTask(p, Batch) /\ s_CurrentParser' = p
    /\ UNCHANGED <<listVars, flagVars, stateVars, m_ReparseTimer, allDone, taskVars,
                   treeVars, lifeVars, calls, failures>>

(* OnReparseTimer: while the parser is not done the timer is armed again.    *)
ReparseModifiedFiles(p) ==
    LET files == m_FilesToBeReparsed[p]
    IN  /\ GUI(p) /\ m_ReparseTimer[p] /\ Done(p)
        /\ m_ReparseTimer' = Set(m_ReparseTimer, p, FALSE)
        /\ m_FileMap' = [m_FileMap EXCEPT ![p] = @ \cup files]
        /\ m_NeedsReparse' = Set(m_NeedsReparse, p,
               files # {} /\ m_ParserState[p] = "ptUndefined")
        /\ IF files = {} THEN UNCHANGED <<listVars, m_BatchTimer, m_ParserState>>
           ELSE AddToBatch(p, files) /\ FromUndefined(p, "ptReparseFile")
        /\ UNCHANGED <<s_CurrentParser, flagVars, m_NeedMarkFileAsLocal, m_Project, poolVars,
                       allDone, taskVars, m_FileStatusMap, m_FilesToBeReparsed, lifeVars,
                       calls, failures>>

FaultMoreToParse(p) == m_PredefinedMacros[p] # {}
MoreToParse(p) == m_BatchParseFiles[p] # {} \/ m_PredefinedMacros[p] # {}
MarksLocal(p) ==
    /\ m_ParserState[p] \in {"ptCreateParser", "ptAddFileToParser"}
    /\ m_NeedMarkFileAsLocal[p] /\ m_Project[p] # NoProject

TakeAllDone(p) == GUI(p) /\ allDone[p] > 0 /\ allDone' = [allDone EXCEPT ![p] = @ - 1]
Unheard(p) == m_IgnoreThreadEvents[p] \/ ~m_IsParsing[p]

(* OnAllThreadsDone, by its branches: the event is not for a batch; ...      *)
IgnoreAllDone(p) ==
    /\ TakeAllDone(p) /\ Unheard(p)
    /\ UNCHANGED <<s_CurrentParser, listVars, flagVars, stateVars, timerVars, poolVars,
                   taskVars, treeVars, lifeVars, calls, failures>>

(* ... there is more to parse; ...                                           *)
NextBatch(p) ==
    /\ TakeAllDone(p) /\ ~Unheard(p) /\ MoreToParse(p)
    /\ m_BatchTimer' = Set(m_BatchTimer, p, TRUE)
    /\ UNCHANGED <<s_CurrentParser, listVars, flagVars, stateVars, m_ReparseTimer, poolVars,
                   taskVars, treeVars, lifeVars, calls, failures>>

(* ... the project's files are to be marked as local; ...                    *)
FaultMarkLocal(p) ==
    /\ TakeAllDone(p) /\ ~Unheard(p) /\ ~MoreToParse(p) /\ MarksLocal(p)
    /\ m_NeedMarkFileAsLocal' = Set(m_NeedMarkFileAsLocal, p, FALSE)
    /\ UNCHANGED <<s_CurrentParser, listVars, flagVars, m_NeedsReparse, m_ParserState,
                   m_Project, timerVars, poolVars, taskVars, treeVars, lifeVars, calls, failures>>
MarkLocal(p) ==
    /\ TakeAllDone(p) /\ ~Unheard(p) /\ ~MoreToParse(p) /\ MarksLocal(p)
    /\ m_NeedMarkFileAsLocal' = Set(m_NeedMarkFileAsLocal, p, FALSE)
    /\ AddTask(p, Local)
    /\ UNCHANGED <<s_CurrentParser, listVars, flagVars, m_NeedsReparse, m_ParserState,
                   m_Project, timerVars, taskVars, treeVars, lifeVars, calls, failures>>

(* ... all stages are over: idParserEnd is sent.                             *)
FaultEndParsing(p) ==
    /\ TakeAllDone(p) /\ ~Unheard(p) /\ ~MoreToParse(p) /\ ~MarksLocal(p)
    /\ m_NeedMarkFileAsLocal' = [m_NeedMarkFileAsLocal EXCEPT ![p] = @ /\ m_Project[p] # NoProject]
    /\ m_IgnoreThreadEvents' = Set(m_IgnoreThreadEvents, p, TRUE)
    /\ m_NeedsReparse' = Set(m_NeedsReparse, p, FALSE)
    /\ m_IsParsing' = Set(m_IsParsing, p, FALSE)
    /\ m_ParserState' = Set(m_ParserState, p, "ptUndefined")
    /\ UNCHANGED <<s_CurrentParser, listVars, m_Project, timerVars, poolVars, taskVars, treeVars,
                   lifeVars, calls, failures>>
EndParsing(p) ==
    /\ TakeAllDone(p) /\ ~Unheard(p) /\ ~MoreToParse(p) /\ ~MarksLocal(p)
    /\ m_NeedMarkFileAsLocal' = [m_NeedMarkFileAsLocal EXCEPT ![p] = @ /\ m_Project[p] # NoProject]
    /\ m_IgnoreThreadEvents' = Set(m_IgnoreThreadEvents, p, TRUE)
    /\ m_NeedsReparse' = Set(m_NeedsReparse, p, FALSE)
    /\ m_IsParsing' = Set(m_IsParsing, p, FALSE)
    /\ m_ParserState' = Set(m_ParserState, p, "ptUndefined")
    /\ s_CurrentParser' = NoParser
    /\ UNCHANGED <<listVars, m_Project, timerVars, poolVars, taskVars, treeVars, lifeVars,
                   calls, failures>>

-----------------------------------------------------------------------------
(* The pool's thread. A deleted parser's thread has no credit left.          *)

guiVars == <<s_CurrentParser, stateVars, timerVars, lifeVars, calls>>
restVars == <<guiVars, listVars, flagVars, poolVars, allDone>>

(* The thread is counted as working and takes the first task, if there is one. *)
BeginRound(p) ==
    /\ at[p] = "wait" /\ credit[p] > 0
    /\ credit' = Set(credit, p, 0)
    /\ working' = Set(working, p, TRUE)
    /\ IF queue[p] = <<>> THEN at' = Set(at, p, "done") /\ UNCHANGED <<queue, stack>>
       ELSE LET task == Head(queue[p])
            IN  /\ queue' = [queue EXCEPT ![p] = Tail(@)]
                /\ at' = Set(at, p, IF task = Batch THEN "copy"
                                    ELSE IF task = Local THEN "local" ELSE "open")
                /\ stack' = Set(stack, p, IF task \in Files THEN <<task>> ELSE <<>>)
    /\ UNCHANGED <<guiVars, listVars, flagVars, taskAdded, allDone, batchFiles, preDefs,
                   treeVars, failures>>

(* The task is over: WaitingThread.                                          *)
FaultAnnounces(p) == TRUE
Announces(p) == queue[p] = <<>>
EndRound(p) ==
    /\ at[p] = "done"
    /\ at' = Set(at, p, "wait")
    /\ working' = Set(working, p, FALSE)
    /\ IF Announces(p)
       THEN /\ allDone' = [allDone EXCEPT ![p] = @ + (IF taskAdded[p] THEN 1 ELSE 0)]
            /\ taskAdded' = Set(taskAdded, p, FALSE)
            /\ UNCHANGED credit
       ELSE credit' = Set(credit, p, 1) /\ UNCHANGED <<allDone, taskAdded>>
    /\ UNCHANGED <<guiVars, listVars, flagVars, queue, batchFiles, preDefs, stack,
                   treeVars, failures>>

(* ParserThreadedTask::Execute.                                              *)
FaultCopyLists(p) ==
    /\ at[p] = "copy" /\ at' = Set(at, p, "macros")
    /\ deleting # p
    /\ batchFiles' = Set(batchFiles, p, m_BatchParseFiles[p])
    /\ preDefs' = Set(preDefs, p, m_PredefinedMacros[p])
    /\ UNCHANGED <<restVars, stack, treeVars, failures>>
CopyLists(p) ==
    /\ at[p] = "copy" /\ at' = Set(at, p, "macros")
    /\ batchFiles' = Set(batchFiles, p, m_BatchParseFiles[p])
    /\ preDefs' = Set(preDefs, p, m_PredefinedMacros[p])
    /\ UNCHANGED <<restVars, stack, treeVars, failures>>

ClearPredefinedMacros(p) ==
    /\ at[p] = "macros" /\ at' = Set(at, p, "parse")
    /\ m_PredefinedMacros' = Set(m_PredefinedMacros, p, {})
    /\ UNCHANGED <<guiVars, m_BatchParseFiles, flagVars, poolVars, allDone, batchFiles,
                   preDefs, stack, treeVars, failures>>

FaultParse(p, f) ==
    /\ at[p] = "parse" /\ f \in batchFiles[p]
    /\ batchFiles' = [batchFiles EXCEPT ![p] = @ \ {f}]
    /\ IF CanParse(p, f)
       THEN ReserveFileForParsing(p, f, TRUE)
       ELSE UNCHANGED treeVars
    /\ UNCHANGED <<guiVars, listVars, flagVars, poolVars, allDone, at, preDefs, stack,
                   failures>>
Parse(p, f) ==
    /\ at[p] = "parse" /\ f \in batchFiles[p]
    /\ batchFiles' = [batchFiles EXCEPT ![p] = @ \ {f}]
    /\ IF CanParse(p, f)
       THEN ReserveFileForParsing(p, f, TRUE) /\ AddTask(p, f)
       ELSE UNCHANGED <<treeVars, poolVars>>
    /\ UNCHANGED <<guiVars, listVars, flagVars, allDone, at, preDefs, stack, failures>>

FaultEndBatch(p) ==
    /\ at[p] = "parse" /\ batchFiles[p] = {} /\ at' = Set(at, p, "done")
    /\ m_BatchParseFiles' = Set(m_BatchParseFiles, p, {})
    /\ m_IsParsing' = Set(m_IsParsing, p, TRUE)
    /\ UNCHANGED <<guiVars, m_PredefinedMacros, m_IgnoreThreadEvents, poolVars, allDone,
                   batchFiles, preDefs, stack, treeVars, failures>>
EndBatch(p) ==
    /\ at[p] = "parse" /\ batchFiles[p] = {} /\ at' = Set(at, p, "done")
    /\ m_BatchParseFiles' = Set(m_BatchParseFiles, p, {})
    /\ m_IgnoreThreadEvents' = Set(m_IgnoreThreadEvents, p, FALSE)
    /\ m_IsParsing' = [m_IsParsing EXCEPT ![p] = @ \/ m_IgnoreThreadEvents[p]]
    /\ UNCHANGED <<guiVars, m_PredefinedMacros, poolVars, allDone, batchFiles, preDefs,
                   stack, treeVars, failures>>

(* MarkFileAsLocalThreadedTask::Execute looks every file of the project up in the
   file map, which makes an entry for it.                                    *)
MarkFilesAsLocal(p) ==
    /\ at[p] = "local" /\ at' = Set(at, p, "done")
    /\ m_FileMap' = Set(m_FileMap, p, Files)
    /\ UNCHANGED <<restVars, batchFiles, preDefs, stack, m_FileStatusMap,
                   m_FilesToBeReparsed, failures>>

(* ParserThread::Parse of the innermost file, and what follows its end.      *)
Leave(p) ==
    /\ stack' = Set(stack, p, Popped(p))
    /\ at' = Set(at, p, IF Len(stack[p]) = 1 THEN "done" ELSE "body")

OpenFile(p) ==
    /\ at[p] = "open"
    /\ IF CanReserve(p, Top(p), FALSE)
       THEN /\ ReserveFileForParsing(p, Top(p), FALSE)
            /\ at' = Set(at, p, "body") /\ UNCHANGED stack
       ELSE Leave(p) /\ UNCHANGED treeVars
    /\ UNCHANGED <<restVars, batchFiles, preDefs, failures>>

(* InitTokenizer fails: the file cannot be opened.                           *)
OpenFails(p) ==
    /\ at[p] = "open" /\ failures < MaxFailures
    /\ failures' = failures + 1
    /\ Leave(p)
    /\ UNCHANGED <<restVars, batchFiles, preDefs, treeVars>>

(* Parse(filename, isLocal, locked = TRUE): the tree's lock is given up between the
   reservation of the included file and the parsing of it.                   *)
Include(p, f) ==
    /\ at[p] = "body" /\ f \in Includes[Top(p)]
    /\ CanParse(p, f)
    /\ ReserveFileForParsing(p, f, TRUE)
    /\ stack' = [stack EXCEPT ![p] = Append(@, f)]
    /\ at' = Set(at, p, "open")
    /\ UNCHANGED <<restVars, batchFiles, preDefs, failures>>

FaultCloseFile(p) ==
    /\ at[p] = "body"
    /\ m_FileMap' = [m_FileMap EXCEPT ![p] = @ \cup {Top(p)}]
    /\ Leave(p)
    /\ UNCHANGED <<restVars, batchFiles, preDefs, m_FileStatusMap, m_FilesToBeReparsed, failures>>
CloseFile(p) ==
    /\ at[p] = "body"
    /\ m_FileStatusMap' = [m_FileStatusMap EXCEPT ![p][Top(p)] = "fpsDone"]
    /\ m_FileMap' = [m_FileMap EXCEPT ![p] = @ \cup {Top(p)}]
    /\ Leave(p)
    /\ UNCHANGED <<restVars, batchFiles, preDefs, m_FilesToBeReparsed, failures>>

-----------------------------------------------------------------------------
Thread(p) ==
    \/ BeginRound(p) \/ EndRound(p)
    \/ CopyLists(p) \/ ClearPredefinedMacros(p) \/ EndBatch(p)
    \/ \E f \in Files : Parse(p, f) \/ Include(p, f)
    \/ MarkFilesAsLocal(p) \/ OpenFile(p) \/ OpenFails(p) \/ CloseFile(p)

OnAllThreadsDone(p) == IgnoreAllDone(p) \/ NextBatch(p) \/ MarkLocal(p) \/ EndParsing(p)

Handle(p) == OnAllThreadsDone(p) \/ OnBatchTimer(p) \/ ReparseModifiedFiles(p) \/ Deleted(p)

Ask(p) ==
    \/ \E d \in Defs : AddPredefinedMacros(p, d)
    \/ \E files \in SUBSET Files \ {{}} : AddBatchParse(p, files)
    \/ \E f \in Files : AddFile(p, f) \/ RemoveFile(p, f) \/ Reparse(p, f)
    \/ \E project \in Projects \cup {NoProject} : UpdateParsingProject(p, project)
    \/ Delete(p)

Next == \E p \in Parsers : Ask(p) \/ Handle(p) \/ Thread(p)

Spec == Init /\ [][Next]_vars

(* The operating system runs the threads, the event loop delivers timers and
   events; nobody has to call anything.                                      *)
Fairness ==
    \A p \in Parsers :
        /\ WF_vars(Thread(p)) /\ WF_vars(OnAllThreadsDone(p)) /\ WF_vars(Deleted(p))
        /\ SF_vars(OnBatchTimer(p)) /\ SF_vars(ReparseModifiedFiles(p))
FairSpec == Spec /\ Fairness

-----------------------------------------------------------------------------
(* Safety.                                                                   *)

TypeOK ==
    /\ s_CurrentParser \in Parsers \cup {NoParser}
    /\ m_BatchParseFiles \in [Parsers -> SUBSET Files]
    /\ m_PredefinedMacros \in [Parsers -> SUBSET Defs]
    /\ m_IsParsing \in [Parsers -> BOOLEAN] /\ m_IgnoreThreadEvents \in [Parsers -> BOOLEAN]
    /\ m_NeedsReparse \in [Parsers -> BOOLEAN]
    /\ m_NeedMarkFileAsLocal \in [Parsers -> BOOLEAN]
    /\ m_ParserState \in [Parsers -> States]
    /\ m_Project \in [Parsers -> Projects \cup {NoProject}]
    /\ m_BatchTimer \in [Parsers -> BOOLEAN] /\ m_ReparseTimer \in [Parsers -> BOOLEAN]
    /\ queue \in [Parsers -> Seq(Files \cup {Batch, Local})]
    /\ taskAdded \in [Parsers -> BOOLEAN] /\ working \in [Parsers -> BOOLEAN]
    /\ credit \in [Parsers -> {0, 1}] /\ allDone \in [Parsers -> Nat]
    /\ at \in [Parsers -> Labels]
    /\ batchFiles \in [Parsers -> SUBSET Files] /\ preDefs \in [Parsers -> SUBSET Defs]
    /\ stack \in [Parsers -> Seq(Files)]
    /\ m_FileStatusMap \in [Parsers -> [Files -> Status]]
    /\ m_FileMap \in [Parsers -> SUBSET Files]
    /\ m_FilesToBeReparsed \in [Parsers -> SUBSET Files]
    /\ alive \in SUBSET Parsers /\ deleting \in Parsers \cup {NoParser}
    /\ calls \in [number : 0..MaxCalls, midway : SUBSET Upsetting]
    /\ failures \in 0..MaxFailures

(* The pool has been given work whose ALLDONE event is still to be handled.  *)
InFlight(p) == queue[p] # <<>> \/ Executing(p) \/ taskAdded[p] \/ allDone[p] > 0

(* A parser that has work in its pool, an event of it to handle, or a batch under
   way is the current one: no two parsers parse at a time (OnBatchTimer's check),
   although the claim, the work and the release are on different threads.    *)
CurrentOwnsTheWork ==
    "AddPredefinedMacros" \notin calls.midway => \A p \in alive : InFlight(p) \/ m_IsParsing[p] => s_CurrentParser = p

(* An ALLDONE event never arrives while it would be ignored, whichever of the
   worker's tasks it follows: it is the only thing that ends a batch.        *)
EventsAreHeard ==
    "AddPredefinedMacros" \notin calls.midway =>
        \A p \in alive : allDone[p] > 0 => allDone[p] = 1 /\ ~Unheard(p)

(* A task in the queue is taken: the thread is awake or has a post waiting.    *)
QueueIsServed == \A p \in alive : queue[p] # <<>> => at[p] # "wait" \/ credit[p] = 1

(* The type invariant, and that every task in a queue is on its way.          *)
ParserInv == TypeOK /\ QueueIsServed

(* A file that is reserved for parsing has a task or is about to be opened: nobody
   else may parse it, so it must not be left behind.                         *)
NoStrandedFile ==
    failures = 0 => \A p \in alive : \A f \in Files : m_FileStatusMap[p][f] = "fpsAssigned" =>
        \/ \E i \in DOMAIN queue[p] : queue[p][i] = f
        \/ at[p] = "open" /\ Top(p) = f

(* Includes are parsed recursively, also cyclic ones: no file is entered again
   while it is being parsed.                                                 *)
NoFileInItself ==
    "RemoveFile" \notin calls.midway => \A p \in Parsers : \A i, j \in DOMAIN stack[p] : stack[p][i] = stack[p][j] => i = j

(* What reserving a file before parsing it is for.                            *)
ReservationsHold == NoFileInItself /\ NoStrandedFile

(* idParserEnd is sent after everything: no task, no event, nothing to parse.  *)
EndIsLast ==
    [][\A p \in Parsers : m_IsParsing[p] /\ ~m_IsParsing'[p]
                          /\ "AddPredefinedMacros" \notin calls.midway =>
           ~InFlight(p)' /\ m_BatchParseFiles[p] = {} /\ m_PredefinedMacros[p] = {}]_vars

(* A batch that is under way has something that will wake its parser: a task, an
   event or the timer that OnAllThreadsDone starts for what is still to parse. *)
GoesOn(p) == m_IsParsing[p] => InFlight(p) \/ m_BatchTimer[p]

(* Whatever is asked of a parser and whenever, the one thing that takes this from it is
   a call that stops the running timer, and cannot start it again while m_IsParsing is
   set: no handler, no task and no other parser does.                        *)
StallsOnlyByAddition ==
    [][\A p \in alive' : GoesOn(p) /\ ~GoesOn(p)' => calls' # calls /\ m_BatchTimer[p]]_vars

-----------------------------------------------------------------------------
(* Liveness.                                                                 *)

(* What is asked of a parser at rest is parsed, unless the parser is deleted,
   also while other parsers take their turns.                                *)
RequestsAreParsed ==
    \A p \in Parsers, f \in Files :
        (p \in alive /\ f \in m_BatchParseFiles[p]) ~>
        (p \notin alive \/ (m_FileStatusMap[p][f] = "fpsDone" /\ f \notin m_FilesToBeReparsed[p]))

(* The current parser gives the others their turn.                           *)
TurnsEnd == \A p \in Parsers : (s_CurrentParser = p) ~> (s_CurrentParser # p)

(* A destructor that waits for its pool, with the GUI thread blocked, returns,
   even if the pool was in the middle of a batch (the comment at ~Parser).   *)
DeletionEnds == (deleting # NoParser) ~> (deleting = NoParser)

-----------------------------------------------------------------------------
(* What a comment says and the code does not do.                             *)

(* parser.h on AddParse: "after this function call, the file(Parserthread) will be
   run from the thread pool". EndBatch clears files that were added after CopyLists. *)
ClearedFilesWereParsed ==
    [][\A p \in Parsers : at[p] = "parse" /\ at'[p] = "done" =>
           \A f \in m_BatchParseFiles[p] : m_FileStatusMap[p][f] # "fpsNotParsed"]_vars
=============================================================================
