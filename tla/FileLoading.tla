----------------------------- MODULE FileLoading -----------------------------
(* How a document is read while FileSave writes it: FileManager::Load, the
   background thread that runs the loaders (include/backgroundthread.h), and the
   users of a loader, which wait for its data and delete it.
   A loader has one user: the GUI thread, which opens files, or a thread of the
   parsers. The user's place is at[l]; the loader's flag wait is set up to the user's
   call of WaitReady, which is all it is used for.                            *)
EXTENDS FileSave, Sequences, FiniteSets

CONSTANTS
    Loaders,                \* the loaders that may exist at one time
    OwnedByGui,             \* those the GUI thread has asked for
    MaxLoads                \* bound on the calls of Load

NoJob == "no job"

ASSUME LoadAssumption ==
    /\ IsFiniteSet(Loaders) /\ NoJob \notin Loaders
    /\ OwnedByGui \subseteq Loaders /\ MaxLoads \in Nat

VARIABLES
    at,                     \* what the user of a loader does with it
    sem, data,              \* its semaphore, and what it has read
    early,                  \* ghost: was it deleted before its job had begun?
    asked,                  \* ghost: the value of reported when it was made
    queue, posts,           \* the jobs of the background thread, its semaphore
    thread,                 \* the background thread
    loads

loaderVars == <<at, sem, data, early, asked, loads>>
loadVars == <<loaderVars, queue, posts, thread>>
allVars == <<vars, loadVars>>

Places == {"none", "pushed", "loaded", "opened", "sync", "has", "destroy"}

(* inode is where the file is that the thread has open: the document, where a rename
   has put it, or nowhere. changed: it was written to since. clean is a ghost: the
   document was whole and no link when the thread looked for it, and was at its
   place ever since.                                                         *)
Asleep == [at |-> "wait", job |-> NoJob, inode |-> "doc", seen |-> Absent,
           changed |-> FALSE, clean |-> FALSE]

LoadInit ==
    /\ Init
    /\ at = [l \in Loaders |-> "none"] /\ sem = [l \in Loaders |-> 0]
    /\ data = [l \in Loaders |-> Absent]
    /\ early = [l \in Loaders |-> FALSE] /\ asked = [l \in Loaders |-> 0]
    /\ queue = <<>> /\ posts = 0 /\ thread = Asleep /\ loads = 0

-----------------------------------------------------------------------------
(* The users. The GUI thread does nothing else between Load and the deletion.  *)
GuiLoads == \E l \in OwnedByGui : at[l] # "none"
Exists == disk["doc"] # Absent

Goes(l, place) == at' = [at EXCEPT ![l] = place]
Stays == UNCHANGED <<queue, posts, thread>>

(* Load queues the job and then posts: two steps, since the thread may run between
   them.                                                                     *)
MakeLoader(l) ==
    /\ at[l] = "none" /\ loads < MaxLoads /\ loads' = loads + 1
    /\ l \in OwnedByGui => call = Idle /\ Exists
    /\ asked' = [asked EXCEPT ![l] = reported]
Load(l) ==
    /\ MakeLoader(l)
    /\ Goes(l, "pushed")
    /\ queue' = Append(queue, l)
    /\ UNCHANGED <<vars, sem, data, early, posts, thread>>

Post(l) ==
    /\ at[l] = "pushed"
    /\ Goes(l, "loaded") /\ posts' = posts + 1
    /\ UNCHANGED <<vars, sem, data, early, asked, loads, queue, thread>>

(* With reuseEditors the text of an editor that was modified is copied instead
   (EditorReuser); the data is there at once.                                *)
Reuse(l) ==
    /\ MakeLoader(l) /\ modified
    /\ data' = [data EXCEPT ![l] = Text(buffer, TRUE)]
    /\ sem' = [sem EXCEPT ![l] = 1]
    /\ Goes(l, "loaded")
    /\ UNCHANGED <<vars, early>> /\ Stays

(* An editor asks for the data. A parser's InitTokenizer first tries to open the file;
   if it is gone, the loader is left to ~ParserThread, which calls Sync.       *)
Proceed(l) ==
    /\ at[l] = "loaded"
    /\ Goes(l, IF l \in OwnedByGui \/ ~Exists THEN "sync" ELSE "opened")
    /\ UNCHANGED <<vars, sem, data, early, asked, loads>> /\ Stays

(* Tokenizer::Init looks for the file once more, and then asks for the data. If the
   file has gone, it fails without a look at the loader, and Delete runs ~FileLoader
   and then ~LoaderBase, which waits. From there on the object is a LoaderBase: a job
   that has not begun will be its empty operator().                           *)
FaultInitTokenizer(l) ==
    /\ at[l] = "opened"
    /\ Goes(l, IF Exists THEN "sync" ELSE "none")
    /\ UNCHANGED <<vars, sem, data, early, asked, loads>> /\ Stays
InitTokenizer(l) ==
    /\ at[l] = "opened"
    /\ Goes(l, IF Exists THEN "sync" ELSE "destroy")
    /\ early' = [early EXCEPT ![l] = ~Exists /\ thread.job # l /\ sem[l] = 0]
    /\ UNCHANGED <<vars, sem, data, asked, loads>> /\ Stays

(* WaitReady: afterwards the data can be used, or the destructor goes on.      *)
Deleted(l) ==
    /\ Goes(l, "none")
    /\ data' = [data EXCEPT ![l] = Absent]
    /\ early' = [early EXCEPT ![l] = FALSE] /\ asked' = [asked EXCEPT ![l] = 0]
WaitReady(l) ==
    /\ at[l] \in {"sync", "destroy"} /\ sem[l] > 0
    /\ sem' = [sem EXCEPT ![l] = @ - 1]
    /\ IF at[l] = "sync" THEN Goes(l, "has") /\ UNCHANGED <<data, early, asked>>
                          ELSE Deleted(l)
    /\ UNCHANGED <<vars, loads>> /\ Stays

Delete(l) ==
    /\ at[l] = "has"
    /\ Deleted(l)
    /\ UNCHANGED <<vars, sem, loads>> /\ Stays

-----------------------------------------------------------------------------
(* The background thread: Entry, and FileLoader::operator().                  *)
Thread == UNCHANGED <<vars, at, early, asked, loads>>

Wait ==
    /\ thread.at = "wait" /\ posts > 0
    /\ posts' = posts - 1 /\ thread' = [thread EXCEPT !.at = "pop"]
    /\ Thread /\ UNCHANGED <<sem, data, queue>>

Pop ==
    /\ thread.at = "pop" /\ queue # <<>>
    /\ queue' = Tail(queue)
    /\ thread' = IF at[Head(queue)] = "destroy" THEN Asleep
                 ELSE [Asleep EXCEPT !.at = "access", !.job = Head(queue)]
    /\ Thread /\ UNCHANGED <<sem, data, posts>>

(* Ready, and the end of the job.                                            *)
FaultFinish(content) ==
    /\ data' = [data EXCEPT ![thread.job] = content]
    /\ sem' = IF content = Absent THEN sem ELSE [sem EXCEPT ![thread.job] = @ + 1]
    /\ thread' = Asleep
Finish(content) ==
    /\ data' = [data EXCEPT ![thread.job] = content]
    /\ sem' = [sem EXCEPT ![thread.job] = @ + 1]
    /\ thread' = Asleep

Access ==
    /\ thread.at = "access"
    /\ IF Exists
       THEN /\ thread' = [thread EXCEPT !.at = "open", !.clean = Whole(disk["doc"]) /\ ~link]
            /\ UNCHANGED <<sem, data>>
       ELSE Finish(Absent)
    /\ Thread /\ UNCHANGED <<queue, posts>>

(* A file that has gone since is not noticed: its length is -1, and nothing is read.
   Otherwise the buffer gets the length the file has now.                     *)
OpenFile ==
    /\ thread.at = "open"
    /\ IF Exists
       THEN /\ thread' = [thread EXCEPT !.at = "read", !.seen = disk["doc"]]
            /\ UNCHANGED <<sem, data>>
       ELSE Finish(Text(buffer, FALSE))
    /\ Thread /\ UNCHANGED <<queue, posts>>

(* Of a file that was written to meanwhile the old length is read, or less: the rest
   of the buffer is what the allocation left there. The read may fail.        *)
Read ==
    /\ thread.at = "read"
    /\ \/ Finish([thread.seen EXCEPT !.whole = @ /\ ~thread.changed])
       \/ Finish(Absent)
    /\ Thread /\ UNCHANGED <<queue, posts>>

BackgroundThread == Wait \/ Pop \/ Access \/ OpenFile \/ Read

-----------------------------------------------------------------------------
(* A step of FileSave, with what it does to the file that the thread has open. *)
Watch(inode, changed) ==
    thread' = [thread EXCEPT !.inode = inode, !.changed = @ \/ changed,
                             !.clean = @ /\ disk'["doc"] # Absent /\ buffer \notin Empty]
Reading == thread.at = "read"
Beside == UNCHANGED <<loaderVars, queue, posts>>

Overwrite ==
    /\ Edit \/ Save \/ AutosaveCopy \/ Open \/ Write \/ MoveFailed
    /\ Watch(thread.inode, Reading /\ thread.inode = "doc" /\ disk'["doc"] # disk["doc"])
MoveAway ==
    /\ AutosaveBackup
    /\ Watch(IF ~Reading THEN "doc" ELSE IF thread.inode = "doc" THEN "bak" ELSE "nowhere",
             FALSE)
Replace ==
    /\ Move
    /\ Watch(IF Reading /\ thread.inode = "doc" /\ call.to = "doc" /\ call' = Idle
             THEN "nowhere" ELSE thread.inode, FALSE)

Saving == ~GuiLoads /\ (Overwrite \/ MoveAway \/ Replace) /\ Beside

(* The end of the program takes its threads with it.                          *)
CrashLoading ==
    /\ Crash
    /\ at' = [l \in Loaders |-> "none"] /\ sem' = [l \in Loaders |-> 0]
    /\ data' = [l \in Loaders |-> Absent]
    /\ early' = [l \in Loaders |-> FALSE] /\ asked' = [l \in Loaders |-> 0]
    /\ queue' = <<>> /\ posts' = 0 /\ thread' = Asleep
    /\ UNCHANGED loads

User(l) ==
    \/ Load(l) \/ Reuse(l) \/ Post(l) \/ Proceed(l)
    \/ InitTokenizer(l) \/ WaitReady(l) \/ Delete(l)

LoadNext == (\E l \in Loaders : User(l)) \/ BackgroundThread \/ Saving \/ CrashLoading

LoadSpec == LoadInit /\ [][LoadNext]_allVars

(* The operating system runs the threads; nobody has to load or to save.        *)
LoadFairness ==
    /\ WF_allVars(BackgroundThread)
    /\ \A l \in Loaders : WF_allVars(Post(l)) /\ WF_allVars(WaitReady(l))
LoadFairSpec == LoadSpec /\ LoadFairness

-----------------------------------------------------------------------------
LoadTypeOK ==
    /\ at \in [Loaders -> Places] /\ sem \in [Loaders -> {0, 1}]
    /\ data \in [Loaders -> Contents] /\ early \in [Loaders -> BOOLEAN]
    /\ asked \in [Loaders -> 0..MaxEdits] /\ loads \in 0..MaxLoads
    /\ queue \in Seq(Loaders) /\ posts \in Nat
    /\ thread \in [at : {"wait", "pop", "access", "open", "read"},
                   job : Loaders \cup {NoJob}, inode : {"doc", "bak", "nowhere"},
                   seen : Contents, changed : BOOLEAN, clean : BOOLEAN]

(* The background thread never touches a loader that its user has deleted, neither in
   the queue nor in operator(), although only the user decides when (ownsJobs is
   FALSE); and it never takes a job from an empty queue, where front() is undefined. *)
JobsAreAlive ==
    /\ \A i \in DOMAIN queue : at[queue[i]] # "none"
    /\ thread.job # NoJob => at[thread.job] # "none"
    /\ posts + (IF thread.at = "pop" THEN 1 ELSE 0) <= Len(queue)

(* Why it holds, for FileLoadingProofs: a loader is in the queue once, or is being run,
   as long as its semaphore is down, and its user cannot pass WaitReady before.   *)
Claimed(l) == thread.job = l \/ \E i \in DOMAIN queue : queue[i] = l
Pushed == {l \in Loaders : at[l] = "pushed"}
JobsInv ==
    /\ \A l \in Loaders : at[l] \in {"none", "has"} => sem[l] = 0 /\ ~Claimed(l)
    /\ \A l \in Loaders : Claimed(l) => sem[l] = 0
    /\ \A i, j \in DOMAIN queue : queue[i] = queue[j] => i = j
    /\ \A i \in DOMAIN queue : queue[i] # thread.job
    /\ posts + (IF thread.at = "pop" THEN 1 ELSE 0) + Cardinality(Pushed) <= Len(queue)
ThreadInv ==
    /\ thread.job \in Loaders <=> thread.at \in {"access", "open", "read"}
    /\ thread.at = "read" => thread.seen # Absent

(* A document that is whole, is no link and stays at its place is loaded whole, if
   it is loaded at all, and not older than what was reported as saved before the
   load: whatever is saved between the opening of the file and the reading of it. (The
   second half, if no version was empty: 6.4 of the README.)                  *)
NoneEmpty == \A v \in Empty : v > edits
LoadedIsWhole ==
    [][thread.at = "read" /\ thread'.at = "wait" /\ thread.clean =>
           LET loaded == data'[thread.job]
           IN loaded # Absent =>
                 /\ loaded.whole
                 /\ NoneEmpty => loaded.version >= asked[thread.job]]_allVars

(* Why: a whole document is never written in place, and the file that the thread has
   open was whole and as new as the last report when it was opened.            *)
WholeInv ==
    /\ call.at = "write" /\ call.open /\ buffer \notin Empty => ~disk[call.file].whole
    /\ thread.at # "read" => ~thread.changed
    /\ thread.at \in {"open", "read"} /\ thread.clean =>
           /\ ~link /\ Whole(disk["doc"]) /\ ~thread.changed
           /\ thread.at = "read" => thread.seen.whole
AskedInv ==
    NoneEmpty =>
        /\ \A l \in Loaders : asked[l] <= reported
        /\ thread.at = "read" => thread.seen.version >= asked[thread.job]

LoadInv == LoadTypeOK /\ JobsAreAlive /\ JobsInv /\ ThreadInv /\ WholeInv /\ AskedInv

(* Whoever waits for a loader, to use it or to delete it, goes on: each path through
   operator() calls Ready. The one exception is a loader that is deleted before its
   job has begun.                                                            *)
WaitersAreServed ==
    \A l \in Loaders :
        (at[l] \in {"sync", "destroy"} /\ ~early[l]) ~> (at[l] \notin {"sync", "destroy"})
=============================================================================
