--------------------------- MODULE FileLoadingProofs ---------------------------
(* Theorems of FileLoading: loading does not disturb saving, the background thread
   and the users of a loader never meet a deleted one, and what is loaded is whole,
   for any number of loaders, loads, edits, failures and crashes.             *)
EXTENDS FileLoading, FileSaveProofs, FiniteSetTheorems

(* The actions of FileLoading are those of FileSave, or leave its variables alone. *)
LEMMA LoadStepIsStep == [LoadNext]_allVars => [Next]_vars
  <1>1. ASSUME NEW l \in Loaders, User(l) PROVE UNCHANGED vars
    BY <1>1, Zenon DEF User, Load, Reuse, Post, Proceed, InitTokenizer, WaitReady, Delete
  <1>2. BackgroundThread => UNCHANGED vars
    BY Zenon DEF BackgroundThread, Wait, Pop, Access, OpenFile, Read, Thread
  <1>3. Saving => Next
    BY Zenon DEF Saving, Overwrite, MoveAway, Replace, Next
  <1>4. CrashLoading => Next BY Zenon DEF CrashLoading, Next
  <1>5. UNCHANGED allVars => UNCHANGED vars BY Zenon DEF allVars
  <1> QED BY <1>1, <1>2, <1>3, <1>4, <1>5, Zenon DEF LoadNext

(* Loading leaves saving as FileSave describes it, so that the theorems about saving
   hold beside loads: the detailed specification implements the one it extends. *)
THEOREM LoadingLeavesSaving == LoadSpec => Spec
  <1>1. LoadInit => Init BY DEF LoadInit
  <1> QED BY <1>1, LoadStepIsStep, PTL DEF LoadSpec, Spec

(* So the invariant of saving also holds while documents are loaded.            *)
COROLLARY SaveInvBesideLoads == LoadSpec => []SaveInv
  BY LoadingLeavesSaving, SaveInvHolds, PTL

-----------------------------------------------------------------------------
(* Types. What the thread and the users may put into a loader.                *)
LEMMA AsleepType ==
    /\ Asleep \in [at : {"wait", "pop", "access", "open", "read"},
                   job : Loaders \cup {NoJob}, inode : {"doc", "bak", "nowhere"},
                   seen : Contents, changed : BOOLEAN, clean : BOOLEAN]
    /\ Asleep.at = "wait" /\ Asleep.job = NoJob /\ ~Asleep.changed /\ ~Asleep.clean
  BY DEF Asleep, Contents

LEMMA LoadInitInv == LoadInit => LoadInv
  <1> SUFFICES ASSUME LoadInit PROVE LoadInv
    OBVIOUS
  <1>0. SaveInv BY SaveInvInit DEF LoadInit
  <1>1. LoadTypeOK
    <2>1. Absent \in Contents /\ 0 \in 0..MaxEdits /\ 0 \in 0..MaxLoads
      BY SaveAssumption, LoadAssumption DEF Contents
    <2>2. queue \in Seq(Loaders) BY DEF LoadInit
    <2>3. thread = Asleep BY DEF LoadInit
    <2> QED BY <2>1, <2>2, <2>3, AsleepType DEF LoadInit, LoadTypeOK, Places
  <1>2. thread.job = NoJob /\ thread.at = "wait" /\ ~thread.changed
    BY AsleepType DEF LoadInit
  <1>3. \A l \in Loaders : ~Claimed(l) BY <1>2, LoadAssumption DEF LoadInit, Claimed
  <1>4. Cardinality(Pushed) = 0
    <2>1. Pushed = {} BY DEF Pushed, LoadInit
    <2> QED BY <2>1, FS_EmptySet
  <1>5. JobsInv BY <1>2, <1>3, <1>4 DEF JobsInv, LoadInit
  <1>6. JobsAreAlive BY <1>2 DEF JobsAreAlive, LoadInit
  <1>7. ThreadInv BY <1>2, LoadAssumption DEF ThreadInv
  <1>8. WholeInv BY <1>2 DEF WholeInv, LoadInit, Init, Idle
  <1>9. AskedInv BY <1>0, <1>2 DEF AskedInv, LoadInit, SaveInv, TypeOK
  <1> QED BY <1>1, <1>5, <1>6, <1>7, <1>8, <1>9 DEF LoadInv

Threads == [at : {"wait", "pop", "access", "open", "read"},
            job : Loaders \cup {NoJob}, inode : {"doc", "bak", "nowhere"},
            seen : Contents, changed : BOOLEAN, clean : BOOLEAN]

(* The file that the thread has open is watched by every step of FileSave.    *)
LEMMA WatchEffect ==
    ASSUME thread \in Threads, Saving
    PROVE  \E inode \in {"doc", "bak", "nowhere"}, changed \in BOOLEAN :
              /\ Watch(inode, changed)
              /\ ~changed \/ (Overwrite /\ Reading /\ disk'["doc"] # disk["doc"])
              /\ thread' \in Threads
              /\ thread'.at = thread.at /\ thread'.job = thread.job /\ thread'.seen = thread.seen
              /\ thread'.changed = (thread.changed \/ changed)
              /\ thread'.clean => /\ thread.clean /\ disk'["doc"] # Absent
                                  /\ buffer \notin Empty
  <1>1. ASSUME NEW inode \in {"doc", "bak", "nowhere"}, NEW changed \in BOOLEAN,
               Watch(inode, changed)
        PROVE  /\ thread' \in Threads
               /\ thread'.at = thread.at /\ thread'.job = thread.job
               /\ thread'.seen = thread.seen
               /\ thread'.changed = (thread.changed \/ changed)
               /\ thread'.clean => /\ thread.clean /\ disk'["doc"] # Absent
                                   /\ buffer \notin Empty
    BY <1>1 DEF Watch, Threads
  <1>2. CASE Overwrite
    <2> DEFINE touched == Reading /\ thread.inode = "doc" /\ disk'["doc"] # disk["doc"]
    <2>1. touched \in BOOLEAN OBVIOUS
    <2>2. Watch(thread.inode, touched) BY <1>2 DEF Overwrite
    <2>3. thread.inode \in {"doc", "bak", "nowhere"} BY DEF Threads
    <2>4. ~touched \/ (Overwrite /\ Reading /\ disk'["doc"] # disk["doc"]) BY <1>2
    <2> HIDE DEF touched
    <2> QED BY <1>1, <2>1, <2>2, <2>3, <2>4
  <1>3. CASE MoveAway
    <2> DEFINE inode == IF ~Reading THEN "doc" ELSE IF thread.inode = "doc" THEN "bak" ELSE "nowhere"
    <2>1. Watch(inode, FALSE) BY <1>3 DEF MoveAway
    <2>2. inode \in {"doc", "bak", "nowhere"} OBVIOUS
    <2> HIDE DEF inode
    <2> QED BY <1>1, <2>1, <2>2
  <1>4. CASE Replace
    <2> DEFINE inode == IF Reading /\ thread.inode = "doc" /\ call.to = "doc" /\ call' = Idle
                        THEN "nowhere" ELSE thread.inode
    <2>1. Watch(inode, FALSE) BY <1>4 DEF Replace
    <2>2. inode \in {"doc", "bak", "nowhere"} BY DEF Threads
    <2> HIDE DEF inode
    <2> QED BY <1>1, <2>1, <2>2
  <1> QED BY <1>2, <1>3, <1>4 DEF Saving

LEMMA LoadTypeStep ==
    SaveInv /\ SaveInv' /\ LoadTypeOK /\ JobsInv /\ ThreadInv /\ [LoadNext]_allVars => LoadTypeOK'
  <1> SUFFICES ASSUME SaveInv, SaveInv', LoadTypeOK, JobsInv, ThreadInv, [LoadNext]_allVars
               PROVE  LoadTypeOK'
    OBVIOUS
  <1>a. /\ buffer \in Versions /\ reported \in 0..MaxEdits /\ disk["doc"] \in Contents
        /\ Text(buffer, TRUE) \in Contents /\ Text(buffer, FALSE) \in Contents
        /\ Absent \in Contents /\ 0 \in 0..MaxEdits
    <2>1. TypeOK BY DEF SaveInv
    <2>2. buffer \in Versions /\ reported \in 0..MaxEdits /\ disk["doc"] \in Contents
      BY <2>1 DEF TypeOK, Files
    <2>3. Text(buffer, TRUE) \in Contents /\ Text(buffer, FALSE) \in Contents
      BY <2>2, TextType
    <2>4. 0 \in 0..MaxEdits BY SaveAssumption
    <2>5. Absent \in Contents BY DEF Contents
    <2> QED BY <2>2, <2>3, <2>4, <2>5
  <1>b. thread \in Threads BY DEF LoadTypeOK, Threads
  <1>c. ASSUME NEW l \in Loaders, NEW place \in Places, Goes(l, place)
        PROVE  at' \in [Loaders -> Places]
    BY <1>c DEF Goes, LoadTypeOK
  <1>1. ASSUME NEW l \in Loaders, MakeLoader(l)
        PROVE  asked' \in [Loaders -> 0..MaxEdits] /\ loads' \in 0..MaxLoads
    BY <1>1, <1>a, LoadAssumption DEF MakeLoader, LoadTypeOK
  <1>2. ASSUME NEW l \in Loaders, Load(l) PROVE LoadTypeOK'
    <2>1. at' \in [Loaders -> Places] BY <1>2, <1>c DEF Load, Places
    <2>2. queue' \in Seq(Loaders) BY <1>2 DEF Load, LoadTypeOK
    <2> QED BY <1>2, <1>1, <2>1, <2>2 DEF Load, LoadTypeOK
  <1>3. ASSUME NEW l \in Loaders, Post(l) PROVE LoadTypeOK'
    <2>1. at' \in [Loaders -> Places] BY <1>3, <1>c DEF Post, Places
    <2> QED BY <1>3, <2>1 DEF Post, LoadTypeOK
  <1>4. ASSUME NEW l \in Loaders, Reuse(l) PROVE LoadTypeOK'
    <2>1. at' \in [Loaders -> Places] BY <1>4, <1>c DEF Reuse, Places
    <2> QED BY <1>4, <1>1, <1>a, <2>1 DEF Reuse, LoadTypeOK, Stays
  <1>5. ASSUME NEW l \in Loaders, Proceed(l) PROVE LoadTypeOK'
    <2>1. at' \in [Loaders -> Places] BY <1>5, <1>c DEF Proceed, Places
    <2> QED BY <1>5, <2>1 DEF Proceed, LoadTypeOK, Stays
  <1>6. ASSUME NEW l \in Loaders, InitTokenizer(l) PROVE LoadTypeOK'
    <2>1. at' \in [Loaders -> Places] BY <1>6, <1>c DEF InitTokenizer, Places
    <2>2. early' \in [Loaders -> BOOLEAN] BY <1>6, Zenon DEF InitTokenizer, LoadTypeOK
    <2> QED BY <1>6, <2>1, <2>2 DEF InitTokenizer, LoadTypeOK, Stays
  <1>7. ASSUME NEW l \in Loaders, Deleted(l)
        PROVE  /\ at' \in [Loaders -> Places] /\ data' \in [Loaders -> Contents]
               /\ early' \in [Loaders -> BOOLEAN] /\ asked' \in [Loaders -> 0..MaxEdits]
    <2>1. at' \in [Loaders -> Places] BY <1>7, <1>c DEF Deleted, Places
    <2> QED BY <1>7, <1>a, <2>1 DEF Deleted, LoadTypeOK
  <1>8. ASSUME NEW l \in Loaders, WaitReady(l) PROVE LoadTypeOK'
    <2>1. sem' \in [Loaders -> {0, 1}] BY <1>8 DEF WaitReady, LoadTypeOK
    <2>2. CASE Goes(l, "has") /\ UNCHANGED <<data, early, asked>>
      <3>1. at' \in [Loaders -> Places] BY <2>2, <1>c DEF Places
      <3> QED BY <1>8, <2>1, <2>2, <3>1 DEF WaitReady, LoadTypeOK, Stays
    <2>3. CASE Deleted(l) BY <1>8, <1>7, <2>1, <2>3 DEF WaitReady, LoadTypeOK, Stays
    <2> QED BY <1>8, <2>2, <2>3 DEF WaitReady
  <1>9. ASSUME NEW l \in Loaders, Delete(l) PROVE LoadTypeOK'
    BY <1>9, <1>7 DEF Delete, LoadTypeOK, Stays
  <1>10. ASSUME Wait PROVE LoadTypeOK'
    <2>1. posts' \in Nat BY <1>10 DEF Wait, LoadTypeOK
    <2>2. thread' \in Threads BY <1>10, <1>b DEF Wait, Threads
    <2> QED BY <1>10, <2>1, <2>2 DEF Wait, Thread, LoadTypeOK, Threads
  <1>11. ASSUME Pop PROVE LoadTypeOK'
    <2>1. queue' \in Seq(Loaders) /\ Head(queue) \in Loaders BY <1>11 DEF Pop, LoadTypeOK
    <2>2. thread' \in Threads
      BY <1>11, <2>1, AsleepType DEF Pop, Threads
    <2> QED BY <1>11, <2>1, <2>2 DEF Pop, Thread, LoadTypeOK, Threads
  <1>12. ASSUME NEW content \in Contents, Finish(content), thread.at \in {"access", "open", "read"}
         PROVE  /\ data' \in [Loaders -> Contents] /\ sem' \in [Loaders -> {0, 1}]
                /\ thread' \in Threads
    <2>1. thread.job \in Loaders BY <1>12 DEF ThreadInv
    <2>2. sem[thread.job] = 0 BY <2>1 DEF JobsInv, Claimed
    <2> QED BY <1>12, <2>1, <2>2, AsleepType DEF Finish, LoadTypeOK, Threads
  <1>13. ASSUME Access PROVE LoadTypeOK'
    <2>1. CASE thread' = [thread EXCEPT !.at = "open", !.clean = Whole(disk["doc"]) /\ ~link]
      <3>1. (Whole(disk["doc"]) /\ ~link) \in BOOLEAN BY Zenon
      <3>2. thread' \in Threads BY <1>b, <2>1, <3>1 DEF Threads
      <3> QED BY <1>13, <1>12, <1>a, <3>2 DEF Access, Thread, LoadTypeOK, Threads
    <2> QED BY <1>13, <1>12, <1>a, <2>1 DEF Access, Thread, LoadTypeOK, Threads
  <1>14. ASSUME OpenFile PROVE LoadTypeOK'
    <2>1. CASE thread' = [thread EXCEPT !.at = "read", !.seen = disk["doc"]]
      <3>1. thread' \in Threads BY <1>a, <1>b, <2>1 DEF Threads
      <3> QED BY <1>14, <1>12, <1>a, <3>1 DEF OpenFile, Thread, LoadTypeOK, Threads
    <2> QED BY <1>14, <1>12, <1>a, <2>1 DEF OpenFile, Thread, LoadTypeOK, Threads
  <1>15. ASSUME Read PROVE LoadTypeOK'
    <2>1. thread.seen \in [version : Versions, whole : BOOLEAN]
      BY <1>15, <1>b DEF Read, ThreadInv, Threads, Contents
    <2>2. [thread.seen EXCEPT !.whole = @ /\ ~thread.changed] \in Contents
      <3>1. (thread.seen.whole /\ ~thread.changed) \in BOOLEAN BY Zenon
      <3> QED BY <2>1, <3>1 DEF Contents
    <2> QED BY <1>15, <1>12, <1>a, <2>2 DEF Read, Thread, LoadTypeOK, Threads
  <1>16. ASSUME Saving PROVE LoadTypeOK'
    <2>1. thread' \in Threads BY <1>16, <1>b, WatchEffect
    <2>2. Beside BY <1>16, Zenon DEF Saving
    <2> QED BY <2>1, <2>2 DEF Beside, loaderVars, LoadTypeOK, Threads
  <1>17. ASSUME CrashLoading PROVE LoadTypeOK'
    <2>1. queue' \in Seq(Loaders) BY <1>17 DEF CrashLoading
    <2>2. thread' \in Threads BY <1>17, AsleepType DEF CrashLoading, Threads
    <2>3. at' \in [Loaders -> Places] BY <1>17 DEF CrashLoading, Places
    <2> QED BY <1>17, <1>a, <2>1, <2>2, <2>3 DEF CrashLoading, LoadTypeOK, Threads
  <1>18. UNCHANGED allVars => LoadTypeOK'
    BY DEF allVars, vars, loadVars, loaderVars, LoadTypeOK
  <1> QED BY <1>2, <1>3, <1>4, <1>5, <1>6, <1>8, <1>9, <1>10, <1>11, <1>13, <1>14, <1>15,
             <1>16, <1>17, <1>18, Zenon DEF LoadNext, User, BackgroundThread

-----------------------------------------------------------------------------
(* The jobs. How many users are between the two steps of Load.                *)
LEMMA PushedType ==
    ASSUME LoadTypeOK
    PROVE  IsFiniteSet(Pushed) /\ Cardinality(Pushed) \in Nat
  <1>1. Pushed \subseteq Loaders BY DEF Pushed
  <1> QED BY <1>1, LoadAssumption, FS_Subset, FS_CardinalityType

LEMMA AliveFromJobs == LoadTypeOK /\ JobsInv => JobsAreAlive
  <1> SUFFICES ASSUME LoadTypeOK, JobsInv PROVE JobsAreAlive
    OBVIOUS
  <1>1. \A i \in DOMAIN queue : queue[i] \in Loaders BY DEF LoadTypeOK
  <1>2. \A i \in DOMAIN queue : Claimed(queue[i]) BY DEF Claimed
  <1>3. thread.job # NoJob => thread.job \in Loaders /\ Claimed(thread.job)
    BY DEF LoadTypeOK, Claimed
  <1>4. Len(queue) \in Nat /\ posts \in Nat BY DEF LoadTypeOK
  <1> QED BY <1>1, <1>2, <1>3, <1>4, PushedType DEF JobsAreAlive, JobsInv

(* A user that goes on from a place where it is neither between the steps of Load nor
   without a loader, to another such place, disturbs no job.                  *)
LEMMA MovingOn ==
    ASSUME LoadTypeOK, JobsInv, NEW l \in Loaders, NEW place \in Places,
           at[l] \notin {"none", "pushed", "has"}, place \notin {"none", "pushed", "has"},
           Goes(l, place), UNCHANGED <<sem, queue, posts, thread>>
    PROVE  JobsInv'
  <1>1. \A k \in Loaders : at'[k] = IF k = l THEN place ELSE at[k]
    BY DEF Goes, LoadTypeOK
  <1>2. Pushed' = Pushed BY <1>1 DEF Pushed
  <1>3. \A k \in Loaders : Claimed(k)' = Claimed(k) BY DEF Claimed
  <1> QED BY <1>1, <1>2, <1>3 DEF JobsInv

LEMMA JobsStep ==
    SaveInv /\ LoadTypeOK /\ JobsInv /\ ThreadInv /\ [LoadNext]_allVars => JobsInv'
  <1> SUFFICES ASSUME SaveInv, LoadTypeOK, JobsInv, ThreadInv, [LoadNext]_allVars PROVE JobsInv'
    OBVIOUS
  <1>a. /\ IsFiniteSet(Pushed) /\ Cardinality(Pushed) \in Nat
        /\ Len(queue) \in Nat /\ posts \in Nat
        /\ \A i \in DOMAIN queue : queue[i] \in Loaders
    BY PushedType DEF LoadTypeOK
  <1>b. thread.job \in Loaders \cup {NoJob} BY DEF LoadTypeOK
  <1>1. ASSUME NEW l \in Loaders, Load(l) PROVE JobsInv'
    <2>1. /\ at[l] = "none" /\ sem[l] = 0 /\ ~Claimed(l) /\ l \notin Pushed
      BY <1>1 DEF Load, MakeLoader, JobsInv, Pushed
    <2>2. \A k \in Loaders : at'[k] = IF k = l THEN "pushed" ELSE at[k]
      BY <1>1 DEF Load, Goes, LoadTypeOK
    <2>3. Pushed' = Pushed \cup {l} BY <2>2 DEF Pushed
    <2>4. Cardinality(Pushed') = Cardinality(Pushed) + 1 BY <1>a, <2>1, <2>3, FS_AddElement
    <2>5. /\ Len(queue') = Len(queue) + 1 /\ DOMAIN queue' = 1..Len(queue) + 1
          /\ DOMAIN queue = 1..Len(queue)
          /\ \A i \in 1..Len(queue) : queue'[i] = queue[i]
          /\ queue'[Len(queue) + 1] = l
      BY <1>1 DEF Load, LoadTypeOK
    <2>6. sem' = sem /\ posts' = posts /\ thread' = thread BY <1>1 DEF Load
    <2>7. \A k \in Loaders : Claimed(k)' <=> Claimed(k) \/ k = l
      BY <1>a, <2>5, <2>6 DEF Claimed
    <2>8. \A i \in DOMAIN queue : queue[i] # l BY <2>1 DEF Claimed
    <2>9. l # thread.job BY <2>1 DEF Claimed
    <2>10. \A i, j \in DOMAIN queue' : queue'[i] = queue'[j] => i = j
      BY <1>a, <2>5, <2>8 DEF JobsInv
    <2>11. \A i \in DOMAIN queue' : queue'[i] # thread'.job
      BY <1>a, <2>5, <2>6, <2>9 DEF JobsInv
    <2>12. posts' + (IF thread'.at = "pop" THEN 1 ELSE 0) + Cardinality(Pushed') <= Len(queue')
      BY <1>a, <2>4, <2>5, <2>6 DEF JobsInv
    <2>13. \A k \in Loaders : at'[k] \in {"none", "has"} => sem'[k] = 0 /\ ~Claimed(k)'
      BY <2>2, <2>6, <2>7 DEF JobsInv
    <2>14. \A k \in Loaders : Claimed(k)' => sem'[k] = 0 BY <2>1, <2>6, <2>7 DEF JobsInv
    <2> QED BY <2>10, <2>11, <2>12, <2>13, <2>14, Zenon DEF JobsInv
  <1>2. ASSUME NEW l \in Loaders, Post(l) PROVE JobsInv'
    <2>1. \A k \in Loaders : at'[k] = IF k = l THEN "loaded" ELSE at[k]
      BY <1>2 DEF Post, Goes, LoadTypeOK
    <2>2. l \in Pushed BY <1>2 DEF Post, Pushed
    <2>3. Pushed' = Pushed \ {l} BY <2>1 DEF Pushed
    <2>4. Cardinality(Pushed') = Cardinality(Pushed) - 1 BY <1>a, <2>2, <2>3, FS_RemoveElement
    <2>5. /\ queue' = queue /\ sem' = sem /\ thread' = thread /\ posts' = posts + 1
          /\ \A k \in Loaders : Claimed(k)' = Claimed(k)
      BY <1>2 DEF Post, Claimed
    <2> QED BY <1>a, <2>1, <2>4, <2>5 DEF JobsInv
  <1>3. ASSUME NEW l \in Loaders, Reuse(l) PROVE JobsInv'
    <2>1. /\ at[l] = "none" /\ ~Claimed(l)
      BY <1>3 DEF Reuse, MakeLoader, JobsInv
    <2>2. /\ \A k \in Loaders : at'[k] = IF k = l THEN "loaded" ELSE at[k]
          /\ \A k \in Loaders : sem'[k] = IF k = l THEN 1 ELSE sem[k]
      BY <1>3 DEF Reuse, Goes, LoadTypeOK
    <2>3. Pushed' = Pushed BY <2>1, <2>2 DEF Pushed
    <2>4. /\ queue' = queue /\ thread' = thread /\ posts' = posts
          /\ \A k \in Loaders : Claimed(k)' = Claimed(k)
      BY <1>3 DEF Reuse, Stays, Claimed
    <2> QED BY <2>1, <2>2, <2>3, <2>4 DEF JobsInv
  <1>4. ASSUME NEW l \in Loaders, Proceed(l) PROVE JobsInv'
    <2>1. \E place \in {"sync", "opened"} : Goes(l, place) BY <1>4 DEF Proceed
    <2> QED BY <1>4, <2>1, MovingOn DEF Proceed, Stays, Places
  <1>5. ASSUME NEW l \in Loaders, InitTokenizer(l) PROVE JobsInv'
    <2>1. \E place \in {"sync", "destroy"} : Goes(l, place) BY <1>5 DEF InitTokenizer
    <2> QED BY <1>5, <2>1, MovingOn DEF InitTokenizer, Stays, Places
  <1>6. ASSUME NEW l \in Loaders, WaitReady(l) PROVE JobsInv'
    <2>1. sem[l] = 1 /\ ~Claimed(l)
      <3>1. sem[l] \in {0, 1} BY DEF LoadTypeOK
      <3> QED BY <1>6, <3>1 DEF WaitReady, JobsInv
    <2>2. PICK place \in {"has", "none"} : Goes(l, place)
      BY <1>6 DEF WaitReady, Deleted
    <2>3. /\ \A k \in Loaders : at'[k] = IF k = l THEN place ELSE at[k]
          /\ \A k \in Loaders : sem'[k] = IF k = l THEN 0 ELSE sem[k]
      BY <1>6, <2>1, <2>2 DEF WaitReady, Goes, LoadTypeOK
    <2>4. Pushed' = Pushed BY <1>6, <2>3 DEF Pushed, WaitReady
    <2>5. /\ queue' = queue /\ thread' = thread /\ posts' = posts
          /\ \A k \in Loaders : Claimed(k)' = Claimed(k)
      BY <1>6 DEF WaitReady, Stays, Claimed
    <2> QED BY <2>1, <2>3, <2>4, <2>5 DEF JobsInv
  <1>7. ASSUME NEW l \in Loaders, Delete(l) PROVE JobsInv'
    <2>1. \A k \in Loaders : at'[k] = IF k = l THEN "none" ELSE at[k]
      BY <1>7 DEF Delete, Deleted, Goes, LoadTypeOK
    <2>2. Pushed' = Pushed BY <1>7, <2>1 DEF Pushed, Delete
    <2>3. /\ queue' = queue /\ thread' = thread /\ posts' = posts /\ sem' = sem
          /\ \A k \in Loaders : Claimed(k)' = Claimed(k)
      BY <1>7 DEF Delete, Stays, Claimed
    <2>4. sem[l] = 0 /\ ~Claimed(l) BY <1>7 DEF Delete, JobsInv
    <2> QED BY <2>1, <2>2, <2>3, <2>4 DEF JobsInv
  <1>8. ASSUME Wait PROVE JobsInv'
    <2>1. /\ at' = at /\ sem' = sem /\ queue' = queue /\ posts' = posts - 1
          /\ thread.at = "wait" /\ thread'.at = "pop" /\ thread'.job = thread.job
      BY <1>8 DEF Wait, Thread, LoadTypeOK
    <2>2. Pushed' = Pushed /\ \A k \in Loaders : Claimed(k)' = Claimed(k)
      BY <2>1 DEF Pushed, Claimed
    <2> QED BY <1>a, <2>1, <2>2 DEF JobsInv
  <1>9. ASSUME Pop PROVE JobsInv'
    <2>1. /\ queue # <<>> /\ queue' = Tail(queue) /\ Head(queue) = queue[1] /\ queue[1] \in Loaders
          /\ at' = at /\ sem' = sem /\ posts' = posts /\ thread.at = "pop"
      BY <1>9 DEF Pop, Thread, LoadTypeOK
    <2>2. /\ Len(queue) > 0 /\ Len(queue') = Len(queue) - 1
          /\ DOMAIN queue = 1..Len(queue) /\ DOMAIN queue' = 1..Len(queue) - 1
          /\ \A i \in 1..Len(queue) - 1 : queue'[i] = queue[i + 1]
      BY <2>1 DEF LoadTypeOK
    <2>3. thread'.at # "pop" /\ thread'.job \in {NoJob, queue[1]}
      BY <1>9, <2>1, AsleepType DEF Pop
    <2>4. \A k \in Loaders : Claimed(k)' => Claimed(k)
      <3>1. ASSUME NEW k \in Loaders, NEW i \in DOMAIN queue', queue'[i] = k PROVE Claimed(k)
        <4>1. i + 1 \in DOMAIN queue /\ queue[i + 1] = k BY <1>a, <2>2, <3>1
        <4> QED BY <4>1, Zenon DEF Claimed
      <3>2. 1 \in DOMAIN queue BY <1>a, <2>2
      <3>3. thread'.job \in Loaders => Claimed(thread'.job)
        BY <2>3, <3>2, LoadAssumption, Zenon DEF Claimed
      <3> QED BY <3>1, <3>3, Zenon DEF Claimed
    <2>a. ASSUME NEW i \in DOMAIN queue'
          PROVE  /\ i \in Nat /\ queue'[i] = queue[i + 1]
                 /\ i + 1 \in DOMAIN queue /\ i + 1 # 1 /\ 1 \in DOMAIN queue
      BY <1>a, <2>2
    <2>b. \A i, j \in DOMAIN queue : queue[i] = queue[j] => i = j BY Zenon DEF JobsInv
    <2>5. ASSUME NEW i \in DOMAIN queue', NEW j \in DOMAIN queue', queue'[i] = queue'[j]
          PROVE  i = j
      <3>1. i + 1 = j + 1 BY <2>5, <2>a, <2>b, Zenon
      <3> QED BY <3>1, <2>a
    <2>6. ASSUME NEW i \in DOMAIN queue' PROVE queue'[i] # thread'.job
      <3>1. queue'[i] # queue[1] BY <2>a, <2>b, Zenon
      <3>2. queue'[i] # NoJob BY <2>a, <1>a, LoadAssumption, Zenon
      <3> QED BY <2>3, <3>1, <3>2
    <2>7. Pushed' = Pushed BY <2>1 DEF Pushed
    <2>8. posts' + (IF thread'.at = "pop" THEN 1 ELSE 0) + Cardinality(Pushed') <= Len(queue')
      BY <1>a, <2>1, <2>2, <2>3, <2>7 DEF JobsInv
    <2>9. \A k \in Loaders : at'[k] \in {"none", "has"} => sem'[k] = 0 /\ ~Claimed(k)'
      BY <2>1, <2>4 DEF JobsInv
    <2>10. \A k \in Loaders : Claimed(k)' => sem'[k] = 0 BY <2>1, <2>4 DEF JobsInv
    <2> QED BY <2>5, <2>6, <2>8, <2>9, <2>10, Zenon DEF JobsInv
  <1>10. ASSUME NEW content, Finish(content), Thread, UNCHANGED <<queue, posts>>,
                thread.at \in {"access", "open", "read"}
         PROVE  JobsInv'
    <2>1. thread.job \in Loaders BY <1>10 DEF ThreadInv
    <2>2. /\ thread'.job = NoJob /\ thread'.at = "wait" /\ at' = at
          /\ \A k \in Loaders : sem'[k] = IF k = thread.job THEN sem[k] + 1 ELSE sem[k]
      BY <1>10, <2>1, AsleepType DEF Finish, Thread, LoadTypeOK
    <2>3. Claimed(thread.job) BY DEF Claimed
    <2>4. \A k \in Loaders : Claimed(k)' <=> Claimed(k) /\ k # thread.job
      BY <1>10, <1>a, <2>2, LoadAssumption DEF Claimed, JobsInv
    <2>5. Pushed' = Pushed BY <2>2 DEF Pushed
    <2>6. \A k \in Loaders : at'[k] \in {"none", "has"} => sem'[k] = 0 /\ ~Claimed(k)'
      BY <2>1, <2>2, <2>3, <2>4 DEF JobsInv
    <2>7. \A k \in Loaders : Claimed(k)' => sem'[k] = 0
      BY <2>2, <2>4 DEF JobsInv
    <2>8. \A i \in DOMAIN queue' : queue'[i] # thread'.job
      BY <1>10, <1>a, <2>2, LoadAssumption
    <2>9. posts' + (IF thread'.at = "pop" THEN 1 ELSE 0) + Cardinality(Pushed') <= Len(queue')
      BY <1>10, <1>a, <2>2, <2>5 DEF JobsInv
    <2> QED BY <1>10, <2>6, <2>7, <2>8, <2>9 DEF JobsInv
  <1>11. ASSUME thread'.job = thread.job, thread.at # "pop", thread'.at # "pop",
                UNCHANGED <<at, sem, queue, posts>>
         PROVE  JobsInv'
    <2>1. Pushed' = Pushed /\ \A k \in Loaders : Claimed(k)' = Claimed(k)
      BY <1>11 DEF Pushed, Claimed
    <2> QED BY <1>11, <2>1 DEF JobsInv
  <1>12. ASSUME Access PROVE JobsInv'
    BY <1>12, <1>10, <1>11 DEF Access, Thread, LoadTypeOK
  <1>13. ASSUME OpenFile PROVE JobsInv'
    BY <1>13, <1>10, <1>11 DEF OpenFile, Thread, LoadTypeOK
  <1>14. ASSUME Read PROVE JobsInv'
    BY <1>14, <1>10 DEF Read
  <1>15. ASSUME Saving PROVE JobsInv'
    <2>1. UNCHANGED <<at, sem, queue, posts>> BY <1>15, Zenon DEF Saving, Beside, loaderVars
    <2>2. thread'.job = thread.job /\ thread'.at = thread.at
      <3>1. thread \in Threads BY DEF LoadTypeOK, Threads
      <3> QED BY <1>15, <3>1, WatchEffect
    <2>3. Pushed' = Pushed /\ \A k \in Loaders : Claimed(k)' = Claimed(k)
      BY <2>1, <2>2 DEF Pushed, Claimed
    <2> QED BY <2>1, <2>2, <2>3 DEF JobsInv
  <1>16. ASSUME CrashLoading PROVE JobsInv'
    <2>1. /\ queue' = <<>> /\ posts' = 0 /\ thread'.job = NoJob /\ thread'.at = "wait"
          /\ \A k \in Loaders : at'[k] = "none" /\ sem'[k] = 0
      BY <1>16, AsleepType DEF CrashLoading
    <2>2. Pushed' = {} BY <2>1 DEF Pushed
    <2>3. Cardinality(Pushed') = 0 BY <2>2, FS_EmptySet
    <2>4. \A k \in Loaders : ~Claimed(k)' BY <2>1, LoadAssumption DEF Claimed
    <2> QED BY <2>1, <2>3, <2>4 DEF JobsInv
  <1>17. ASSUME UNCHANGED allVars PROVE JobsInv'
    <2>1. UNCHANGED <<at, sem, queue, posts, thread>>
      BY <1>17 DEF allVars, loadVars, loaderVars
    <2> QED BY <2>1 DEF JobsInv, Pushed, Claimed
  <1> QED BY <1>1, <1>2, <1>3, <1>4, <1>5, <1>6, <1>7, <1>8, <1>9, <1>12, <1>13, <1>14,
             <1>15, <1>16, <1>17, Zenon DEF LoadNext, User, BackgroundThread

LEMMA ThreadStep ==
    LoadTypeOK /\ ThreadInv /\ [LoadNext]_allVars => ThreadInv'
  <1> SUFFICES ASSUME LoadTypeOK, ThreadInv, [LoadNext]_allVars PROVE ThreadInv'
    OBVIOUS
  <1>a. thread \in Threads BY DEF LoadTypeOK, Threads
  <1>b. Asleep.job \notin Loaders /\ Asleep.at = "wait" BY AsleepType, LoadAssumption
  <1>1. ASSUME thread' = thread PROVE ThreadInv' BY <1>1 DEF ThreadInv
  <1>2. ASSUME NEW l \in Loaders, User(l) PROVE thread' = thread
    BY <1>2, Zenon DEF User, Load, Reuse, Post, Proceed, InitTokenizer, WaitReady, Delete, Stays
  <1>3. ASSUME Wait PROVE ThreadInv' BY <1>3, <1>a DEF Wait, ThreadInv, Threads
  <1>4. ASSUME Pop PROVE ThreadInv'
    <2>1. Head(queue) \in Loaders BY <1>4 DEF Pop, LoadTypeOK
    <2> QED BY <1>4, <1>b, <2>1 DEF Pop, ThreadInv
  <1>5. ASSUME NEW content, Finish(content) PROVE ThreadInv'
    BY <1>5, <1>b DEF Finish, ThreadInv
  <1>6. ASSUME Access PROVE ThreadInv' BY <1>6, <1>5, <1>a DEF Access, ThreadInv, Threads
  <1>7. ASSUME OpenFile PROVE ThreadInv'
    BY <1>7, <1>5, <1>a DEF OpenFile, ThreadInv, Threads, Exists
  <1>8. ASSUME Read PROVE ThreadInv' BY <1>8, <1>5 DEF Read
  <1>9. ASSUME Saving PROVE ThreadInv'
    <2>1. /\ thread'.at = thread.at /\ thread'.job = thread.job /\ thread'.seen = thread.seen
      BY <1>9, <1>a, WatchEffect
    <2> QED BY <2>1 DEF ThreadInv
  <1>10. ASSUME CrashLoading PROVE ThreadInv' BY <1>10, <1>b DEF CrashLoading, ThreadInv
  <1>11. UNCHANGED allVars => thread' = thread BY DEF allVars, loadVars
  <1> QED BY <1>1, <1>2, <1>3, <1>4, <1>6, <1>7, <1>8, <1>9, <1>10, <1>11, Zenon
          DEF LoadNext, BackgroundThread

-----------------------------------------------------------------------------
(* What a load sees. A document that is being written in place is not whole.   *)
WrittenInPlace == call.at = "write" /\ call.open /\ buffer \notin Empty => ~disk[call.file].whole

LEMMA InPlaceStep == SaveInv /\ WrittenInPlace /\ [Next]_vars => WrittenInPlace'
  <1> SUFFICES ASSUME SaveInv, WrittenInPlace, [Next]_vars PROVE WrittenInPlace'
    OBVIOUS
  <1>a. TypeOK /\ CallInv BY DEF SaveInv
  <1>b. call \in Calls /\ OpenedFor(call.to) \in Files BY <1>a, CallType
  <1>1. CASE Edit BY <1>1 DEF Edit, Idle, WrittenInPlace
  <1>2. CASE Save \/ AutosaveBackup \/ AutosaveCopy
    BY <1>2 DEF Save, AutosaveBackup, AutosaveCopy, StartSave, WrittenInPlace
  <1>3. CASE Open
    <2>1. CASE /\ disk' = [disk EXCEPT ![OpenedFor(call.to)] = Text(buffer, buffer \in Empty)]
               /\ call' = [call EXCEPT !.at = "write", !.file = OpenedFor(call.to), !.open = TRUE]
      <3>1. disk'[call'.file] = Text(buffer, buffer \in Empty)
        BY <2>1, <1>a, <1>b DEF TypeOK, Calls
      <3>2. buffer' = buffer BY <1>3 DEF Open
      <3>3. buffer \notin Empty => ~Text(buffer, buffer \in Empty).whole
        BY Zenon DEF Text
      <3> QED BY <3>1, <3>2, <3>3 DEF WrittenInPlace
    <2>2. CASE call' = [call EXCEPT !.at = "write", !.file = OpenedFor(call.to)]
      <3>1. ~call.open BY <1>3, <1>a DEF Open, CallInv
      <3>2. ~call'.open BY <2>2, <3>1, <1>b DEF Calls
      <3> QED BY <3>2 DEF WrittenInPlace
    <2>3. CASE call' = Idle BY <2>3 DEF Idle, WrittenInPlace
    <2> QED BY <1>3, <2>1, <2>2, <2>3 DEF Open, Return
  <1>4. CASE Write
    <2>1. call'.at # "write" BY <1>4, <1>b DEF Write, Return, Idle, Calls
    <2> QED BY <2>1 DEF WrittenInPlace
  <1>5. CASE Move \/ MoveFailed
    <2>1. call'.at # "write" BY <1>5, <1>b DEF Move, MoveFailed, Return, Idle, Calls
    <2> QED BY <2>1 DEF WrittenInPlace
  <1>6. CASE Crash BY <1>6 DEF Crash, Idle, WrittenInPlace
  <1>7. CASE UNCHANGED vars BY <1>7 DEF vars, WrittenInPlace
  <1> QED BY <1>1, <1>2, <1>3, <1>4, <1>5, <1>6, <1>7 DEF Next

(* No step writes to a whole document that is no link.                        *)
LEMMA WholeIsNotWritten ==
    ASSUME SaveInv, WrittenInPlace, Overwrite, ~link, Whole(disk["doc"])
    PROVE  disk'["doc"] = disk["doc"]
  <1>a. TypeOK /\ CallInv /\ "doc" \in Files BY DEF SaveInv, Files
  <1>1. CASE Edit \/ Save \/ AutosaveCopy BY <1>1 DEF Edit, Save, AutosaveCopy
  <1>2. CASE Open BY <1>a, <1>2, OpenEffect DEF Whole
  <1>3. CASE Write
    <2>1. CASE disk' = disk BY <2>1
    <2>2. CASE disk' # disk
      <3>1. /\ call.at = "write" /\ call.open /\ buffer \notin Empty
            /\ disk' = [disk EXCEPT ![call.file].whole = TRUE]
        BY <1>3, <2>2, <1>a DEF Write, CallInv
      <3>2. call.file # "doc" BY <3>1 DEF WrittenInPlace, Whole
      <3> QED BY <1>a, <3>1, <3>2 DEF TypeOK
    <2> QED BY <2>1, <2>2
  <1>4. CASE MoveFailed BY <1>a, <1>4, MoveFailedEffect
  <1> QED BY <1>1, <1>2, <1>3, <1>4 DEF Overwrite

LEMMA WholeStep ==
    SaveInv /\ LoadTypeOK /\ ThreadInv /\ WholeInv /\ [LoadNext]_allVars => WholeInv'
  <1> SUFFICES ASSUME SaveInv, LoadTypeOK, ThreadInv, WholeInv, [LoadNext]_allVars
               PROVE  WholeInv'
    OBVIOUS
  <1>a. thread \in Threads BY DEF LoadTypeOK, Threads
  <1>b. WrittenInPlace BY DEF WholeInv, WrittenInPlace
  <1>c. WrittenInPlace' BY <1>b, InPlaceStep, LoadStepIsStep
  <1> DEFINE Rest == /\ thread.at # "read" => ~thread.changed
                     /\ thread.at \in {"open", "read"} /\ thread.clean =>
                            /\ ~link /\ Whole(disk["doc"]) /\ ~thread.changed
                            /\ thread.at = "read" => thread.seen.whole
  <1>d. Rest BY DEF WholeInv
  <1> SUFFICES Rest' BY <1>c DEF WholeInv, WrittenInPlace
  <1>1. ASSUME thread' = thread, UNCHANGED vars PROVE Rest'
    BY <1>1, <1>d DEF vars, Whole
  <1>2. ASSUME NEW l \in Loaders, User(l) PROVE thread' = thread /\ UNCHANGED vars
    BY <1>2, Zenon DEF User, Load, Reuse, Post, Proceed, InitTokenizer, WaitReady, Delete, Stays
  <1>3. ASSUME Wait PROVE Rest'
    BY <1>3, <1>a, <1>d DEF Wait, Threads
  <1>4. ASSUME Pop PROVE Rest'
    <2>1. thread'.at \notin {"open", "read"} /\ ~thread'.changed
      BY <1>4, AsleepType DEF Pop, Asleep
    <2> QED BY <2>1
  <1>5. ASSUME NEW content, Finish(content) PROVE Rest'
    BY <1>5, AsleepType DEF Finish
  <1>6. ASSUME Access PROVE Rest'
    <2>1. UNCHANGED <<disk, link>> BY <1>6 DEF Access, Thread, vars
    <2>2. CASE thread' = [thread EXCEPT !.at = "open", !.clean = Whole(disk["doc"]) /\ ~link]
      <3>1. thread'.at = "open" /\ thread'.changed = thread.changed BY <2>2, <1>a DEF Threads
      <3>2. thread'.clean = (Whole(disk["doc"]) /\ ~link) BY <2>2, <1>a DEF Threads
      <3>3. ~thread.changed BY <1>6, <1>d DEF Access
      <3> QED BY <2>1, <3>1, <3>2, <3>3 DEF Whole
    <2> QED BY <1>6, <1>5, <2>2 DEF Access
  <1>7. ASSUME OpenFile PROVE Rest'
    <2>1. UNCHANGED <<disk, link>> BY <1>7 DEF OpenFile, Thread, vars
    <2>2. CASE thread' = [thread EXCEPT !.at = "read", !.seen = disk["doc"]]
      <3>1. /\ thread'.at = "read" /\ thread'.seen = disk["doc"]
            /\ thread'.changed = thread.changed /\ thread'.clean = thread.clean
        BY <2>2, <1>a DEF Threads
      <3> QED BY <1>7, <1>d, <2>1, <3>1 DEF OpenFile, Whole
    <2> QED BY <1>7, <1>5, <2>2 DEF OpenFile
  <1>8. ASSUME Read PROVE Rest' BY <1>8, <1>5 DEF Read
  <1>9. ASSUME Saving PROVE Rest'
    <2>1. PICK inode \in {"doc", "bak", "nowhere"}, changed \in BOOLEAN :
              /\ ~changed \/ (Overwrite /\ Reading /\ disk'["doc"] # disk["doc"])
              /\ thread'.at = thread.at /\ thread'.seen = thread.seen
              /\ thread'.changed = (thread.changed \/ changed)
              /\ thread'.clean => /\ thread.clean /\ disk'["doc"] # Absent
                                  /\ buffer \notin Empty
      BY <1>9, <1>a, WatchEffect
    <2>2. thread'.at # "read" => ~thread'.changed
      BY <1>a, <1>d, <2>1 DEF Reading, Threads
    <2>3. ASSUME thread'.at \in {"open", "read"}, thread'.clean
          PROVE  /\ ~link' /\ Whole(disk'["doc"]) /\ ~thread'.changed
                 /\ thread'.at = "read" => thread'.seen.whole
      <3>1. /\ ~link /\ Whole(disk["doc"]) /\ ~thread.changed
            /\ thread.at = "read" => thread.seen.whole
        BY <1>d, <2>1, <2>3
      <3>2. Whole(disk'["doc"]) BY <2>1, <2>3, <3>1, NeverTornStep, LoadStepIsStep
      <3>3. ~changed BY <1>b, <2>1, <3>1, WholeIsNotWritten
      <3>4. ~link'
        BY <1>9, <3>1, Zenon DEF Saving, Overwrite, MoveAway, Replace, Edit, Save,
           AutosaveCopy, Open, Write, MoveFailed, AutosaveBackup, Move
      <3> QED BY <1>a, <2>1, <3>1, <3>2, <3>3, <3>4 DEF Threads
    <2> QED BY <2>2, <2>3 DEF Whole
  <1>10. ASSUME CrashLoading PROVE Rest' BY <1>10, AsleepType DEF CrashLoading
  <1>11. UNCHANGED allVars => thread' = thread /\ UNCHANGED vars BY DEF allVars, loadVars
  <1> HIDE DEF Rest
  <1> QED BY <1>1, <1>2, <1>3, <1>4, <1>6, <1>7, <1>8, <1>9, <1>10, <1>11, Zenon
          DEF LoadNext, BackgroundThread

(* As long as no version was empty, what is reported as saved never gets older, and
   the document is as new.                                                    *)
LEMMA ReportedGrows ==
    ASSUME SaveInv, [Next]_vars, NoneEmpty'
    PROVE  /\ NoneEmpty
           /\ reported' >= reported
           /\ disk["doc"] # Absent => disk["doc"].version >= reported
  <1>a. TypeOK /\ CallInv /\ VersionInv BY DEF SaveInv
  <1>b. /\ edits \in Nat /\ reported \in Nat /\ buffer \in Nat
    BY <1>a, SaveAssumption DEF TypeOK, Versions
  <1>1. edits' = edits \/ edits' = edits + 1
    BY Zenon DEF Next, Edit, Save, AutosaveBackup, AutosaveCopy, Open, Write, Move,
       MoveFailed, Crash, vars
  <1>2. NoneEmpty
    <2>1. \A v \in Empty : v \in Nat /\ v > edits' BY SaveAssumption DEF NoneEmpty
    <2> QED BY <1>b, <1>1, <2>1 DEF NoneEmpty
  <1>3. reported \notin Empty
    BY <1>a, <1>b, <1>2, SaveAssumption DEF NoneEmpty, VersionInv
  <1>4. buffer >= reported /\ (disk["doc"] # Absent => disk["doc"].version >= reported)
    BY <1>a, <1>3 DEF VersionInv
  <1>5. reported' \in {reported, buffer}
    <2>1. \A ok \in BOOLEAN : Return(ok) => reported' \in {reported, buffer}
      BY ReturnReports
    <2>2. Open \/ Write \/ Move \/ MoveFailed => reported' \in {reported, buffer}
      BY <2>1 DEF Open, Write, Move, MoveFailed, ResultOfFailedMove
    <2>3. Edit \/ Save \/ AutosaveBackup \/ AutosaveCopy \/ Crash \/ UNCHANGED vars
             => reported' = reported
      BY Zenon DEF Edit, Save, AutosaveBackup, AutosaveCopy, Crash, vars, ghostVars
    <2> QED BY <2>2, <2>3 DEF Next
  <1> QED BY <1>b, <1>2, <1>4, <1>5

LEMMA AskedStep ==
    SaveInv /\ LoadTypeOK /\ JobsInv /\ ThreadInv /\ AskedInv /\ [LoadNext]_allVars => AskedInv'
  <1> SUFFICES ASSUME SaveInv, LoadTypeOK, JobsInv, ThreadInv, AskedInv, [LoadNext]_allVars,
                      NoneEmpty'
               PROVE  /\ \A l \in Loaders : asked'[l] <= reported'
                      /\ thread'.at = "read" => thread'.seen.version >= asked'[thread'.job]
    BY DEF AskedInv
  <1>a. /\ NoneEmpty /\ reported' >= reported
        /\ disk["doc"] # Absent => disk["doc"].version >= reported
    BY ReportedGrows, LoadStepIsStep
  <1>b. /\ \A l \in Loaders : asked[l] <= reported
        /\ thread.at = "read" => thread.seen.version >= asked[thread.job]
    BY <1>a DEF AskedInv
  <1>c. /\ thread \in Threads /\ asked \in [Loaders -> 0..MaxEdits] /\ MaxEdits \in Nat
        /\ reported \in 0..MaxEdits
    BY SaveAssumption DEF LoadTypeOK, Threads, SaveInv, TypeOK
  <1>d. reported' \in Nat
    <2>1. SaveInv' BY TypeStep, CallStep, VersionStep, SurvivalStep, LoadStepIsStep DEF SaveInv
    <2> QED BY <2>1, <1>c DEF SaveInv, TypeOK
  <1>e. thread.at = "read" => thread.job \in Loaders /\ thread.seen.version \in Nat
    BY <1>c DEF ThreadInv, Threads, Contents, Versions
  <1>f. \A l \in Loaders : asked[l] \in Nat BY <1>c
  <1> DEFINE Goal == /\ \A l \in Loaders : asked'[l] <= reported'
                     /\ thread'.at = "read" => thread'.seen.version >= asked'[thread'.job]
  <1>1. ASSUME asked' = asked, thread'.at = "read" =>
                   thread.at = "read" /\ thread'.seen = thread.seen /\ thread'.job = thread.job
        PROVE  Goal
    BY <1>1, <1>a, <1>b, <1>c, <1>d, <1>f
  <1>2. ASSUME NEW l \in Loaders, MakeLoader(l), thread' = thread PROVE Goal
    <2>1. thread.job # l BY <1>2 DEF MakeLoader, JobsInv, Claimed
    <2>2. \A k \in Loaders : asked'[k] = IF k = l THEN reported ELSE asked[k]
      BY <1>2, <1>c DEF MakeLoader
    <2> QED BY <1>2, <1>a, <1>b, <1>c, <1>d, <1>e, <1>f, <2>1, <2>2
  <1>3. ASSUME NEW l \in Loaders, Deleted(l), thread' = thread PROVE Goal
    <2>1. \A k \in Loaders : asked'[k] = IF k = l THEN 0 ELSE asked[k]
      BY <1>3, <1>c DEF Deleted
    <2> QED BY <1>3, <1>a, <1>b, <1>c, <1>d, <1>e, <1>f, <2>1
  <1>4. ASSUME NEW l \in Loaders, User(l) PROVE Goal
    <2>1. thread' = thread
      BY <1>4, Zenon DEF User, Load, Reuse, Post, Proceed, InitTokenizer, WaitReady, Delete, Stays
    <2>2. CASE Load(l) \/ Reuse(l) BY <2>1, <2>2, <1>2, Zenon DEF Load, Reuse
    <2>3. CASE Post(l) \/ Proceed(l) \/ InitTokenizer(l)
      <3>1. asked' = asked BY <2>3, Zenon DEF Post, Proceed, InitTokenizer
      <3> QED BY <2>1, <3>1, <1>1
    <2>4. CASE WaitReady(l)
      <3>1. Deleted(l) \/ asked' = asked BY <2>4, Zenon DEF WaitReady
      <3> QED BY <2>1, <3>1, <1>1, <1>3
    <2>5. CASE Delete(l) BY <2>1, <2>5, <1>3 DEF Delete
    <2> QED BY <1>4, <2>2, <2>3, <2>4, <2>5 DEF User
  <1>5. ASSUME BackgroundThread PROVE Goal
    <2>1. asked' = asked
      BY <1>5, Zenon DEF BackgroundThread, Wait, Pop, Access, OpenFile, Read, Thread
    <2>2. CASE thread'.at # "read" BY <2>1, <2>2, <1>1
    <2>3. CASE thread'.at = "read"
      <3>1. OpenFile /\ Exists /\ thread' = [thread EXCEPT !.at = "read", !.seen = disk["doc"]]
        BY <1>5, <2>3, <1>c, AsleepType
           DEF BackgroundThread, Wait, Pop, Access, OpenFile, Read, Finish, Threads, Asleep
      <3>2. thread'.seen = disk["doc"] /\ thread'.job = thread.job BY <3>1, <1>c DEF Threads
      <3>3. thread.job \in Loaders BY <3>1 DEF OpenFile, ThreadInv
      <3>4. disk["doc"] # Absent /\ disk["doc"].version \in Nat
        <4>1. TypeOK /\ "doc" \in Files BY DEF SaveInv, Files
        <4>2. disk["doc"] # Absent BY <3>1 DEF Exists
        <4> QED BY <4>1, <4>2, DiskType DEF Versions
      <3> QED BY <1>a, <1>b, <1>c, <1>d, <1>f, <2>1, <3>2, <3>3, <3>4
    <2> QED BY <2>2, <2>3
  <1>6. ASSUME Saving PROVE Goal
    <2>1. asked' = asked BY <1>6, Zenon DEF Saving, Beside, loaderVars
    <2>2. /\ thread'.at = thread.at /\ thread'.job = thread.job /\ thread'.seen = thread.seen
      BY <1>6, <1>c, WatchEffect
    <2> QED BY <2>1, <2>2, <1>1
  <1>7. ASSUME CrashLoading PROVE Goal
    <2>1. /\ thread'.at # "read" /\ \A l \in Loaders : asked'[l] = 0
      BY <1>7, AsleepType DEF CrashLoading
    <2> QED BY <2>1, <1>d
  <1>8. ASSUME UNCHANGED allVars PROVE Goal
    BY <1>8, <1>1 DEF allVars, loadVars, loaderVars
  <1> QED BY <1>4, <1>5, <1>6, <1>7, <1>8 DEF LoadNext

-----------------------------------------------------------------------------
(* The background thread and the users of a loader meet only loaders that exist, and
   the thread finds a job whenever it was woken.                              *)
THEOREM LoadInvHolds == LoadSpec => []LoadInv
  <1>1. SaveInv /\ SaveInv' /\ LoadInv /\ [LoadNext]_allVars => LoadInv'
    <2> SUFFICES ASSUME SaveInv, SaveInv', LoadInv, [LoadNext]_allVars PROVE LoadInv'
      OBVIOUS
    <2>1. LoadTypeOK' BY LoadTypeStep DEF LoadInv
    <2>2. JobsInv' BY JobsStep DEF LoadInv
    <2>3. JobsAreAlive'
      <3>1. (LoadTypeOK /\ JobsInv => JobsAreAlive)' BY AliveFromJobs, PTL
      <3> QED BY <3>1, <2>1, <2>2
    <2>4. ThreadInv' BY ThreadStep DEF LoadInv
    <2>5. WholeInv' BY WholeStep DEF LoadInv
    <2>6. AskedInv' BY AskedStep DEF LoadInv
    <2> QED BY <2>1, <2>2, <2>3, <2>4, <2>5, <2>6 DEF LoadInv
  <1> QED BY LoadInitInv, SaveInvBesideLoads, <1>1, PTL DEF LoadSpec

(* A whole document that stays at its place is loaded whole, whatever is saved while
   it is read, and not older than what was reported when the load was asked for. *)
THEOREM LoadedIsWholeHolds == LoadSpec => LoadedIsWhole
  <1>1. ASSUME LoadInv, [LoadNext]_allVars,
               thread.at = "read", thread'.at = "wait", thread.clean,
               data'[thread.job] # Absent
        PROVE  /\ data'[thread.job].whole
               /\ NoneEmpty => data'[thread.job].version >= asked[thread.job]
    <2>a. thread \in Threads /\ thread.job \in Loaders
      BY <1>1 DEF LoadInv, LoadTypeOK, ThreadInv, Threads
    <2>b. thread.seen \in [version : Versions, whole : BOOLEAN] /\ thread.seen.whole
          /\ ~thread.changed
      BY <1>1, <2>a DEF LoadInv, WholeInv, ThreadInv, Threads, Contents
    <2>c. NoneEmpty => thread.seen.version >= asked[thread.job]
      BY <1>1 DEF LoadInv, AskedInv
    <2>1. CASE Read
      <3>1. PICK content \in {Absent, [thread.seen EXCEPT !.whole = @ /\ ~thread.changed]} :
                Finish(content)
        BY <2>1 DEF Read
      <3>2. data'[thread.job] = content
        BY <1>1, <2>a, <3>1 DEF Finish, LoadInv, LoadTypeOK
      <3>3. content.whole = (thread.seen.whole /\ ~thread.changed)
            /\ content.version = thread.seen.version
        BY <1>1, <2>b, <3>1, <3>2
      <3> QED BY <2>b, <2>c, <3>2, <3>3
    <2>2. CASE CrashLoading BY <1>1, <2>a, <2>2 DEF CrashLoading
    <2>3. CASE Saving
      <3>1. thread'.at = thread.at BY <2>a, <2>3, WatchEffect
      <3> QED BY <3>1, <1>1
    <2>4. ASSUME NEW l \in Loaders, User(l) PROVE thread' = thread
      BY <2>4, Zenon DEF User, Load, Reuse, Post, Proceed, InitTokenizer, WaitReady, Delete, Stays
    <2>5. Wait \/ Pop \/ Access \/ OpenFile => thread.at # "read"
      BY DEF Wait, Pop, Access, OpenFile
    <2>6. UNCHANGED allVars => thread' = thread BY DEF allVars, loadVars
    <2> QED BY <1>1, <2>1, <2>2, <2>3, <2>4, <2>5, <2>6 DEF LoadNext, BackgroundThread
  <1>2. LoadInv /\ [LoadNext]_allVars =>
           [thread.at = "read" /\ thread'.at = "wait" /\ thread.clean =>
               LET loaded == data'[thread.job]
               IN loaded # Absent =>
                     /\ loaded.whole
                     /\ NoneEmpty => loaded.version >= asked[thread.job]]_allVars
    BY <1>1
  <1> QED BY LoadInvHolds, <1>2, PTL DEF LoadSpec, LoadedIsWhole
=============================================================================
