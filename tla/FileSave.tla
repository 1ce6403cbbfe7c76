------------------------------- MODULE FileSave -------------------------------
(* How a document reaches the disk: FileManager::Save (src/sdk/filemanager.cpp),
   called by the editor and by the autosave plugin (plugins/autosave/autosave.cpp).
   The program may crash between any two operations on files; then the user opens
   the document again. What the system has written it keeps: a loss of power is
   left out, as the comment at filemanager.cpp:215 leaves it out.             *)
EXTENDS Naturals

CONSTANTS
    Absent,                 \* the content of a file that does not exist
    Empty,                  \* the versions of the document that have no text
    MayBeLink,              \* may the document be a symbolic link?
    Methods,                \* the autosave methods the user switches between
    MaxEdits, MaxFailures, MaxCrashes   \* bounds

ASSUME SaveAssumption ==
    /\ Empty \subseteq Nat /\ MayBeLink \in BOOLEAN /\ Methods \subseteq {0, 1, 2}
    /\ MaxEdits \in Nat \ {0} /\ MaxFailures \in Nat /\ MaxCrashes \in Nat
    /\ Absent \notin [version : 1..MaxEdits, whole : BOOLEAN]

VARIABLES
    disk,                   \* the content of every file
    link,                   \* is the document a symbolic link?
    buffer, modified,       \* the version in the editor; GetModified()
    call,                   \* the save that is under way
    reported,               \* ghost: the version last reported as saved, or 0
    tornBackup,             \* ghost: has a damaged document become the backup?
    edits, failures, crashes

vars == <<disk, link, buffer, modified, call, reported, tornBackup, edits, failures, crashes>>
ghostVars == <<reported, tornBackup>>

(* The document, autosave's backup and copy, and the two files Save puts beside
   the file it writes.                                                       *)
Files == {"doc", "bak", "copy", "doc.temp", "copy.temp", "doc.failed", "copy.failed"}
Temp == [doc |-> "doc.temp", copy |-> "copy.temp"]
Failed == [doc |-> "doc.failed", copy |-> "copy.failed"]

Versions == 1..MaxEdits
Text(v, whole) == [version |-> v, whole |-> whole]
Contents == {Absent} \cup [version : Versions, whole : BOOLEAN]
Whole(content) == content # Absent /\ content.whole

(* to is the file that is written, file the one that is opened for it.        *)
Idle == [at |-> "idle", to |-> "doc", file |-> "doc", open |-> FALSE, user |-> FALSE]
Calls == [at : {"idle", "open", "write", "move", "moveFailed"}, to : {"doc", "copy"},
          file : Files, open : BOOLEAN, user : BOOLEAN]

Init ==
    /\ disk \in [Files -> {Absent, Text(1, TRUE)}]
    /\ \A f \in Files \ {"doc"} : disk[f] = Absent
    /\ link \in {FALSE} \cup {MayBeLink}
    /\ disk["doc"] = Absent => ~link
    /\ buffer = 1 /\ edits = 1 /\ modified = (disk["doc"] = Absent)
    /\ call = Idle
    /\ reported = IF disk["doc"] = Absent THEN 0 ELSE 1
    /\ tornBackup = FALSE /\ failures = 0 /\ crashes = 0

-----------------------------------------------------------------------------
Edit ==
    /\ call = Idle /\ edits < MaxEdits
    /\ edits' = edits + 1 /\ buffer' = edits' /\ modified' = TRUE
    /\ UNCHANGED <<disk, link, call, ghostVars, failures, crashes>>

Fails == failures < MaxFailures /\ failures' = failures + 1
Succeeds == UNCHANGED failures

(* The branches of Save: a new file and a link are written in place, another file
   through a temporary file.                                                 *)
FaultInPlace(to) == to
OpenedFor(to) == IF disk[to] = Absent \/ (to = "doc" /\ link) THEN to ELSE Temp[to]

StartSave(to, user) ==
    call' = [at |-> "open", to |-> to, file |-> to, open |-> FALSE, user |-> user]

(* cbEditor::Save, by the user or by autosave's method 1.                     *)
Save ==
    /\ call = Idle /\ modified
    /\ StartSave("doc", TRUE)
    /\ UNCHANGED <<disk, link, buffer, modified, ghostVars, edits, failures, crashes>>

(* Autosave's method 0 renames the document, if there is one, and saves it again. *)
FaultBackupByDeletion == disk' = [disk EXCEPT !["doc"] = Absent]
Backup == disk' = [disk EXCEPT !["bak"] = disk["doc"], !["doc"] = Absent]
AutosaveBackup ==
    /\ 0 \in Methods /\ call = Idle /\ modified /\ disk["doc"] # Absent
    /\ Backup
    /\ link' = FALSE
    /\ tornBackup' = (tornBackup \/ ~Whole(disk["doc"]))
    /\ StartSave("doc", FALSE)
    /\ UNCHANGED <<buffer, modified, reported, edits, failures, crashes>>

(* Method 2 saves a copy beside it.                                           *)
AutosaveCopy ==
    /\ 2 \in Methods /\ call = Idle /\ modified
    /\ StartSave("copy", FALSE)
    /\ UNCHANGED <<disk, link, buffer, modified, ghostVars, edits, failures, crashes>>

-----------------------------------------------------------------------------
(* The editor's call reports success and clears the modified flag; autosave's
   other methods look at no result.                                          *)
Return(ok) ==
    /\ call' = Idle
    /\ modified' = IF call.user THEN ~ok ELSE modified
    /\ reported' = IF call.user /\ ok THEN buffer ELSE reported

(* An existing file without write access is given up; a file that cannot be opened
   is not noticed before the first write. Opening truncates.                  *)
Open ==
    /\ call.at = "open"
    /\ LET file == OpenedFor(call.to)
       IN  \/ /\ Succeeds
              /\ disk' = [disk EXCEPT ![file] = Text(buffer, buffer \in Empty)]
              /\ call' = [call EXCEPT !.at = "write", !.file = file, !.open = TRUE]
              /\ UNCHANGED <<modified, reported>>
           \/ /\ Fails
              /\ call' = [call EXCEPT !.at = "write", !.file = file]
              /\ UNCHANGED <<disk, modified, reported>>
           \/ /\ file # call.to
              /\ Fails
              /\ Return(FALSE)
              /\ UNCHANGED disk
    /\ UNCHANGED <<link, buffer, tornBackup, edits, crashes>>

(* WriteWxStringToFile: an empty text without a byte order mark needs no write. *)
Write ==
    /\ call.at = "write"
    /\ \/ /\ buffer \in Empty \/ call.open
          /\ Succeeds
          /\ disk' = IF buffer \in Empty THEN disk ELSE [disk EXCEPT ![call.file].whole = TRUE]
          /\ IF call.file = call.to
             THEN Return(TRUE)
             ELSE call' = [call EXCEPT !.at = "move"] /\ UNCHANGED <<modified, reported>>
       \/ /\ buffer \notin Empty
          /\ IF call.open THEN Fails ELSE Succeeds
          /\ Return(FALSE)
          /\ UNCHANGED disk
    /\ UNCHANGED <<link, buffer, tornBackup, edits, crashes>>

Rename(from, to) == disk' = [disk EXCEPT ![to] = disk[from], ![from] = Absent]

FaultResultOfMove == TRUE
ResultOfFailedMove == FALSE

(* platform::move to the document; if it fails, to a file that says so.       *)
Move ==
    /\ call.at = "move"
    /\ \/ /\ disk[call.file] # Absent
          /\ Succeeds
          /\ Rename(call.file, call.to)
          /\ Return(TRUE)
       \/ /\ IF disk[call.file] # Absent THEN Fails ELSE Succeeds
          /\ call' = [call EXCEPT !.at = "moveFailed"]
          /\ UNCHANGED <<disk, modified, reported>>
    /\ UNCHANGED <<link, buffer, tornBackup, edits, crashes>>
MoveFailed ==
    /\ call.at = "moveFailed"
    /\ \/ /\ disk[call.file] # Absent
          /\ Succeeds
          /\ Rename(call.file, Failed[call.to])
       \/ /\ IF disk[call.file] # Absent THEN Fails ELSE Succeeds
          /\ UNCHANGED disk
    /\ Return(ResultOfFailedMove)
    /\ UNCHANGED <<link, buffer, tornBackup, edits, crashes>>

(* The program ends; it opens the document again if that is still readable.   *)
Crash ==
    /\ crashes < MaxCrashes /\ Whole(disk["doc"])
    /\ crashes' = crashes + 1
    /\ call' = Idle
    /\ buffer' = disk["doc"].version /\ modified' = FALSE
    /\ UNCHANGED <<disk, link, ghostVars, edits, failures>>

Next ==
    \/ Edit \/ Save \/ AutosaveBackup \/ AutosaveCopy
    \/ Open \/ Write \/ Move \/ MoveFailed
    \/ Crash

Spec == Init /\ [][Next]_vars

-----------------------------------------------------------------------------
TypeOK ==
    /\ disk \in [Files -> Contents] /\ link \in BOOLEAN
    /\ buffer \in Versions /\ modified \in BOOLEAN
    /\ call \in Calls
    /\ reported \in 0..MaxEdits /\ tornBackup \in BOOLEAN
    /\ edits \in Versions /\ failures \in 0..MaxFailures /\ crashes \in 0..MaxCrashes

(* A whole document is only ever replaced by a whole one, but through a link,
   whichever operation fails or is the last before a crash; renaming it away is
   left to AutosaveBackup. Emptying the document is the exception: a temporary
   file that cannot be opened is then not noticed, and an old one is moved.   *)
NeverTorn ==
    [][Whole(disk["doc"]) /\ disk'["doc"] # Absent /\ buffer \notin Empty =>
           link \/ Whole(disk'["doc"])]_vars

(* What the editor takes as saved is on the disk: whole, and the version of the
   buffer; with the same exception.                                          *)
SavedIsOnDisk ==
    [][call # Idle /\ call.user /\ ~modified' /\ crashes' = crashes /\ buffer \notin Empty =>
           disk'["doc"] = Text(buffer, TRUE)]_vars

(* At every moment some file holds the version last saved, or a later one, whole:
   after any failures and crashes, for a document that has text and is no link,
   unless method 0 has made a damaged document the backup.                    *)
SomethingSurvives ==
    ~link /\ ~tornBackup =>
        \/ reported \in Empty \cup {0}
        \/ \E f \in Files : Whole(disk[f]) /\ disk[f].version >= reported

(* Why it holds, for FileSaveProofs: SaveInv is inductive. What is known of the
   save under way: whose it is, which file it writes, what it has put there.  *)
CallInv ==
    /\ call.at = "idle" => call = Idle
    /\ call.at = "open" => ~call.open
    /\ call.user => call.to = "doc" /\ modified
    /\ call.at \in {"write", "move", "moveFailed"} => call.file \in {call.to, Temp[call.to]}
    /\ call.at \in {"move", "moveFailed"} => call.file = Temp[call.to]
    /\ call.at \in {"write", "move"} /\ call.open =>
           /\ disk[call.file] # Absent /\ disk[call.file].version = buffer
           /\ call.at = "move" \/ buffer \in Empty => disk[call.file].whole
    /\ call.at = "move" /\ ~call.open => buffer \in Empty
    /\ call.at # "idle" /\ call.to = "doc" /\ ~call.user =>
           \/ call.at = "open" /\ disk["doc"] = Absent
           \/ call.at = "write" /\ call.file = "doc"

(* The document and the buffer are never older than what was reported as saved. *)
VersionInv ==
    /\ buffer <= edits /\ reported <= edits
    /\ \A f \in Files : disk[f] # Absent => disk[f].version <= edits
    /\ reported \notin Empty =>
           /\ buffer >= reported
           /\ disk["doc"] # Absent => disk["doc"].version >= reported

(* The surviving version is in the document or in the backup.                *)
SurvivalInv ==
    ~link /\ ~tornBackup =>
        \/ reported \in Empty \cup {0}
        \/ \E f \in {"doc", "bak"} : Whole(disk[f]) /\ disk[f].version >= reported

SaveInv == TypeOK /\ CallInv /\ VersionInv /\ SurvivalInv
=============================================================================
