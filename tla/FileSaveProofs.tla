---------------------------- MODULE FileSaveProofs ----------------------------
(* Theorems of FileSave: SaveInv is inductive, and what a user relies on follows
   from it, for any number of edits, failures and crashes.                    *)
EXTENDS FileSave, TLAPS

LEMMA SaveInvInit == Init => SaveInv
  <1> SUFFICES ASSUME Init PROVE SaveInv
    OBVIOUS
  <1>1. Text(1, TRUE) \in Contents BY SaveAssumption DEF Contents, Text, Versions
  <1>2. disk \in [Files -> {Absent, Text(1, TRUE)}] BY DEF Init
  <1>3. TypeOK
    <2>1. disk \in [Files -> Contents] BY <1>1, <1>2 DEF Contents
    <2>2. call \in Calls BY DEF Init, Idle, Calls, Files
    <2>3. link \in BOOLEAN BY SaveAssumption, Zenon DEF Init
    <2>4. modified \in BOOLEAN BY Zenon DEF Init
    <2>5. tornBackup \in BOOLEAN BY Zenon DEF Init
    <2>6. buffer \in Versions /\ edits \in Versions /\ reported \in 0..MaxEdits
      BY SaveAssumption DEF Init, Versions
    <2>7. failures \in 0..MaxFailures /\ crashes \in 0..MaxCrashes BY SaveAssumption DEF Init
    <2> QED BY <2>1, <2>2, <2>3, <2>4, <2>5, <2>6, <2>7, Zenon DEF TypeOK
  <1>4. CallInv BY DEF Init, CallInv, Idle
  <1>5. \A f \in Files : disk[f] # Absent => disk[f] = Text(1, TRUE) BY <1>2
  <1>6. "doc" \in Files BY DEF Files
  <1>7. reported \in {0, 1} /\ (disk["doc"] = Absent => reported = 0) BY DEF Init
  <1>8. VersionInv BY <1>5, <1>6, <1>7, Zenon, SMT DEF Init, VersionInv, Text
  <1>9. SurvivalInv
    <2>1. CASE disk["doc"] = Absent BY <2>1, <1>7 DEF SurvivalInv
    <2>2. CASE disk["doc"] # Absent
      BY <2>2, <1>5, <1>6, <1>7 DEF SurvivalInv, Whole, Text
    <2> QED BY <2>1, <2>2
  <1> QED BY <1>3, <1>4, <1>8, <1>9 DEF SaveInv

(* Records of the two kinds, as the leaves need them.                        *)
LEMMA CallType ==
    ASSUME TypeOK
    PROVE  /\ call \in Calls
           /\ call.at \in {"idle", "open", "write", "move", "moveFailed"}
           /\ call.to \in {"doc", "copy"} /\ call.to \in Files
           /\ call.file \in Files /\ call.open \in BOOLEAN /\ call.user \in BOOLEAN
           /\ Temp[call.to] \in Files \ {"doc", "bak"}
           /\ Failed[call.to] \in Files \ {"doc", "bak"}
           /\ OpenedFor(call.to) \in {call.to, Temp[call.to]} /\ OpenedFor(call.to) \in Files
  <1>1. call \in Calls BY DEF TypeOK
  <1>2. call.to \in {"doc", "copy"} BY <1>1 DEF Calls
  <1>3. /\ Temp["doc"] = "doc.temp" /\ Temp["copy"] = "copy.temp"
        /\ Failed["doc"] = "doc.failed" /\ Failed["copy"] = "copy.failed"
    BY DEF Temp, Failed
  <1>4. Temp[call.to] \in Files \ {"doc", "bak"} /\ Failed[call.to] \in Files \ {"doc", "bak"}
    BY <1>2, <1>3 DEF Files
  <1> QED BY <1>1, <1>2, <1>4 DEF Calls, Files, OpenedFor

LEMMA DiskType ==
    ASSUME TypeOK, NEW f \in Files, disk[f] # Absent
    PROVE  /\ disk[f] \in [version : Versions, whole : BOOLEAN]
           /\ disk[f].version \in Versions /\ disk[f].whole \in BOOLEAN
  BY DEF TypeOK, Contents

LEMMA TextType ==
    ASSUME NEW v \in Versions, NEW w \in BOOLEAN
    PROVE  /\ Text(v, w) \in [version : Versions, whole : BOOLEAN]
           /\ Text(v, w) \in Contents /\ Text(v, w) # Absent
           /\ Text(v, w).version = v /\ Text(v, w).whole = w
  BY SaveAssumption DEF Text, Contents, Versions

LEMMA OpenedType ==
    ASSUME NEW v \in Versions
    PROVE  /\ Text(v, v \in Empty) \in Contents /\ Text(v, v \in Empty) # Absent
           /\ Text(v, v \in Empty).version = v
           /\ v \in Empty => Text(v, v \in Empty).whole
  <1>1. CASE v \in Empty
    <2>1. (v \in Empty) = TRUE BY <1>1
    <2>2. Text(v, v \in Empty) = Text(v, TRUE) BY <2>1, Zenon DEF Text
    <2> QED BY <2>2, TextType
  <1>2. CASE v \notin Empty
    <2>1. (v \in Empty) = FALSE BY <1>2
    <2>2. Text(v, v \in Empty) = Text(v, FALSE) BY <2>1, Zenon DEF Text
    <2> QED BY <1>2, <2>2, TextType
  <1> QED BY <1>1, <1>2

LEMMA TypeStep == TypeOK /\ CallInv /\ [Next]_vars => TypeOK'
  <1> SUFFICES ASSUME TypeOK, CallInv, [Next]_vars PROVE TypeOK'
    OBVIOUS
  <1> USE DEF ghostVars
  <1>1. CASE UNCHANGED vars BY <1>1 DEF TypeOK, vars
  <1>2. CASE Edit BY <1>2, SaveAssumption DEF Edit, TypeOK, Versions
  <1>3. ASSUME NEW to \in {"doc", "copy"}, NEW user \in BOOLEAN, StartSave(to, user)
        PROVE  call' \in Calls
    BY <1>3 DEF StartSave, Calls, Files
  <1>4. CASE Save BY <1>3, <1>4 DEF Save, TypeOK
  <1>5. CASE AutosaveBackup
    <2>1. call' \in Calls BY <1>3, <1>5 DEF AutosaveBackup
    <2>2. disk' \in [Files -> Contents]
      <3>1. Absent \in Contents /\ disk["doc"] \in Contents BY DEF TypeOK, Contents, Files
      <3> QED BY <1>5, <3>1 DEF AutosaveBackup, Backup, TypeOK
    <2>3. tornBackup' \in BOOLEAN BY <1>5 DEF AutosaveBackup
    <2> QED BY <1>5, <2>1, <2>2, <2>3 DEF AutosaveBackup, TypeOK
  <1>6. CASE AutosaveCopy BY <1>3, <1>6 DEF AutosaveCopy, TypeOK
  <1>7. Idle \in Calls BY DEF Idle, Calls, Files
  <1>8. ASSUME NEW ok \in BOOLEAN, Return(ok)
        PROVE  call' \in Calls /\ modified' \in BOOLEAN /\ reported' \in 0..MaxEdits
    <2>1. call' \in Calls BY <1>7, <1>8 DEF Return
    <2>2. modified' \in BOOLEAN BY <1>8, Zenon DEF Return, TypeOK
    <2>3. reported' \in 0..MaxEdits BY <1>8 DEF Return, TypeOK, Versions
    <2> QED BY <2>1, <2>2, <2>3
  <1>9. ASSUME Fails \/ Succeeds PROVE failures' \in 0..MaxFailures
    BY <1>9, SaveAssumption DEF Fails, Succeeds, TypeOK
  <1>10. CASE Open
    <2>1. failures' \in 0..MaxFailures BY <1>9, <1>10 DEF Open
    <2>2. disk' \in [Files -> Contents]
      <3>2. Text(buffer, buffer \in Empty) \in Contents BY OpenedType DEF TypeOK
      <3> QED BY <1>10, <3>2 DEF Open, TypeOK
    <2>3. call' \in Calls /\ modified' \in BOOLEAN /\ reported' \in 0..MaxEdits
      <3>1. OpenedFor(call.to) \in Files BY CallType
      <3> QED BY <1>8, <1>10, <3>1 DEF Open, TypeOK, Calls
    <2> QED BY <1>10, <2>1, <2>2, <2>3 DEF Open, TypeOK
  <1>11. CASE Write
    <2>1. failures' \in 0..MaxFailures BY <1>9, <1>11 DEF Write
    <2>2. disk' \in [Files -> Contents]
      <3>1. CASE disk' = disk BY <3>1 DEF TypeOK
      <3>2. CASE disk' = [disk EXCEPT ![call.file].whole = TRUE] /\ buffer \notin Empty /\ call.open
        <4>1. call.file \in Files /\ disk[call.file] # Absent
          BY <1>11, <3>2, CallType DEF CallInv, Write
        <4>2. disk[call.file] \in [version : Versions, whole : BOOLEAN] BY <4>1, DiskType
        <4>3. [disk[call.file] EXCEPT !.whole = TRUE] \in Contents BY <4>2 DEF Contents
        <4> QED BY <3>2, <4>1, <4>3 DEF TypeOK
      <3> QED BY <1>11, <3>1, <3>2 DEF Write
    <2>3. call' \in Calls /\ modified' \in BOOLEAN /\ reported' \in 0..MaxEdits
      BY <1>8, <1>11 DEF Write, TypeOK, Calls
    <2> QED BY <1>11, <2>1, <2>2, <2>3 DEF Write, TypeOK
  <1>12. ASSUME NEW from \in Files, NEW to \in Files, Rename(from, to)
         PROVE  disk' \in [Files -> Contents]
    BY <1>12 DEF Rename, TypeOK, Contents
  <1>13. CASE Move
    <2>1. failures' \in 0..MaxFailures BY <1>9, <1>13 DEF Move
    <2>2. disk' \in [Files -> Contents] BY <1>12, <1>13, CallType DEF Move, TypeOK
    <2>3. call' \in Calls /\ modified' \in BOOLEAN /\ reported' \in 0..MaxEdits
      BY <1>8, <1>13 DEF Move, TypeOK, Calls
    <2> QED BY <1>13, <2>1, <2>2, <2>3 DEF Move, TypeOK
  <1>14. CASE MoveFailed
    <2>1. failures' \in 0..MaxFailures BY <1>9, <1>14 DEF MoveFailed
    <2>2. disk' \in [Files -> Contents] BY <1>12, <1>14, CallType DEF MoveFailed, TypeOK
    <2>3. call' \in Calls /\ modified' \in BOOLEAN /\ reported' \in 0..MaxEdits
      BY <1>8, <1>14 DEF MoveFailed, ResultOfFailedMove
    <2> QED BY <1>14, <2>1, <2>2, <2>3 DEF MoveFailed, TypeOK
  <1>15. CASE Crash
    <2>1. buffer' \in Versions BY <1>15, DiskType DEF Crash, Whole, Files
    <2>2. crashes' \in 0..MaxCrashes BY <1>15, SaveAssumption DEF Crash, TypeOK
    <2>3. modified' \in BOOLEAN /\ call' \in Calls BY <1>7, <1>15 DEF Crash
    <2> QED BY <1>15, <2>1, <2>2, <2>3 DEF Crash, TypeOK
  <1> QED BY <1>1, <1>2, <1>4, <1>5, <1>6, <1>10, <1>11, <1>13, <1>14, <1>15 DEF Next

LEMMA CallStep == TypeOK /\ CallInv /\ [Next]_vars => CallInv'
  <1> SUFFICES ASSUME TypeOK, CallInv, [Next]_vars PROVE CallInv'
    OBVIOUS
  <1> USE DEF ghostVars
  <1>1. CASE UNCHANGED vars BY <1>1 DEF CallInv, vars
  <1>2. CASE Edit BY <1>2 DEF Edit, CallInv, Idle
  <1>3. CASE Save BY <1>3 DEF Save, StartSave, CallInv
  <1>4. CASE AutosaveBackup
    <2>1. disk'["doc"] = Absent BY <1>4 DEF AutosaveBackup, Backup, TypeOK, Files
    <2> QED BY <1>4, <2>1 DEF AutosaveBackup, StartSave, CallInv
  <1>5. CASE AutosaveCopy BY <1>5 DEF AutosaveCopy, StartSave, CallInv
  <1>6. ASSUME NEW ok \in BOOLEAN, Return(ok) PROVE CallInv'
    BY <1>6 DEF Return, CallInv, Idle
  <1>7. CASE Open
    <2>1. CASE \E ok \in BOOLEAN : Return(ok) BY <2>1, <1>6
    <2>2. ASSUME NEW open \in BOOLEAN,
                 call.at = "open" /\ UNCHANGED <<buffer, modified>>,
                 call' = [call EXCEPT !.at = "write", !.file = OpenedFor(call.to), !.open = open],
                 IF open THEN disk' = [disk EXCEPT ![OpenedFor(call.to)] = Text(buffer, buffer \in Empty)]
                         ELSE UNCHANGED disk
          PROVE  CallInv'
      <3>1. OpenedFor(call.to) \in {call.to, Temp[call.to]} /\ OpenedFor(call.to) \in Files
        BY CallType
      <3>2. /\ call'.at = "write" /\ call'.to = call.to /\ call'.user = call.user
            /\ call'.file = OpenedFor(call.to) /\ call'.open = open
        BY <2>2, CallType DEF Calls
      <3>3. open => /\ disk'[call'.file] # Absent /\ disk'[call'.file].version = buffer
                    /\ buffer \in Empty => disk'[call'.file].whole
        <4>2. disk'[call'.file] = Text(buffer, buffer \in Empty) \/ ~open
          BY <2>2, <3>1, <3>2 DEF TypeOK
        <4>3. /\ Text(buffer, buffer \in Empty) # Absent
              /\ Text(buffer, buffer \in Empty).version = buffer
              /\ buffer \in Empty => Text(buffer, buffer \in Empty).whole
          BY OpenedType DEF TypeOK
        <4> QED BY <4>2, <4>3
      <3>4. call.to = "doc" /\ ~call.user => call'.file = "doc"
        BY <2>2, <3>2 DEF CallInv, OpenedFor
      <3> QED BY <2>2, <3>1, <3>2, <3>3, <3>4 DEF CallInv
    <2>3. CASE /\ UNCHANGED <<modified, reported>>
               /\ disk' = [disk EXCEPT ![OpenedFor(call.to)] = Text(buffer, buffer \in Empty)]
               /\ call' = [call EXCEPT !.at = "write", !.file = OpenedFor(call.to), !.open = TRUE]
      BY <1>7, <2>2, <2>3 DEF Open
    <2>4. CASE /\ UNCHANGED <<disk, modified, reported>>
               /\ call' = [call EXCEPT !.at = "write", !.file = OpenedFor(call.to)]
      <3>1. call.at = "open" /\ ~call.open /\ UNCHANGED buffer BY <1>7 DEF Open, CallInv
      <3>2. call' = [call EXCEPT !.at = "write", !.file = OpenedFor(call.to), !.open = FALSE]
        BY <2>4, <3>1, CallType DEF Calls
      <3> QED BY <2>2, <2>4, <3>1, <3>2
    <2> QED BY <1>7, <2>1, <2>3, <2>4 DEF Open
  <1>8. CASE Write
    <2>1. CASE \E ok \in BOOLEAN : Return(ok) BY <2>1, <1>6
    <2>2. CASE /\ buffer \in Empty \/ call.open
               /\ disk' = IF buffer \in Empty THEN disk ELSE [disk EXCEPT ![call.file].whole = TRUE]
               /\ call.file # call.to
               /\ call' = [call EXCEPT !.at = "move"] /\ UNCHANGED <<modified, reported>>
      <3>1. call.at = "write" /\ UNCHANGED buffer BY <1>8 DEF Write
      <3>2. /\ call'.at = "move" /\ call'.to = call.to /\ call'.user = call.user
            /\ call'.file = call.file /\ call'.open = call.open
        BY <2>2, CallType DEF Calls
      <3>3. call.file = Temp[call.to] /\ call.file \in Files /\ call.file # "doc"
        BY <2>2, <3>1, CallType DEF CallInv
      <3>4. call.open => /\ disk'[call.file] # Absent /\ disk'[call.file].version = buffer
                         /\ disk'[call.file].whole
        <4>1. SUFFICES ASSUME call.open
                       PROVE  /\ disk'[call.file] # Absent /\ disk'[call.file].version = buffer
                              /\ disk'[call.file].whole
          OBVIOUS
        <4>2. /\ disk[call.file] # Absent /\ disk[call.file].version = buffer
              /\ buffer \in Empty => disk[call.file].whole
          BY <3>1, <4>1 DEF CallInv
        <4>3. CASE buffer \in Empty BY <2>2, <4>2, <4>3
        <4>4. CASE buffer \notin Empty
          <5>1. disk[call.file] \in [version : Versions, whole : BOOLEAN]
            BY <3>3, <4>2, DiskType
          <5>2. disk'[call.file] = [disk[call.file] EXCEPT !.whole = TRUE]
            BY <2>2, <3>3, <4>4 DEF TypeOK
          <5>3. disk'[call.file] \in [version : Versions, whole : BOOLEAN] BY <5>1, <5>2
          <5> QED BY <4>2, <5>1, <5>2, <5>3, SaveAssumption DEF Versions
        <4> QED BY <4>3, <4>4
      <3>5. ~(call.to = "doc" /\ ~call.user) BY <3>1, <3>3 DEF CallInv
      <3> QED BY <2>2, <3>1, <3>2, <3>3, <3>4, <3>5 DEF CallInv
    <2> QED BY <1>8, <2>1, <2>2 DEF Write
  <1>9. CASE Move
    <2>1. CASE \E ok \in BOOLEAN : Return(ok) BY <2>1, <1>6
    <2>2. CASE call' = [call EXCEPT !.at = "moveFailed"] /\ UNCHANGED <<disk, modified, reported>>
      <3>1. call.at = "move" /\ UNCHANGED buffer BY <1>9 DEF Move
      <3>2. /\ call'.at = "moveFailed" /\ call'.to = call.to /\ call'.user = call.user
            /\ call'.file = call.file /\ call'.open = call.open
        BY <2>2, CallType DEF Calls
      <3> QED BY <2>2, <3>1, <3>2 DEF CallInv
    <2> QED BY <1>9, <2>1, <2>2 DEF Move
  <1>10. CASE MoveFailed BY <1>6, <1>10 DEF MoveFailed, ResultOfFailedMove
  <1>11. CASE Crash BY <1>11 DEF Crash, CallInv, Idle
  <1> QED BY <1>1, <1>2, <1>3, <1>4, <1>5, <1>7, <1>8, <1>9, <1>10, <1>11 DEF Next

(* What a step reports: the buffer, or what was reported before.             *)
LEMMA ReturnReports ==
    ASSUME NEW ok \in BOOLEAN, Return(ok)
    PROVE  /\ reported' \in {reported, buffer}
           /\ ~ok \/ ~call.user => reported' = reported
  BY DEF Return

(* A rename to the document brings the buffer, or follows an empty one.       *)
LEMMA MoveEffect ==
    ASSUME TypeOK, CallInv, call.at = "move", disk[call.file] # Absent,
           Rename(call.file, call.to)
    PROVE  /\ disk'["bak"] = disk["bak"]
           /\ disk'["doc"] = IF call.to = "doc" THEN disk[call.file] ELSE disk["doc"]
           /\ call.to = "doc" => call.user
           /\ buffer \notin Empty => disk[call.file] = Text(buffer, TRUE)
           /\ \A f \in Files : disk'[f] \in {Absent, disk[f], disk[call.file]}
  <1>1. /\ call.file = Temp[call.to] /\ call.file \in Files \ {"doc", "bak"}
        /\ call.to \in {"doc", "copy"} /\ call.to \in Files
    BY CallType DEF CallInv
  <1>2. \A f \in Files : disk'[f] = IF f = call.file THEN Absent
                                    ELSE IF f = call.to THEN disk[call.file] ELSE disk[f]
    BY <1>1 DEF Rename, TypeOK
  <1>3. call.to = "doc" => call.user BY <1>1 DEF CallInv
  <1>4. buffer \notin Empty => disk[call.file] = Text(buffer, TRUE)
    <2>1. disk[call.file] \in [version : Versions, whole : BOOLEAN] BY <1>1, DiskType
    <2> QED BY <2>1 DEF CallInv, Text
  <1>5. "doc" \in Files /\ "bak" \in Files BY DEF Files
  <1> QED BY <1>1, <1>2, <1>3, <1>4, <1>5

(* A write completes the file it goes to, or reports a failure.               *)
LEMMA WriteEffect ==
    ASSUME TypeOK, CallInv, Write
    PROVE  /\ UNCHANGED <<buffer, edits, link, tornBackup>>
           /\ \A f \in Files : \/ disk'[f] = disk[f]
                               \/ /\ f = call.file /\ disk[f] # Absent /\ disk'[f] # Absent
                                  /\ disk'[f].version = disk[f].version /\ disk'[f].whole
           /\ \/ reported' = reported
              \/ /\ reported' = buffer
                 /\ buffer \notin Empty => disk'["doc"] = Text(buffer, TRUE)
  <1>1. call.at = "write" /\ UNCHANGED <<buffer, edits, link, tornBackup>> BY DEF Write
  <1>2. CASE disk' = disk /\ reported' = reported BY <1>1, <1>2
  <1>3. CASE /\ buffer \in Empty /\ disk' = disk /\ reported' = buffer BY <1>1, <1>3
  <1>4. CASE /\ buffer \notin Empty /\ call.open
             /\ disk' = [disk EXCEPT ![call.file].whole = TRUE]
             /\ \/ call.file = call.to /\ Return(TRUE)
                \/ reported' = reported
    <2>1. /\ call.file \in Files /\ disk[call.file] # Absent /\ disk[call.file].version = buffer
      BY <1>1, <1>4, CallType DEF CallInv
    <2>2. disk[call.file] \in [version : Versions, whole : BOOLEAN] BY <2>1, DiskType
    <2>3. /\ disk'[call.file] = [disk[call.file] EXCEPT !.whole = TRUE]
          /\ \A f \in Files \ {call.file} : disk'[f] = disk[f]
      BY <1>4, <2>1 DEF TypeOK
    <2>4. disk'[call.file] = Text(buffer, TRUE) BY <2>1, <2>2, <2>3 DEF Text
    <2>5. /\ disk'[call.file] # Absent /\ disk'[call.file].version = disk[call.file].version
          /\ disk'[call.file].whole
      BY <2>1, <2>4, TextType DEF TypeOK
    <2>6. \/ reported' = reported
          \/ reported' = buffer /\ call.file = "doc"
      BY <1>4 DEF Return, CallInv
    <2> QED BY <1>1, <2>1, <2>3, <2>4, <2>5, <2>6
  <1>5. \A ok \in BOOLEAN : Return(ok) => reported' \in {reported, buffer} BY ReturnReports
  <1>6. Return(FALSE) => reported' = reported BY ReturnReports
  <1> QED BY <1>2, <1>3, <1>4, <1>5, <1>6 DEF Write

(* Opening truncates a new document, a link, or a file nobody relies on.      *)
LEMMA OpenEffect ==
    ASSUME TypeOK, CallInv, Open
    PROVE  /\ UNCHANGED <<buffer, edits, link, tornBackup, reported>>
           /\ disk'["bak"] = disk["bak"]
           /\ disk'["doc"] # disk["doc"] => link \/ disk["doc"] = Absent
           /\ \A f \in Files : \/ disk'[f] = disk[f]
                               \/ disk'[f] # Absent /\ disk'[f].version = buffer
  <1>1. UNCHANGED <<buffer, edits, link, tornBackup>> BY DEF Open
  <1>2. reported' = reported BY ReturnReports DEF Open
  <1>3. /\ OpenedFor(call.to) \in Files /\ OpenedFor(call.to) # "bak"
        /\ OpenedFor(call.to) = "doc" => link \/ disk["doc"] = Absent
    BY CallType DEF OpenedFor, Temp
  <1>4. /\ Text(buffer, buffer \in Empty) # Absent
        /\ Text(buffer, buffer \in Empty).version = buffer
    BY OpenedType DEF TypeOK
  <1>5. \/ disk' = disk
        \/ disk' = [disk EXCEPT ![OpenedFor(call.to)] = Text(buffer, buffer \in Empty)]
    BY DEF Open
  <1>6. "doc" \in Files /\ "bak" \in Files BY DEF Files
  <1> QED BY <1>1, <1>2, <1>3, <1>4, <1>5, <1>6 DEF TypeOK

(* What the failed move leaves behind is not the document.                    *)
LEMMA MoveFailedEffect ==
    ASSUME TypeOK, CallInv, MoveFailed
    PROVE  /\ UNCHANGED <<buffer, edits, link, tornBackup, reported>>
           /\ disk'["doc"] = disk["doc"] /\ disk'["bak"] = disk["bak"]
           /\ \A f \in Files : disk'[f] \in {Absent, disk[f], disk[call.file]}
           /\ call.file \in Files
  <1>1. UNCHANGED <<buffer, edits, link, tornBackup>> BY DEF MoveFailed
  <1>2. reported' = reported BY ReturnReports DEF MoveFailed, ResultOfFailedMove
  <1>3. call.file = Temp[call.to] /\ call.file \in Files \ {"doc", "bak"}
    BY CallType DEF CallInv, MoveFailed
  <1>4. Failed[call.to] \in Files \ {"doc", "bak"} BY CallType
  <1>5. "doc" \in Files /\ "bak" \in Files BY DEF Files
  <1> QED BY <1>1, <1>2, <1>3, <1>4, <1>5 DEF MoveFailed, Rename, TypeOK

LEMMA VersionStep == TypeOK /\ CallInv /\ VersionInv /\ [Next]_vars => VersionInv'
  <1> SUFFICES ASSUME TypeOK, CallInv, VersionInv, [Next]_vars PROVE VersionInv'
    OBVIOUS
  <1> USE DEF ghostVars
  <1>a. "doc" \in Files /\ "bak" \in Files BY DEF Files
  <1>b. buffer \in Nat /\ edits \in Nat /\ reported \in Nat BY DEF TypeOK, Versions
  <1>c. \A f \in Files : disk[f] # Absent => disk[f].version \in Nat /\ disk[f].version <= edits
    BY DiskType DEF VersionInv, Versions
  <1>1. CASE UNCHANGED vars BY <1>1 DEF VersionInv, vars
  <1>2. CASE Edit BY <1>2, <1>b, <1>c DEF Edit, VersionInv
  <1>3. CASE Save BY <1>3 DEF Save, VersionInv
  <1>4. CASE AutosaveBackup
    <2>1. \A f \in Files : disk'[f] \in {Absent, disk[f], disk["doc"]}
      BY <1>a, <1>4 DEF AutosaveBackup, Backup, TypeOK
    <2>2. disk'["doc"] = Absent BY <1>a, <1>4 DEF AutosaveBackup, Backup, TypeOK
    <2> QED BY <1>a, <1>4, <2>1, <2>2 DEF AutosaveBackup, VersionInv
  <1>5. CASE AutosaveCopy BY <1>5 DEF AutosaveCopy, VersionInv
  <1>6. CASE Open
    <2>1. \A f \in Files : \/ disk'[f] = disk[f]
                           \/ disk'[f] # Absent /\ disk'[f].version = buffer
      BY <1>6, OpenEffect
    <2> QED BY <1>a, <1>b, <1>6, <2>1, OpenEffect DEF VersionInv
  <1>7. CASE Write
    <2>1. \A f \in Files : \/ disk'[f] = disk[f]
                           \/ disk[f] # Absent /\ disk'[f] # Absent /\ disk'[f].version = disk[f].version
      BY <1>7, WriteEffect
    <2>2. \A f \in Files : disk'[f] # Absent =>
             disk[f] # Absent /\ disk'[f].version = disk[f].version
      BY <2>1
    <2>3. Text(buffer, TRUE).version = buffer BY TextType DEF TypeOK
    <2>4. CASE reported' = reported BY <1>a, <1>7, <2>2, <2>4, WriteEffect DEF VersionInv
    <2>5. CASE reported' = buffer /\ (buffer \notin Empty => disk'["doc"] = Text(buffer, TRUE))
      <3>1. UNCHANGED <<buffer, edits>> BY <1>7, WriteEffect
      <3>2. \A f \in Files : disk'[f] # Absent => disk'[f].version <= edits
        BY <2>2 DEF VersionInv
      <3>3. buffer >= buffer BY <1>b
      <3>4. buffer \notin Empty => disk'["doc"].version >= reported' BY <2>3, <2>5, <3>3
      <3>5. buffer <= edits BY DEF VersionInv
      <3> QED BY <2>5, <3>1, <3>2, <3>3, <3>4, <3>5 DEF VersionInv
    <2> QED BY <1>7, <2>4, <2>5, WriteEffect
  <1>8. CASE Move
    <2>1. UNCHANGED <<buffer, edits>> BY <1>8 DEF Move
    <2>2. CASE disk' = disk /\ reported' = reported BY <2>1, <2>2 DEF VersionInv
    <2>3. CASE disk[call.file] # Absent /\ Rename(call.file, call.to) /\ Return(TRUE)
      <3>1. /\ disk'["doc"] = IF call.to = "doc" THEN disk[call.file] ELSE disk["doc"]
            /\ call.to = "doc" => call.user
            /\ buffer \notin Empty => disk[call.file] = Text(buffer, TRUE)
            /\ \A f \in Files : disk'[f] \in {Absent, disk[f], disk[call.file]}
        BY <1>8, <2>3, MoveEffect DEF Move
      <3>2. call.file \in Files BY CallType
      <3>3. \A f \in Files : disk'[f] # Absent => disk'[f].version <= edits
        BY <1>c, <3>1, <3>2
      <3>4. Text(buffer, TRUE).version = buffer BY TextType DEF TypeOK
      <3>5. CASE call.user
        <4>1. reported' = buffer /\ call.to = "doc" BY <2>3, <3>5 DEF Return, CallInv
        <4>2. buffer >= buffer /\ buffer <= edits BY <1>b DEF VersionInv
        <4>3. buffer \notin Empty => disk'["doc"].version >= reported'
          BY <3>1, <3>4, <4>1, <4>2
        <4> QED BY <2>1, <3>3, <4>1, <4>2, <4>3 DEF VersionInv
      <3>6. CASE ~call.user
        <4>1. reported' = reported /\ disk'["doc"] = disk["doc"] BY <2>3, <3>1, <3>6 DEF Return
        <4> QED BY <2>1, <3>3, <4>1 DEF VersionInv
      <3> QED BY <3>5, <3>6
    <2> QED BY <1>8, <2>2, <2>3 DEF Move
  <1>9. CASE MoveFailed
    <2>1. \A f \in Files : disk'[f] # Absent => disk'[f].version <= edits
      BY <1>c, <1>9, MoveFailedEffect
    <2> QED BY <1>9, <2>1, MoveFailedEffect DEF VersionInv
  <1>10. CASE Crash
    BY <1>a, <1>b, <1>c, <1>10 DEF Crash, Whole, VersionInv
  <1> QED BY <1>1, <1>2, <1>3, <1>4, <1>5, <1>6, <1>7, <1>8, <1>9, <1>10 DEF Next

LEMMA SurvivalStep == TypeOK /\ CallInv /\ VersionInv /\ SurvivalInv /\ [Next]_vars => SurvivalInv'
  <1> SUFFICES ASSUME TypeOK, CallInv, VersionInv, SurvivalInv, [Next]_vars,
                      ~link', ~tornBackup'
               PROVE  \/ reported' \in Empty \cup {0}
                      \/ \E f \in {"doc", "bak"} : Whole(disk'[f]) /\ disk'[f].version >= reported'
    BY DEF SurvivalInv, Whole
  <1> USE DEF ghostVars
  <1>a. "doc" \in Files /\ "bak" \in Files BY DEF Files
  <1>b. buffer \in Nat /\ reported \in Nat BY DEF TypeOK, Versions
  <1>c. \/ link \/ tornBackup \/ reported \in Empty \cup {0}
        \/ \E f \in {"doc", "bak"} : Whole(disk[f]) /\ disk[f].version >= reported
    BY DEF SurvivalInv
  <1>d. Whole(Text(buffer, TRUE)) /\ Text(buffer, TRUE).version >= buffer
    <2>1. /\ Text(buffer, TRUE) # Absent /\ Text(buffer, TRUE).version = buffer
          /\ Text(buffer, TRUE).whole = TRUE
      BY TextType DEF TypeOK
    <2>2. Whole(Text(buffer, TRUE)) BY <2>1, Zenon DEF Whole
    <2>3. buffer >= buffer BY <1>b
    <2> QED BY <2>1, <2>2, <2>3, Zenon
  <1>1. CASE UNCHANGED <<disk, link, reported, tornBackup>> BY <1>c, <1>1
  <1>2. CASE AutosaveBackup
    <2>1. Whole(disk["doc"]) BY <1>2 DEF AutosaveBackup
    <2>2. disk'["bak"] = disk["doc"] /\ reported' = reported
      BY <1>a, <1>2 DEF AutosaveBackup, Backup, TypeOK
    <2>3. reported \notin Empty => disk["doc"].version >= reported BY <2>1 DEF VersionInv, Whole
    <2> QED BY <2>1, <2>2, <2>3
  <1>3. CASE Open
    <2>1. /\ UNCHANGED <<link, tornBackup, reported>> /\ disk'["bak"] = disk["bak"]
          /\ disk'["doc"] = disk["doc"] \/ ~Whole(disk["doc"])
      BY <1>3, OpenEffect DEF Whole
    <2> QED BY <1>c, <2>1
  <1>4. CASE Write
    <2>1. UNCHANGED <<link, tornBackup>> BY <1>4, WriteEffect
    <2>2. CASE reported' = buffer /\ (buffer \notin Empty => disk'["doc"] = Text(buffer, TRUE))
      BY <1>d, <2>2
    <2>3. CASE reported' = reported
      <3>1. \A f \in {"doc", "bak"} : Whole(disk[f]) =>
               Whole(disk'[f]) /\ disk'[f].version = disk[f].version
        BY <1>4, <1>a, WriteEffect DEF Whole
      <3> QED BY <1>c, <2>1, <2>3, <3>1
    <2> QED BY <1>4, <2>2, <2>3, WriteEffect
  <1>5. CASE Move
    <2>1. UNCHANGED <<link, tornBackup>> BY <1>5 DEF Move
    <2>2. CASE disk' = disk /\ reported' = reported BY <1>c, <2>1, <2>2
    <2>3. CASE disk[call.file] # Absent /\ Rename(call.file, call.to) /\ Return(TRUE)
      <3>1. /\ disk'["bak"] = disk["bak"]
            /\ disk'["doc"] = IF call.to = "doc" THEN disk[call.file] ELSE disk["doc"]
            /\ call.to = "doc" => call.user
            /\ buffer \notin Empty => disk[call.file] = Text(buffer, TRUE)
        BY <1>5, <2>3, MoveEffect DEF Move
      <3>2. CASE call.user
        <4>1. reported' = buffer /\ call.to = "doc" BY <2>3, <3>2 DEF Return, CallInv
        <4> QED BY <1>d, <3>1, <4>1
      <3>3. CASE ~call.user
        <4>1. reported' = reported /\ disk'["doc"] = disk["doc"] BY <2>3, <3>1, <3>3 DEF Return
        <4> QED BY <1>c, <2>1, <3>1, <4>1
      <3> QED BY <3>2, <3>3
    <2> QED BY <1>5, <2>2, <2>3 DEF Move
  <1>6. CASE MoveFailed BY <1>c, <1>6, MoveFailedEffect
  <1>7. ASSUME Edit \/ Save \/ AutosaveCopy \/ Crash \/ UNCHANGED vars
        PROVE  UNCHANGED <<disk, link, reported, tornBackup>>
    BY <1>7 DEF Edit, Save, AutosaveCopy, Crash, vars
  <1> QED BY <1>1, <1>2, <1>3, <1>4, <1>5, <1>6, <1>7 DEF Next

-----------------------------------------------------------------------------
(* SaveInv is an invariant: the types, and what each phase of a save has done. *)
THEOREM SaveInvHolds == Spec => []SaveInv
  <1>1. SaveInv /\ [Next]_vars => SaveInv'
    BY TypeStep, CallStep, VersionStep, SurvivalStep DEF SaveInv
  <1> QED BY SaveInvInit, <1>1, PTL DEF Spec

(* Every variable keeps its type.                                            *)
THEOREM TypeCorrect == Spec => []TypeOK
  <1>1. SaveInv => TypeOK BY DEF SaveInv
  <1> QED BY SaveInvHolds, <1>1, PTL

(* Whatever fails and whenever the program crashes, some file holds what was last
   reported as saved, or a later version.                                     *)
THEOREM Survives == Spec => []SomethingSurvives
  <1>1. SaveInv => SomethingSurvives
    BY DEF SaveInv, SurvivalInv, SomethingSurvives, Files
  <1> QED BY SaveInvHolds, <1>1, PTL

(* One step of a save, a backup or a crash, as FileLoadingProofs needs it, too. *)
LEMMA NeverTornStep ==
    ASSUME SaveInv, [Next]_vars, Whole(disk["doc"]), disk'["doc"] # Absent,
           buffer \notin Empty, ~link
    PROVE  Whole(disk'["doc"])
  <1> USE DEF ghostVars
  <1>a. "doc" \in Files /\ TypeOK /\ CallInv BY DEF SaveInv, Files
  <1>1. CASE disk' = disk BY <1>1
  <1>2. CASE AutosaveBackup BY <1>a, <1>2 DEF AutosaveBackup, Backup, TypeOK
  <1>3. CASE Open BY <1>a, <1>3, OpenEffect DEF Whole
  <1>4. CASE Write BY <1>a, <1>4, WriteEffect DEF Whole
  <1>5. CASE Move /\ Rename(call.file, call.to) /\ disk[call.file] # Absent
    <2>1. \/ disk'["doc"] = disk["doc"]
          \/ disk'["doc"] = Text(buffer, TRUE)
      BY <1>a, <1>5, MoveEffect DEF Move
    <2>2. Whole(Text(buffer, TRUE)) BY <1>a, TextType DEF TypeOK, Whole
    <2> QED BY <2>1, <2>2
  <1>6. CASE MoveFailed BY <1>a, <1>6, MoveFailedEffect
  <1>7. Edit \/ Save \/ AutosaveCopy \/ Crash \/ UNCHANGED vars => disk' = disk
    BY DEF Edit, Save, AutosaveCopy, Crash, vars
  <1>8. Move => disk' = disk \/ (Rename(call.file, call.to) /\ disk[call.file] # Absent)
    BY DEF Move
  <1> QED BY <1>1, <1>2, <1>3, <1>4, <1>5, <1>6, <1>7, <1>8 DEF Next

(* A whole document is only replaced by a whole one, unless it is a link or the
   text that is saved is empty.                                               *)
THEOREM NeverTornHolds == Spec => NeverTorn
  <1>1. SaveInv /\ [Next]_vars =>
           [Whole(disk["doc"]) /\ disk'["doc"] # Absent /\ buffer \notin Empty =>
               link \/ Whole(disk'["doc"])]_vars
    BY NeverTornStep
  <1> QED BY SaveInvHolds, <1>1, PTL DEF Spec, NeverTorn

(* When the editor regards its document as saved, the document is on the disk. *)
THEOREM SavedIsOnDiskHolds == Spec => SavedIsOnDisk
  <1>1. ASSUME SaveInv, [Next]_vars, call # Idle, call.user, ~modified',
               crashes' = crashes, buffer \notin Empty
        PROVE  disk'["doc"] = Text(buffer, TRUE)
    <2> USE <1>1 DEF ghostVars
    <2>a. "doc" \in Files /\ TypeOK /\ CallInv BY DEF SaveInv, Files
    <2>b. modified BY <2>a DEF CallInv
    <2>c. ~Return(FALSE) BY Zenon DEF Return
    <2>1. CASE Open BY <2>1, <2>b, <2>c DEF Open
    <2>2. CASE Write
      <3>1. /\ call.at = "write" /\ call.file = call.to /\ call.open
            /\ disk' = [disk EXCEPT ![call.file].whole = TRUE]
        BY <2>2, <2>b, <2>c DEF Write
      <3>2. /\ call.file = "doc" /\ disk["doc"] # Absent /\ disk["doc"].version = buffer
        BY <2>a, <3>1 DEF CallInv
      <3>3. disk["doc"] \in [version : Versions, whole : BOOLEAN] BY <2>a, <3>2, DiskType
      <3>4. disk'["doc"] = [disk["doc"] EXCEPT !.whole = TRUE]
        BY <2>a, <3>1, <3>2 DEF TypeOK
      <3> QED BY <3>2, <3>3, <3>4 DEF Text
    <2>3. CASE Move
      <3>1. disk[call.file] # Absent /\ Rename(call.file, call.to) /\ call.at = "move"
        BY <2>3, <2>b DEF Move
      <3>2. call.to = "doc" BY <2>a DEF CallInv
      <3> QED BY <2>a, <3>1, <3>2, MoveEffect
    <2>4. CASE MoveFailed BY <2>4, <2>c DEF MoveFailed, ResultOfFailedMove
    <2>5. CASE Crash BY <2>5, <2>a DEF Crash, TypeOK
    <2>6. ~Edit /\ ~Save /\ ~AutosaveBackup /\ ~AutosaveCopy
      BY DEF Edit, Save, AutosaveBackup, AutosaveCopy
    <2>7. ~UNCHANGED vars BY <2>b DEF vars
    <2> QED BY <2>1, <2>2, <2>3, <2>4, <2>5, <2>6, <2>7 DEF Next
  <1>2. SaveInv /\ [Next]_vars =>
           [call # Idle /\ call.user /\ ~modified' /\ crashes' = crashes /\ buffer \notin Empty =>
               disk'["doc"] = Text(buffer, TRUE)]_vars
    BY <1>1
  <1> QED BY SaveInvHolds, <1>2, PTL DEF Spec, SavedIsOnDisk

=============================================================================
