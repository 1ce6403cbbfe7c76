------------------------------ MODULE HexContents ------------------------------
(* The contents of a big file in the hex editor, FileContentDisk and its base class
   FileContentBase (plugins/contrib/HexEditor): a list of blocks, each a stretch of
   the file on the disk or of bytes in memory, the list of modifications with the
   place undo has reached and the place that was saved, and the three ways of
   saving. Everything runs on the GUI thread; what is hard is that the blocks, the
   list and the file must go on telling of the same text.                      *)
EXTENDS Naturals, SequencesExt

CONSTANTS
    OriginalSize,           \* the size of the file that is opened
    Values,                 \* the bytes that are written or added
    MaxLength, MaxSize,     \* bounds: of one modification, of the text
    MaxEdits, MaxFailures   \* bounds: of the modifications and of failed saves

ASSUME HexAssumption ==
    /\ OriginalSize \in Nat \ {0}
    /\ MaxLength \in Nat \ {0} /\ MaxSize \in Nat /\ MaxEdits \in Nat /\ MaxFailures \in Nat
    /\ Values \cap (1..OriginalSize) = {}

VARIABLES
    file,                   \* the bytes of the file that m_FileName names
    handle,                 \* what m_File is
    blocks,                 \* m_Contents
    undoList,               \* the modifications from m_UndoBuffer to m_UndoLast
    undoCurrent, undoSaved, \* m_UndoCurrent, m_UndoSaved: an index, or Null, or Invalid
    dropped,                \* ghost: bytes put at the end were lost
    misplaced,              \* ghost: m_UndoSaved is not where the file was saved
    edits, failures

fileVars == <<file, handle>>
undoVars == <<undoList, undoCurrent, undoSaved>>
vars == <<fileVars, blocks, undoVars, dropped, misplaced, edits, failures>>

Null == 0
Invalid == MaxEdits + 1     \* m_UndoInvalid: a place in no list
\* m_File is m_FileName, for writing or only for reading, or it is closed, or it
\* is the file of the name before.
Handles == {"writable", "readonly", "closed", "former"}

Lengths == 1..MaxLength
Data == {<<>>} \cup {[k \in 1..n |-> v] : n \in Lengths, v \in Values}

-----------------------------------------------------------------------------
(* Blocks. One without data is a stretch of the file from fileStart on.       *)
DiskBlock(start, fileStart, size) ==
    [start |-> start, fileStart |-> fileStart, size |-> size, data |-> <<>>]
IsFromDisk(b) == b.data = <<>>
End(b) == b.start + b.size

GetSize(bs) == IF bs = <<>> THEN 0 ELSE End(Last(bs))

(* ConsistencyCheck; the asserts are those of a build without NDEBUG.         *)
Adjoin(b1, b2) ==
    /\ b1.size > 0 /\ b2.size > 0 /\ End(b1) = b2.start
    /\ \A b \in {b1, b2} : IsFromDisk(b) \/ Len(b.data) = b.size
ConsistencyCheck(bs) == bs # <<>> /\ \A k \in 2..Len(bs) : Adjoin(bs[k - 1], bs[k])

(* FindBlock: the block with the byte at pos, or one more than the last.      *)
FindBlock(bs, pos) ==
    IF pos >= GetSize(bs) THEN Len(bs) + 1
    ELSE CHOOSE k \in DOMAIN bs : bs[k].start <= pos /\ pos < End(bs[k])

(* Read of everything.                                                        *)
BytesOf(b) ==
    IF IsFromDisk(b) THEN SubSeq(file, b.fileStart + 1, Min({b.fileStart + b.size, Len(file)}))
    ELSE b.data
Text == FlattenSeq([k \in DOMAIN blocks |-> BytesOf(blocks[k])])

(* InsertNewBlock: what a block has before and after an offset; the fileStart of
   bytes in memory is never read.                                              *)
FirstPart(b, pos) ==
    IF b.start >= pos THEN <<>>
    ELSE LET size == Min({b.size, pos - b.start})
         IN << [b EXCEPT !.size = size, !.data = IF IsFromDisk(b) THEN @ ELSE SubSeq(@, 1, size)] >>
LastPart(b, pos) ==
    IF End(b) <= pos THEN <<>>
    ELSE LET skip == IF pos > b.start THEN pos - b.start ELSE 0
         IN << [start |-> b.start + skip, size |-> b.size - skip,
                fileStart |-> IF IsFromDisk(b) THEN b.fileStart + skip ELSE 0,
                data |-> SubSeq(b.data, skip + 1, Len(b.data))] >>
MemoryBlock(start, data) ==
    [start |-> start, fileStart |-> 0, size |-> Len(data), data |-> data]

EachOf(bs, parts(_)) == FlattenSeq([k \in DOMAIN bs |-> parts(bs[k])])

(* MergeBlocks: the longest run of blocks around the one at index at that are all
   in memory, or follow each other in the file.                               *)
FaultJoins(b1, b2) == IsFromDisk(b1) = IsFromDisk(b2)
Joins(b1, b2) ==
    IF IsFromDisk(b1) THEN IsFromDisk(b2) /\ b1.fileStart + b1.size = b2.fileStart
    ELSE ~IsFromDisk(b2)
MergeBlocks(bs, at) ==
    LET first == Min({f \in 1..at : \A k \in f..at - 1 : Joins(bs[k], bs[k + 1])})
        last == Max({l \in at..Len(bs) : \A k \in at + 1..l : Joins(bs[k - 1], bs[k])})
        merged == [bs[first] EXCEPT
                      !.size = End(bs[last]) - bs[first].start,
                      !.data = FlattenSeq([k \in 1..last - first + 1 |-> bs[first + k - 1].data])]
    IN SubSeq(bs, 1, first - 1) \o <<merged>> \o SubSeq(bs, last + 1, Len(bs))

(* The three loops of SetBlock. Bytes that are replaced go into memory: a block of
   the disk is cut at both ends of the stretch.                               *)
Overwritten(bs, pos, data) ==
    LET end == pos + Len(data)
        pieces(b) ==
            IF IsFromDisk(b)
            THEN EachOf(FirstPart(b, pos) \o LastPart(b, pos),
                        LAMBDA p : FirstPart(p, end) \o LastPart(p, end))
            ELSE <<b>>
        Put(b) ==
            IF End(b) <= pos \/ b.start >= end THEN <<b>>
            ELSE << MemoryBlock(b.start,
                       [k \in 1..b.size |->
                           IF b.start + k \in pos + 1..end THEN data[b.start + k - pos]
                           ELSE b.data[k]]) >>
    IN EachOf(EachOf(bs, pieces), Put)

FaultRemoved(bs, pos, n) ==
    EachOf(bs, LAMBDA b : FirstPart(b, pos) \o LastPart(b, pos + n))
Removed(bs, pos, n) ==
    EachOf(bs, LAMBDA b :
        FirstPart(b, pos)
          \o [k \in DOMAIN LastPart(b, pos + n) |->
                 [LastPart(b, pos + n)[k] EXCEPT !.start = @ - n]])

(* At the end of the text no block is found, and the one that is made for the data
   is not put into the list.                                                  *)
Inserted(bs, pos, data) ==
    LET at == FindBlock(bs, pos)
        later == [k \in 1..Len(bs) - at |-> [bs[at + k] EXCEPT !.start = @ + Len(data)]]
        inside(b) ==
            IF IsFromDisk(b)
            THEN FirstPart(b, pos) \o <<MemoryBlock(pos, data)>>
                   \o [k \in DOMAIN LastPart(b, pos) |->
                          [LastPart(b, pos)[k] EXCEPT !.start = @ + Len(data)]]
            ELSE << MemoryBlock(b.start, SubSeq(b.data, 1, pos - b.start) \o data
                                           \o SubSeq(b.data, pos - b.start + 1, b.size)) >>
    IN IF at > Len(bs) THEN bs
       ELSE SubSeq(bs, 1, at - 1) \o inside(bs[at]) \o later

(* SetBlock: n bytes at pos are replaced by data, which has as many, or is empty,
   or n is 0.                                                                 *)
SetBlock(bs, data, pos, n) ==
    LET put == Overwritten(bs, pos, data)
        at == FindBlock(bs, pos)
        merged == MergeBlocks(bs, IF at = 1 THEN Len(bs) ELSE at - 1)
    IN IF n = Len(data) THEN MergeBlocks(put, FindBlock(put, pos + n - 1))
       ELSE IF n > 0 THEN Removed(merged, pos, n)
       ELSE Inserted(merged, pos, data)

-----------------------------------------------------------------------------
Size == GetSize(blocks)

(* The behaviours are followed as long as the program has not ended by an assert,
   can read what it shows and has lost no byte.                                *)
Usable == ~dropped /\ handle \in {"writable", "readonly"} /\ ConsistencyCheck(blocks)

Init ==
    /\ file = [p \in 1..OriginalSize |-> p] /\ handle = "writable"
    /\ blocks = <<DiskBlock(0, 0, OriginalSize)>>
    /\ undoList = <<>> /\ undoCurrent = Null /\ undoSaved = Null
    /\ dropped = FALSE /\ misplaced = FALSE /\ edits = 0 /\ failures = 0

(* DiskModificationData::Apply and Revert are both this.                      *)
Replace(pos, old, new) ==
    /\ blocks' = SetBlock(blocks, new, pos, Len(old))
    /\ dropped' = (pos = Size /\ new # <<>>)

(* RemoveUndoFrom forgets what was undone, and with it the place that was saved. *)
MarkAfterRemoval ==
    IF undoCurrent # Null /\ undoSaved >= undoCurrent THEN Invalid ELSE undoSaved
InsertAndApplyModification(pos, old, new) ==
    LET kept == IF undoCurrent = Null THEN undoList ELSE SubSeq(undoList, 1, undoCurrent - 1)
    IN /\ Usable /\ edits < MaxEdits /\ edits' = edits + 1
       /\ undoList' = Append(kept, [pos |-> pos, before |-> old, after |-> new])
       /\ undoCurrent' = Null
       /\ undoSaved' = IF MarkAfterRemoval = Null THEN Len(undoList') ELSE MarkAfterRemoval
       /\ misplaced' = (misplaced \/ (undoSaved = Null /\ undoCurrent # Null))
       /\ Replace(pos, old, new)
       /\ UNCHANGED <<fileVars, failures>>

Read(pos, n) == SubSeq(Text, pos + 1, pos + n)

Write ==
    \E pos \in 0..Size - 1, data \in Data \ {<<>>} :
        /\ pos + Len(data) <= Size
        /\ InsertAndApplyModification(pos, Read(pos, Len(data)), data)
Add ==
    \E pos \in 0..Size, data \in Data \ {<<>>} :
        /\ Size + Len(data) <= MaxSize
        /\ InsertAndApplyModification(pos, <<>>, data)
RemoveBytes ==
    \E pos \in 0..Size - 1, n \in Lengths :
        /\ pos + n <= Size
        /\ InsertAndApplyModification(pos, Read(pos, n), <<>>)

Undo ==
    LET at == IF undoCurrent = Null THEN Len(undoList) ELSE undoCurrent - 1
    IN /\ Usable /\ at > 0
       /\ undoCurrent' = at
       /\ Replace(undoList[at].pos, undoList[at].after, undoList[at].before)
       /\ UNCHANGED <<fileVars, undoList, undoSaved, misplaced, edits, failures>>
Redo ==
    /\ Usable /\ undoCurrent # Null
    /\ undoCurrent' = IF undoCurrent = Len(undoList) THEN Null ELSE undoCurrent + 1
    /\ Replace(undoList[undoCurrent].pos, undoList[undoCurrent].before, undoList[undoCurrent].after)
    /\ UNCHANGED <<fileVars, undoList, undoSaved, misplaced, edits, failures>>

-----------------------------------------------------------------------------
(* Saving.                                                                    *)
Modified == undoSaved # undoCurrent
UndoNotifySaved == undoSaved' = undoCurrent /\ misplaced' = FALSE
Fails == failures < MaxFailures /\ failures' = failures + 1
ResetBlocks == blocks' = <<DiskBlock(0, 0, Len(Text))>>
SaveLeaves == UNCHANGED <<undoList, undoCurrent, dropped, edits>>
(* A save that failed leaves the place that was saved where it is.              *)
FaultNotSaved == undoSaved' = undoCurrent
NotSaved == UNCHANGED undoSaved

InMemory == {k \in DOMAIN blocks : ~IsFromDisk(blocks[k])}

(* WriteFile: can the blocks of the disk stay where they are in the file?     *)
NoShiftedDiskBlocks ==
    /\ Size >= Len(file)
    /\ \A k \in DOMAIN blocks \ InMemory : blocks[k].fileStart = blocks[k].start

(* The file when the blocks in memory have been written up to an offset.      *)
WrittenUpTo(end) ==
    LET text == Text
    IN [p \in 1..Max({end, Len(file)}) |->
           IF \E k \in InMemory : p > blocks[k].start /\ p <= Min({End(blocks[k]), end})
           THEN text[p] ELSE file[p]]

(* WriteFileEasiest. A write that fails leaves the blocks before it as one block
   of the disk, also when there are none.                                     *)
WriteFileEasiest ==
    /\ Usable /\ NoShiftedDiskBlocks
    /\ handle = "writable" \/ InMemory = {}
    /\ file' = WrittenUpTo(Size)
    /\ ResetBlocks /\ UndoNotifySaved
    /\ UNCHANGED <<handle, failures>> /\ SaveLeaves
WriteFileEasiestFails ==
    /\ Usable /\ NoShiftedDiskBlocks
    /\ \E k \in InMemory :
          /\ \E written \in 0..blocks[k].size - 1 :
                /\ \/ handle = "writable" /\ Fails
                   \/ /\ handle = "readonly" /\ k = Min(InMemory) /\ written = 0
                      /\ UNCHANGED failures
                /\ file' = WrittenUpTo(blocks[k].start + written)
          /\ blocks' = <<DiskBlock(0, 0, blocks[k].start)>> \o SubSeq(blocks, k, Len(blocks))
    /\ misplaced' = (misplaced \/ file' # file)
    /\ UNCHANGED handle /\ NotSaved /\ SaveLeaves

(* WriteFileTemporary: the file is closed before the temporary one takes its name.
   Until then a failure changes nothing.                                      *)
WriteFileTemporary ==
    /\ Usable /\ ~NoShiftedDiskBlocks
    /\ \/ /\ file' = Text /\ handle' = "writable"
          /\ ResetBlocks /\ UndoNotifySaved /\ UNCHANGED failures
       \/ /\ Fails /\ handle' = "closed"       \* the rename, or opening the file again
          /\ file' \in {file, Text}
          /\ UNCHANGED <<blocks, misplaced>> /\ NotSaved
    /\ SaveLeaves

(* WriteToDifferentFile: the new file is opened again for reading only; when that
   fails the name is the new one and m_File the old file.                      *)
WriteToDifferentFile ==
    /\ Usable
    /\ file' = Text
    /\ \/ /\ handle' = "readonly"
          /\ ResetBlocks /\ UndoNotifySaved /\ UNCHANGED failures
       \/ /\ Fails /\ handle' = "former"
          /\ UNCHANGED <<blocks, misplaced>> /\ NotSaved
    /\ SaveLeaves

Next ==
    \/ Write \/ Add \/ RemoveBytes \/ Undo \/ Redo
    \/ WriteFileEasiest \/ WriteFileEasiestFails
    \/ WriteFileTemporary \/ WriteToDifferentFile

Spec == Init /\ [][Next]_vars

-----------------------------------------------------------------------------
TypeOK ==
    /\ handle \in Handles
    /\ undoCurrent \in 0..Len(undoList) /\ undoSaved \in 0..Len(undoList) \cup {Invalid}
    /\ {dropped, misplaced} \subseteq BOOLEAN
    /\ edits \in 0..MaxEdits /\ failures \in 0..MaxFailures

(* The blocks cover the text without a gap, none is empty, and those of the disk
   lie in the file: what ConsistencyCheck asserts, and GetSize and FindBlock build
   on. Two histories break it: everything is removed, or writing in place fails at
   the first byte of the text.                                                *)
BlocksFit ==
    \/ blocks = <<>>
    \/ blocks[1].size = 0
    \/ /\ ConsistencyCheck(blocks) /\ blocks[1].start = 0
       /\ Usable => Len(Text) = Size
HexInv == TypeOK /\ BlocksFit

Applying == IF undoCurrent = Null THEN Len(undoList) ELSE undoCurrent - 1
History ==
    INSTANCE ByteHistory WITH
        Bytes <- Values \cup (1..OriginalSize), text <- Text, list <- undoList, at <- Applying

(* Writing, adding, removing, undo and redo are the edits and steps of ByteHistory,
   whatever blocks they split and merge; a save, also one that fails half way,
   changes neither what is shown nor what undo and redo show.                  *)
KeepsHistory ==
    /\ History!Init
    /\ [][Usable' => History!Next \/ UNCHANGED History!vars]_vars

(* A text that is not shown as modified is what the file holds, so that closing the
   editor without a question loses nothing. Excepted (misplaced): an edit after an
   undo of what was saved at the end of the list, and a failed save in place.   *)
UnmodifiedIsOnDisk == Usable /\ ~Modified /\ ~misplaced => file = Text
=============================================================================
