------------------------------ MODULE ByteHistory ------------------------------
(* What the hex editor promises of a text of bytes: an edit replaces a stretch of
   it, undo and redo take the edits back and make them again one by one, an edit
   after an undo forgets what was undone, and nothing else changes the text
   (FileContentBase, plugins/contrib/HexEditor/FileContentBase.h).             *)
EXTENDS Naturals, Sequences

CONSTANTS
    Bytes,
    Data                    \* the stretches of bytes the user puts in, with <<>>

VARIABLES
    text,                   \* what the editor shows
    list, at                \* the edits, and how many of them the text has

vars == <<text, list, at>>

(* t with the n bytes after the first pos replaced by data.                   *)
Spliced(t, pos, n, data) ==
    SubSeq(t, 1, pos) \o data \o SubSeq(t, pos + n + 1, Len(t))
Applied(t, m) == Spliced(t, m.pos, Len(m.before), m.after)
Reverted(t, m) == Spliced(t, m.pos, Len(m.after), m.before)

(* An edit knows the bytes it replaces, as many as it has, or none, or some for
   nothing.                                                                   *)
Fits(t, m) ==
    /\ m.pos + Len(m.before) <= Len(t)
    /\ m.before = SubSeq(t, m.pos + 1, m.pos + Len(m.before))
    /\ m.before = <<>> \/ m.after = <<>> \/ Len(m.before) = Len(m.after)

Modifications == [pos : Nat, before : Seq(Bytes), after : Data]

Init == text \in Seq(Bytes) /\ list = <<>> /\ at = 0

Edit ==
    /\ at' = at + 1 /\ Len(list') = at'
    /\ LET m == list'[at']
       IN /\ m \in Modifications /\ Fits(text, m)
          /\ list' = Append(SubSeq(list, 1, at), m)
          /\ text' = Applied(text, m)
Undo ==
    /\ at > 0 /\ at' = at - 1
    /\ text' = Reverted(text, list[at])
    /\ UNCHANGED list
Redo ==
    /\ at < Len(list) /\ at' = at + 1
    /\ text' = Applied(text, list[at'])
    /\ UNCHANGED list

Next == Edit \/ Undo \/ Redo
Spec == Init /\ [][Next]_vars

(* Every edit made one text into the next, and what is shown is the text that the
   first at edits have made: undo shows the one before, redo the one after.    *)
Chain ==
    \E texts \in [0..Len(list) -> Seq(Bytes)] :
        /\ text = texts[at]
        /\ \A k \in 1..Len(list) :
              Fits(texts[k - 1], list[k]) /\ texts[k] = Applied(texts[k - 1], list[k])
=============================================================================
