------------------------- MODULE DebuggerQueueProofs -------------------------
(* Theorems about DebuggerQueue, for any breakpoints, any requests of the user and
   any number of sessions, if no breakpoint has both a condition and an ignore
   count (with both, two commands jump the queue, and the run debug_two_wishes
   shows what follows).                                                       *)
EXTENDS DebuggerQueue, SequenceTheorems, WellFoundedInduction, TLAPS

OneWishEach == \A wish \in Wishes : ~({"condition", "ignore"} \subseteq wish)

-----------------------------------------------------------------------------
(* What is in flight, seen from the plugin: e is the command whose answer is posted
   or that lets the program run, as a sequence of none or one.  The queue is busy
   with its head, which is there or still in the pipe.                        *)
Flight(s, e) ==
    IF s.m_QueueBusy
    THEN /\ s.m_DCmds # <<>>
         /\ s.m_ProgramIsStopped <=> ~Continues(s.m_DCmds[1])
         /\ \/ e = <<s.m_DCmds[1]>> /\ s.toGdb = <<>>
            \/ e = <<>> /\ s.toGdb = <<s.m_DCmds[1]>>
    ELSE e = <<>> /\ s.toGdb = <<>>

(* The queue moves on by itself: it waits for an answer, or sends the next command
   as soon as there is one, or gdb has refused to let the program run.        *)
Awake(s, refused) ==
    s.m_QueueBusy \/ s.m_ProgramIsStopped \/ (refused /\ s.m_DCmds # <<>>)

Sound(s, e, refused) == Flight(s, e) /\ Awake(s, refused)

Elsewhere == IF fromGdb # <<>> THEN <<fromGdb[1].of>>
             ELSE IF gdb.state = "running" THEN <<gdb.last>> ELSE <<>>

(* An answer that tells of the program is the answer to a command that let it run;
   such a command is answered with nothing only by a refusal.                 *)
Genuine(r, refused) ==
    /\ r.lines # {} => Continues(r.of)
    /\ "signal" \in r.lines => "cursor" \in r.lines
    /\ "exit" \in r.lines => r.lines = {"exit"}
    /\ Continues(r.of) /\ r.lines = {} => refused
    /\ r.hit # Unset => Continues(r.of)

SessionInv ==
    /\ ide.m_pProcess => ide.hasDriver
    /\ gdb.state # "gone" => ide.m_pProcess
    /\ ~ide.hasDriver => fromGdb = <<>>

TalkInv ==
    Undisturbed =>
        /\ Sound(ide, Elsewhere, gdb.refused)
        /\ Len(fromGdb) <= 1
        /\ fromGdb # <<>> => gdb.state = "prompt" /\ Genuine(fromGdb[1], gdb.refused)
        /\ gdb.state = "running" => Continues(gdb.last)

(* The list holds a breakpoint once, and only breakpoints that were made.     *)
Distinct(list) == \A i, j \in 1..Len(list) : list[i] = list[j] => i = j
ListOk(s) == ToSet(s.m_Breakpoints) \subseteq s.made /\ Distinct(s.m_Breakpoints)

Types == TypeOK /\ Distinct(ide.m_Breakpoints)

QueueInv == Types /\ SessionInv /\ TalkInv

-----------------------------------------------------------------------------
(* What an operation on the plugin's record leaves as it was, and what it keeps. *)
Typed(s, r) ==
    /\ r \in Plugins
    /\ r.m_pProcess = s.m_pProcess
    /\ r.hasDriver = s.hasDriver
    /\ ListOk(s) => ListOk(r)

Keeps(s, r) ==
    /\ Typed(s, r)
    /\ s.m_pProcess => \A e, refused : Sound(s, e, refused) => Sound(r, e, refused)

LEMMA KeepsIsAPreorder ==
    /\ \A s \in Plugins : Keeps(s, s)
    /\ \A s, t, r : Keeps(s, t) /\ Keeps(t, r) => Keeps(s, r)
    /\ \A s, t, r : Typed(s, t) /\ Typed(t, r) => Typed(s, r)
  BY DEF Keeps, Typed

LEMMA LeastNatural ==
    ASSUME NEW T, T \subseteq Nat, T # {}
    PROVE  \E x \in T : \A y \in T : x <= y
  <1> DEFINE R == {ss \in Nat \X Nat : ss[1] < ss[2]}
  <1>1. IsWellFoundedOn(R, Nat) BY NatLessThanWellFounded DEF OpToRel
  <1> HIDE DEF R
  <1>2. PICK x \in T : \A y \in T : <<y, x>> \notin R BY <1>1, WFMin
  <1>3. ASSUME NEW y \in T, y < x PROVE FALSE
    <2>1. <<y, x>> \in Nat \X Nat /\ <<y, x>>[1] < <<y, x>>[2] BY <1>3
    <2> QED BY <1>2, <2>1 DEF R
  <1> QED BY <1>2, <1>3

LEMMA FunctionIsSequence ==
    ASSUME NEW S, NEW n \in Nat, NEW s \in [1..n -> S]
    PROVE  s \in Seq(S)
  BY SeqDef, Zenon

(* Dropping the commands without text leaves commands. *)
LEMMA FirstWithTextType ==
    ASSUME NEW queue \in Seq(Commands)
    PROVE  /\ FirstWithText(queue) \in Seq(Commands)
           /\ FirstWithText(queue) # <<>> => FirstWithText(queue)[1] \in Commands
  <1> DEFINE Texts == {i \in 1..Len(queue) : queue[i].kind # "no text"}
             first == IF Texts # {} THEN Min(Texts) ELSE 0
  <1>1. FirstWithText(queue) = IF first = 0 THEN <<>> ELSE SubSeq(queue, first, Len(queue))
    BY DEF FirstWithText, SelectInSeq
  <1>2. Texts # {} => first \in 1..Len(queue)
    <2>1. ASSUME Texts # {} PROVE \E x \in Texts : \A y \in Texts : x <= y
      <3> DEFINE T == Texts
      <3>1. Texts \subseteq 1..Len(queue) /\ Len(queue) \in Nat BY LenProperties
      <3>2. T \subseteq Nat
        <4> HIDE DEF Texts
        <4> QED BY <3>1
      <3>3. T # {} BY <2>1
      <3> HIDE DEF T
      <3>4. \E x \in T : \A y \in T : x <= y BY <3>2, <3>3, LeastNatural
      <3> QED BY <3>4 DEF T
    <2> QED BY <2>1 DEF Min
  <1>3. first = 0 \/ first \in 1..Len(queue) BY <1>2
  <1>4. CASE first = 0
    <2>1. FirstWithText(queue) = <<>> BY <1>1, <1>4
    <2> QED BY <2>1
  <1>5. CASE first \in 1..Len(queue)
    <2> HIDE DEF first
    <2>1. FirstWithText(queue) = SubSeq(queue, first, Len(queue)) BY <1>1, <1>5
    <2>2. \A i \in first..Len(queue) : queue[i] \in Commands BY <1>5
    <2> QED BY <1>5, <2>1, <2>2, SubSeqProperties
  <1> QED BY <1>3, <1>4, <1>5

-----------------------------------------------------------------------------
(* The operations on the queue. *)
LEMMA TypeOfEmptied ==
    ASSUME NEW s \in Plugins
    PROVE  [s EXCEPT !.m_DCmds = <<>>] \in Plugins
  <1> DEFINE none == <<>>
  <1>1. none \in Seq(Commands) OBVIOUS
  <1> HIDE DEF none
  <1>2. [s EXCEPT !.m_DCmds = none] \in Plugins BY <1>1 DEF Plugins
  <1> QED BY <1>2 DEF none

LEMMA SendsTheHead ==
    ASSUME NEW s \in Plugins, NEW queue \in Seq(Commands), queue # <<>>
    PROVE  ~s.m_QueueBusy /\ s.m_ProgramIsStopped =>
             Keeps(s, [s EXCEPT !.m_DCmds = queue,
                                !.m_QueueBusy = TRUE,
                                !.toGdb = IF s.m_pProcess THEN Append(@, queue[1]) ELSE @,
                                !.m_ProgramIsStopped = ~Continues(queue[1]),
                                !.shown = @ /\ ~Continues(queue[1]),
                                !.muted = @ /\ queue[1].kind # "cont",
                                !.m_TemporaryBreak = @ /\ queue[1].kind # "cont"])
  <1> DEFINE r == [s EXCEPT !.m_DCmds = queue,
                            !.m_QueueBusy = TRUE,
                            !.toGdb = IF s.m_pProcess THEN Append(@, queue[1]) ELSE @,
                            !.m_ProgramIsStopped = ~Continues(queue[1]),
                            !.shown = @ /\ ~Continues(queue[1]),
                            !.muted = @ /\ queue[1].kind # "cont",
                            !.m_TemporaryBreak = @ /\ queue[1].kind # "cont"]
             toGdb == IF s.m_pProcess THEN Append(s.toGdb, queue[1]) ELSE s.toGdb
             stopped == ~Continues(queue[1])
             shown == s.shown /\ ~Continues(queue[1])
             muted == s.muted /\ queue[1].kind # "cont"
             temporary == s.m_TemporaryBreak /\ queue[1].kind # "cont"
  <1>1. queue[1] \in Commands
    <2>1. Len(queue) \in Nat /\ Len(queue) > 0 BY EmptySeq, LenProperties
    <2> QED BY <2>1
  <1>2. toGdb \in Seq(Commands) BY <1>1 DEF Plugins
  <1>3. stopped \in BOOLEAN /\ shown \in BOOLEAN /\ muted \in BOOLEAN /\ temporary \in BOOLEAN
    BY Zenon DEF Continues
  <1>4. r = [s EXCEPT !.m_DCmds = queue, !.m_QueueBusy = TRUE, !.toGdb = toGdb,
                      !.m_ProgramIsStopped = stopped, !.shown = shown,
                      !.muted = muted, !.m_TemporaryBreak = temporary]
    BY DEF Plugins
  <1>5. s.m_pProcess /\ s.toGdb = <<>> => toGdb = <<queue[1]>> OBVIOUS
  <1> HIDE DEF toGdb, stopped, shown, muted, temporary, r
  <1>6. r \in Plugins
    <2>1. ASSUME NEW q \in Seq(Commands), NEW t \in Seq(Commands),
                 NEW a \in BOOLEAN, NEW b \in BOOLEAN, NEW c \in BOOLEAN, NEW d \in BOOLEAN
          PROVE  [s EXCEPT !.m_DCmds = q, !.m_QueueBusy = TRUE, !.toGdb = t,
                           !.m_ProgramIsStopped = a, !.shown = b,
                           !.muted = c, !.m_TemporaryBreak = d] \in Plugins
      BY DEF Plugins
    <2>2. [s EXCEPT !.m_DCmds = queue, !.m_QueueBusy = TRUE, !.toGdb = toGdb,
                    !.m_ProgramIsStopped = stopped, !.shown = shown,
                    !.muted = muted, !.m_TemporaryBreak = temporary] \in Plugins
      BY <1>2, <1>3, <2>1
    <2> QED BY <1>4, <2>2
  <1>7. /\ r.m_pProcess = s.m_pProcess /\ r.hasDriver = s.hasDriver
        /\ r.m_Breakpoints = s.m_Breakpoints /\ r.made = s.made
        /\ r.m_DCmds = queue /\ r.m_QueueBusy /\ r.toGdb = toGdb
        /\ r.m_ProgramIsStopped <=> stopped
    BY <1>4 DEF Plugins
  <1>8. ASSUME ~s.m_QueueBusy, s.m_ProgramIsStopped, s.m_pProcess,
               NEW e, NEW refused, Sound(s, e, refused)
        PROVE  Sound(r, e, refused)
    <2>1. e = <<>> /\ s.toGdb = <<>> BY <1>8 DEF Sound, Flight
    <2> QED BY <1>5, <1>7, <1>8, <2>1 DEF Sound, Flight, Awake, stopped
  <1> QED BY <1>6, <1>7, <1>8 DEF Keeps, Typed, r, ListOk

(* A change of the other fields keeps everything. *)
LEMMA OtherFields ==
    ASSUME NEW s \in Plugins, NEW r \in Plugins,
           r.m_pProcess = s.m_pProcess, r.hasDriver = s.hasDriver,
           r.m_DCmds = s.m_DCmds, r.m_QueueBusy = s.m_QueueBusy,
           r.m_ProgramIsStopped = s.m_ProgramIsStopped, r.toGdb = s.toGdb,
           ListOk(s) => ListOk(r)
    PROVE  Keeps(s, r)
  BY DEF Keeps, Typed, Sound, Flight, Awake

LEMMA RunQueueKeeps ==
    ASSUME NEW s \in Plugins
    PROVE  Keeps(s, RunQueue(s))
  <1> DEFINE rest == FirstWithText(s.m_DCmds)
  <1>1. s.m_DCmds \in Seq(Commands) BY DEF Plugins
  <1>2. rest \in Seq(Commands) BY <1>1, FirstWithTextType
  <1>3. CASE s.m_QueueBusy \/ ~s.m_ProgramIsStopped
    <2>1. RunQueue(s) = s BY <1>3, Zenon DEF RunQueue
    <2> QED BY <2>1, KeepsIsAPreorder
  <1>4. CASE ~(s.m_QueueBusy \/ ~s.m_ProgramIsStopped) /\ rest = <<>>
    <2> DEFINE r == [s EXCEPT !.m_DCmds = <<>>]
    <2>1. RunQueue(s) = r BY <1>4 DEF RunQueue
    <2>2. r \in Plugins BY TypeOfEmptied
    <2>3. /\ r.m_pProcess = s.m_pProcess /\ r.hasDriver = s.hasDriver
          /\ r.m_Breakpoints = s.m_Breakpoints /\ r.made = s.made
          /\ r.m_QueueBusy = s.m_QueueBusy /\ r.toGdb = s.toGdb
          /\ r.m_ProgramIsStopped = s.m_ProgramIsStopped
      BY DEF Plugins
    <2> HIDE DEF r
    <2>4. Keeps(s, r) BY <1>4, <2>2, <2>3 DEF Keeps, Typed, Sound, Flight, Awake, ListOk
    <2> QED BY <2>1, <2>4
  <1>5. CASE ~(s.m_QueueBusy \/ ~s.m_ProgramIsStopped) /\ rest # <<>>
    <2> DEFINE r == [s EXCEPT !.m_DCmds = rest,
                              !.m_QueueBusy = TRUE,
                              !.toGdb = IF s.m_pProcess THEN Append(@, rest[1]) ELSE @,
                              !.m_ProgramIsStopped = ~Continues(rest[1]),
                              !.shown = @ /\ ~Continues(rest[1]),
                              !.muted = @ /\ rest[1].kind # "cont",
                              !.m_TemporaryBreak = @ /\ rest[1].kind # "cont"]
    <2>1. RunQueue(s) = r BY <1>5, Zenon DEF RunQueue
    <2>2. ~s.m_QueueBusy /\ s.m_ProgramIsStopped BY <1>5
    <2> HIDE DEF rest
    <2>3. Keeps(s, r) BY <1>2, <1>5, <2>2, SendsTheHead
    <2> QED BY <2>1, <2>3
  <1> QED BY <1>3, <1>4, <1>5

(* A command at the end of the queue. *)
LEMMA QueueLowKeeps ==
    ASSUME NEW s \in Plugins, NEW c \in Commands
    PROVE  Keeps(s, QueueLow(s, c))
  <1> DEFINE r == [s EXCEPT !.m_DCmds = Append(@, c)]
             q == Append(s.m_DCmds, c)
  <1>1. q \in Seq(Commands) /\ q # <<>>
    <2>1. s.m_DCmds \in Seq(Commands) BY DEF Plugins
    <2> QED BY <2>1, AppendProperties
  <1>2. s.m_DCmds # <<>> => q[1] = s.m_DCmds[1]
    <2>1. s.m_DCmds \in Seq(Commands) BY DEF Plugins
    <2>2. s.m_DCmds # <<>> => 1 \in 1..Len(s.m_DCmds) BY <2>1, EmptySeq, LenProperties
    <2> QED BY <2>1, <2>2, AppendProperties
  <1>3. r = [s EXCEPT !.m_DCmds = q] BY DEF Plugins
  <1> HIDE DEF q, r
  <1>4. r \in Plugins BY <1>1, <1>3 DEF Plugins
  <1>5. /\ r.m_pProcess = s.m_pProcess /\ r.hasDriver = s.hasDriver
        /\ r.m_Breakpoints = s.m_Breakpoints /\ r.made = s.made
        /\ r.m_QueueBusy = s.m_QueueBusy /\ r.toGdb = s.toGdb
        /\ r.m_ProgramIsStopped = s.m_ProgramIsStopped /\ r.m_DCmds = q
    BY <1>3 DEF Plugins
  <1>6. Keeps(s, r) BY <1>1, <1>2, <1>4, <1>5 DEF Keeps, Typed, Sound, Flight, Awake, ListOk
  <1>7. Keeps(r, RunQueue(r)) BY <1>4, RunQueueKeeps
  <1> QED BY <1>6, <1>7, KeepsIsAPreorder DEF QueueLow, r

(* One in front of the others, when nothing waits for an answer. *)
LEMMA QueueHighKeeps ==
    ASSUME NEW s \in Plugins, NEW c \in Commands
    PROVE  /\ Typed(s, QueueHigh(s, c))
           /\ ~s.m_QueueBusy => Keeps(s, QueueHigh(s, c))
  <1> DEFINE r == [s EXCEPT !.m_DCmds = <<c>> \o @]
             q == <<c>> \o s.m_DCmds
  <1>1. q \in Seq(Commands) /\ q # <<>>
    <2>1. s.m_DCmds \in Seq(Commands) /\ <<c>> \in Seq(Commands) BY DEF Plugins
    <2>2. q \in Seq(Commands) /\ Len(q) = Len(<<c>>) + Len(s.m_DCmds)
      BY <2>1, ConcatProperties
    <2>3. Len(q) # 0 BY <2>1, <2>2, LenProperties
    <2> QED BY <2>2, <2>3, EmptySeq
  <1>2. r = [s EXCEPT !.m_DCmds = q] BY DEF Plugins
  <1> HIDE DEF q, r
  <1>3. r \in Plugins BY <1>1, <1>2 DEF Plugins
  <1>4. /\ r.m_pProcess = s.m_pProcess /\ r.hasDriver = s.hasDriver
        /\ r.m_Breakpoints = s.m_Breakpoints /\ r.made = s.made
        /\ r.m_QueueBusy = s.m_QueueBusy /\ r.toGdb = s.toGdb
        /\ r.m_ProgramIsStopped = s.m_ProgramIsStopped /\ r.m_DCmds = q
    BY <1>2 DEF Plugins
  <1>5. Typed(s, r) BY <1>3, <1>4 DEF Typed, ListOk
  <1>6. ~s.m_QueueBusy => Keeps(s, r) BY <1>1, <1>4, <1>5 DEF Keeps, Sound, Flight, Awake
  <1>7. Keeps(r, RunQueue(r)) BY <1>3, RunQueueKeeps
  <1>8. Typed(r, RunQueue(r)) BY <1>7 DEF Keeps
  <1>9. QueueHigh(s, c) = RunQueue(r) BY DEF QueueHigh, r
  <1> QED BY <1>5, <1>6, <1>7, <1>8, <1>9, KeepsIsAPreorder

-----------------------------------------------------------------------------
(* The operations on breakpoints. *)
LEMMA BpsKeeps ==
    ASSUME NEW s \in Plugins, NEW bps \in [Breakpoints -> Bps]
    PROVE  /\ [s EXCEPT !.bps = bps] \in Plugins
           /\ Keeps(s, [s EXCEPT !.bps = bps])
           /\ [s EXCEPT !.bps = bps].bps = bps
           /\ [s EXCEPT !.bps = bps].m_QueueBusy = s.m_QueueBusy
  <1> DEFINE r == [s EXCEPT !.bps = bps]
  <1>1. r \in Plugins BY DEF Plugins
  <1>2. /\ r.m_pProcess = s.m_pProcess /\ r.hasDriver = s.hasDriver
        /\ r.m_Breakpoints = s.m_Breakpoints /\ r.made = s.made
        /\ r.m_QueueBusy = s.m_QueueBusy /\ r.toGdb = s.toGdb /\ r.m_DCmds = s.m_DCmds
        /\ r.m_ProgramIsStopped = s.m_ProgramIsStopped
        /\ r.bps = bps
    BY DEF Plugins
  <1> HIDE DEF r
  <1>3. Keeps(s, r) BY <1>1, <1>2, OtherFields DEF ListOk
  <1> QED BY <1>1, <1>2, <1>3 DEF r

(* The number of a breakpoint is known, or it or its condition was turned down. *)
Told(s, bps, off) == [s EXCEPT !.bps = bps, !.turnedDown = off]

LEMMA ToldKeeps ==
    ASSUME NEW s \in Plugins, NEW bps \in [Breakpoints -> Bps], NEW off \in SUBSET Breakpoints
    PROVE  LET r == Told(s, bps, off)
           IN  /\ r \in Plugins /\ Keeps(s, r)
               /\ r.bps = bps /\ r.turnedDown = off
               /\ r.m_QueueBusy = s.m_QueueBusy /\ r.m_DCmds = s.m_DCmds
               /\ r.m_Breakpoints = s.m_Breakpoints /\ r.hasDriver = s.hasDriver
               /\ r.m_ProgramIsStopped = s.m_ProgramIsStopped /\ r.m_IsStarted = s.m_IsStarted
               /\ r.m_TemporaryBreak = s.m_TemporaryBreak /\ r.shown = s.shown
               /\ r.muted = s.muted /\ r.toGdb = s.toGdb /\ r.m_pProcess = s.m_pProcess
  <1> DEFINE r == [s EXCEPT !.bps = bps, !.turnedDown = off]
  <1>5. Told(s, bps, off) = r BY DEF Told
  <1>1. r \in Plugins BY DEF Plugins
  <1>2. /\ r.m_pProcess = s.m_pProcess /\ r.hasDriver = s.hasDriver
        /\ r.m_Breakpoints = s.m_Breakpoints /\ r.made = s.made
        /\ r.m_QueueBusy = s.m_QueueBusy /\ r.toGdb = s.toGdb /\ r.m_DCmds = s.m_DCmds
        /\ r.m_ProgramIsStopped = s.m_ProgramIsStopped
        /\ r.bps = bps /\ r.turnedDown = off
    BY DEF Plugins
  <1>3. /\ r.m_IsStarted = s.m_IsStarted /\ r.m_TemporaryBreak = s.m_TemporaryBreak
        /\ r.shown = s.shown /\ r.muted = s.muted
    BY DEF Plugins
  <1> HIDE DEF r
  <1>4. Keeps(s, r) BY <1>1, <1>2, OtherFields DEF ListOk
  <1> QED BY <1>1, <1>2, <1>3, <1>4, <1>5

(* A wish without its condition is one. *)
LEMMA LessIsWishable ==
    /\ {} \in Wishable /\ Wishes \subseteq Wishable
    /\ \A wish \in Wishable : wish \ {"condition"} \in Wishable /\ wish \subseteq {"condition", "ignore"}
    /\ OneWishEach => \A wish \in Wishable : ~({"condition", "ignore"} \subseteq wish)
  <1>1. {} \in Wishable BY DEF Wishable
  <1>2. ASSUME NEW wish \in Wishes PROVE wish \in Wishable BY <1>2 DEF Wishable
  <1>3. ASSUME NEW wish \in Wishable
        PROVE  /\ wish \ {"condition"} \in Wishable /\ wish \subseteq {"condition", "ignore"}
               /\ OneWishEach => ~({"condition", "ignore"} \subseteq wish)
    <2>1. CASE wish = {} BY <1>1, <2>1
    <2>2. CASE wish # {}
      <3>1. PICK w \in Wishes : wish \subseteq w BY <2>2 DEF Wishable
      <3>2. wish \ {"condition"} \in SUBSET w BY <3>1
      <3>3. wish \ {"condition"} \in Wishable BY <3>2 DEF Wishable
      <3>4. w \subseteq {"condition", "ignore"} BY <3>1, DebugAssumption DEF DebugAssumption
      <3>5. OneWishEach => ~({"condition", "ignore"} \subseteq w) BY <3>1 DEF OneWishEach
      <3> QED BY <3>1, <3>3, <3>4, <3>5
    <2> QED BY <2>1, <2>2
  <1> QED BY <1>1, <1>2, <1>3

LEMMA IndexKeeps ==
    ASSUME NEW s \in Plugins, NEW b \in Breakpoints, NEW n \in Nat
    PROVE  /\ [s EXCEPT !.bps[b].index = n] \in Plugins
           /\ Keeps(s, [s EXCEPT !.bps[b].index = n])
           /\ [s EXCEPT !.bps[b].index = n].m_QueueBusy = s.m_QueueBusy
           /\ [s EXCEPT !.bps[b].index = n].bps[b].wish = s.bps[b].wish
  <1> DEFINE bps == [s.bps EXCEPT ![b].index = n]
  <1>1. bps \in [Breakpoints -> Bps] BY DEF Plugins, Bps
  <1>2. [s EXCEPT !.bps[b].index = n] = [s EXCEPT !.bps = bps] BY DEF Plugins
  <1>3. bps[b].wish = s.bps[b].wish BY DEF Plugins, Bps
  <1> HIDE DEF bps
  <1> QED BY <1>1, <1>2, <1>3, BpsKeeps

LEMMA EditCommands ==
    ASSUME NEW b \in Breakpoints, NEW n \in Nat
    PROVE  /\ \A kind \in {"break", "delete", "condition", "uncondition", "ignore"} :
                 Cmd(kind, b, n) \in Commands
           /\ \A kind \in {"run", "cont", "step", "finish", "backtrace", "info frame", "quit"} :
                 Plain(kind) \in Commands
           /\ NoText \in Commands
           /\ Unset \in Nat
  BY DEF Cmd, Plain, NoText, Commands, Unset

LEMMA AddToDriverKeeps ==
    ASSUME NEW s \in Plugins, NEW b \in Breakpoints
    PROVE  Keeps(s, AddToDriver(s, b))
  <1> DEFINE t == [s EXCEPT !.bps[b].index = Unset]
             c == IF s.bps[b].enabled THEN Cmd("break", b, Unset) ELSE NoText
  <1>1. c \in Commands /\ Unset \in Nat BY EditCommands DEF Unset
  <1>2. t \in Plugins /\ Keeps(s, t) BY <1>1, IndexKeeps
  <1>3. AddToDriver(s, b) = IF ~s.hasDriver THEN s ELSE QueueLow(t, c) BY DEF AddToDriver
  <1> HIDE DEF t, c
  <1>4. Keeps(t, QueueLow(t, c)) BY <1>1, <1>2, QueueLowKeeps
  <1> QED BY <1>2, <1>3, <1>4, KeepsIsAPreorder

LEMMA RemoveFromDriverKeeps ==
    ASSUME NEW s \in Plugins, NEW b \in Breakpoints
    PROVE  Keeps(s, RemoveFromDriver(s, b))
  <1> DEFINE c == Cmd("delete", b, s.bps[b].index)
  <1>1. s.bps[b].index \in Nat BY DEF Plugins, Bps
  <1>2. c \in Commands BY <1>1, EditCommands
  <1>3. RemoveFromDriver(s, b) = IF ~s.hasDriver \/ s.bps[b].index = Unset THEN s ELSE QueueLow(s, c)
    BY DEF RemoveFromDriver
  <1> HIDE DEF c
  <1> QED BY <1>2, <1>3, QueueLowKeeps, KeepsIsAPreorder

LEMMA ResetBreakpointKeeps ==
    ASSUME NEW s \in Plugins, NEW b \in Breakpoints
    PROVE  Keeps(s, ResetBreakpoint(s, b))
  <1> DEFINE t == RemoveFromDriver(s, b)
  <1>1. Keeps(s, t) BY RemoveFromDriverKeeps
  <1>2. t \in Plugins BY <1>1 DEF Keeps, Typed
  <1>3. ResetBreakpoint(s, b) = AddToDriver(t, b) BY DEF ResetBreakpoint
  <1> HIDE DEF t
  <1>4. Keeps(t, AddToDriver(t, b)) BY <1>2, AddToDriverKeeps
  <1> QED BY <1>1, <1>3, <1>4, KeepsIsAPreorder

LEMMA StartedKeeps ==
    ASSUME NEW s \in Plugins, NEW started \in BOOLEAN
    PROVE  Keeps(s, [s EXCEPT !.m_IsStarted = started])
  <1> DEFINE r == [s EXCEPT !.m_IsStarted = started]
  <1>1. r \in Plugins BY DEF Plugins
  <1>2. /\ r.m_pProcess = s.m_pProcess /\ r.hasDriver = s.hasDriver
        /\ r.m_Breakpoints = s.m_Breakpoints /\ r.made = s.made
        /\ r.m_QueueBusy = s.m_QueueBusy /\ r.toGdb = s.toGdb /\ r.m_DCmds = s.m_DCmds
        /\ r.m_ProgramIsStopped = s.m_ProgramIsStopped
    BY DEF Plugins
  <1> HIDE DEF r
  <1>3. Keeps(s, r) BY <1>1, <1>2, OtherFields DEF ListOk
  <1> QED BY <1>3 DEF r

LEMMA ShownKeeps ==
    ASSUME NEW s \in Plugins
    PROVE  Keeps(s, [s EXCEPT !.shown = TRUE])
  <1> DEFINE r == [s EXCEPT !.shown = TRUE]
  <1>1. r \in Plugins BY DEF Plugins
  <1>2. /\ r.m_pProcess = s.m_pProcess /\ r.hasDriver = s.hasDriver
        /\ r.m_Breakpoints = s.m_Breakpoints /\ r.made = s.made
        /\ r.m_QueueBusy = s.m_QueueBusy /\ r.toGdb = s.toGdb /\ r.m_DCmds = s.m_DCmds
        /\ r.m_ProgramIsStopped = s.m_ProgramIsStopped
    BY DEF Plugins
  <1> HIDE DEF r
  <1>3. Keeps(s, r) BY <1>1, <1>2, OtherFields DEF ListOk
  <1> QED BY <1>3 DEF r

(* A command, and the note that the program is started or no longer. *)
LEMMA QueueAndNote ==
    ASSUME NEW s \in Plugins, NEW c \in Commands, NEW started \in BOOLEAN
    PROVE  Keeps(s, [QueueLow(s, c) EXCEPT !.m_IsStarted = started])
  <1>1. Keeps(s, QueueLow(s, c)) BY QueueLowKeeps
  <1>2. QueueLow(s, c) \in Plugins BY <1>1 DEF Keeps, Typed
  <1>3. Keeps(QueueLow(s, c), [QueueLow(s, c) EXCEPT !.m_IsStarted = started]) BY <1>2, StartedKeeps
  <1> QED BY <1>1, <1>3, KeepsIsAPreorder

LEMMA ContinueKeeps ==
    ASSUME NEW s \in Plugins
    PROVE  Keeps(s, Continue(s)) /\ Keeps(s, DriverContinues(s))
  <1> DEFINE c == Plain(IF s.m_IsStarted THEN "cont" ELSE "run")
             r == [QueueLow(s, c) EXCEPT !.m_IsStarted = TRUE]
  <1>1. c \in Commands BY DEF Plain, Cmd, Commands
  <1>2. /\ Continue(s) = IF ~s.m_pProcess \/ ~s.hasDriver THEN s ELSE r
        /\ DriverContinues(s) = r
    BY DEF Continue, DriverContinues
  <1>3. TRUE \in BOOLEAN OBVIOUS
  <1> HIDE DEF c
  <1>4. Keeps(s, r) BY <1>1, <1>3, QueueAndNote
  <1> HIDE DEF r
  <1> QED BY <1>2, <1>4, KeepsIsAPreorder

LEMMA DoBreakKeeps ==
    ASSUME NEW s \in Plugins, NEW temporary \in BOOLEAN
    PROVE  Keeps(s, DoBreak(s, temporary))
  <1> DEFINE r == DoBreak(s, temporary)
             interrupts == s.m_pProcess /\ ~IsStopped(s)
             alive == gdb.program \in {"running", "stopped"}
             sigint == s.sigint \/ (interrupts /\ alive)
             poked == s.poked \/ (interrupts /\ ~alive)
  <1>1. sigint \in BOOLEAN /\ poked \in BOOLEAN BY Zenon
  <1>2. r = [s EXCEPT !.m_TemporaryBreak = temporary, !.sigint = sigint, !.poked = poked]
    BY DEF DoBreak, Plugins
  <1> HIDE DEF r, sigint, poked
  <1>3. r \in Plugins BY <1>1, <1>2 DEF Plugins
  <1>4. /\ r.m_pProcess = s.m_pProcess /\ r.hasDriver = s.hasDriver
        /\ r.m_Breakpoints = s.m_Breakpoints /\ r.made = s.made
        /\ r.m_QueueBusy = s.m_QueueBusy /\ r.toGdb = s.toGdb /\ r.m_DCmds = s.m_DCmds
        /\ r.m_ProgramIsStopped = s.m_ProgramIsStopped
    BY <1>2 DEF Plugins
  <1>5. Keeps(s, r) BY <1>3, <1>4, OtherFields DEF ListOk
  <1> QED BY <1>5 DEF r

LEMMA InterruptedKeeps ==
    ASSUME NEW s \in Plugins
    PROVE  Keeps(s, Interrupted(s))
  BY DoBreakKeeps, KeepsIsAPreorder DEF Interrupted

(* It touches neither the list nor the queue. *)
LEMMA InterruptedIs ==
    ASSUME NEW s \in Plugins
    PROVE  /\ Interrupted(s).bps = s.bps /\ Interrupted(s).m_Breakpoints = s.m_Breakpoints
           /\ Interrupted(s).made = s.made /\ Interrupted(s).m_DCmds = s.m_DCmds
           /\ Interrupted(s).m_QueueBusy = s.m_QueueBusy
           /\ Interrupted(s).hasDriver = s.hasDriver
  BY DEF Interrupted, DoBreak, Plugins

LEMMA ResumedKeeps ==
    ASSUME NEW s \in Plugins
    PROVE  Keeps(s, Resumed(s))
  BY ContinueKeeps, KeepsIsAPreorder DEF Resumed

(* DebuggerState::ApplyBreakpoints, on a driver of which a new session knows nothing. *)
Applied(s) ==
    LET list == s.m_Breakpoints
    IN [s EXCEPT
           !.bps = [b \in Breakpoints |-> IF b \in ToSet(list) THEN [s.bps[b] EXCEPT !.index = Unset]
                                                                ELSE s.bps[b]],
           !.m_DCmds = @ \o [i \in DOMAIN list |-> IF s.bps[list[i]].enabled
                                                    THEN Cmd("break", list[i], Unset) ELSE NoText]]

LEMMA AppliedKeeps ==
    ASSUME NEW s \in Plugins
    PROVE  /\ ApplyBreakpoints(s) = RunQueue(Applied(s))
           /\ Applied(s) \in Plugins /\ Keeps(s, Applied(s))
           /\ Applied(s).m_IsStarted = s.m_IsStarted
           /\ Applied(s).m_TemporaryBreak = s.m_TemporaryBreak
           /\ Applied(s).shown = s.shown /\ Applied(s).muted = s.muted
  <1> DEFINE list == s.m_Breakpoints
             bps == [b \in Breakpoints |-> IF b \in ToSet(list) THEN [s.bps[b] EXCEPT !.index = Unset]
                                                                 ELSE s.bps[b]]
             more == [i \in DOMAIN list |-> IF s.bps[list[i]].enabled
                                             THEN Cmd("break", list[i], Unset) ELSE NoText]
             t == [s EXCEPT !.bps = bps]
             q == s.m_DCmds \o more
             r == [t EXCEPT !.m_DCmds = q]
  <1>1. bps \in [Breakpoints -> Bps]
    <2>1. \A b \in Breakpoints : s.bps[b] \in Bps /\ [s.bps[b] EXCEPT !.index = Unset] \in Bps
      BY DEF Plugins, Bps, Unset
    <2> QED BY <2>1
  <1>2. more \in Seq(Commands)
    <2>1. list \in Seq(Breakpoints) BY DEF Plugins
    <2>2. Len(list) \in Nat /\ DOMAIN list = 1..Len(list) BY <2>1, LenProperties
    <2>3. \A i \in DOMAIN list : list[i] \in Breakpoints BY <2>1, <2>2
    <2>4. Unset \in Nat /\ NoText \in Commands BY DEF Unset, NoText, Plain, Cmd, Commands
    <2>5. \A i \in DOMAIN list : more[i] \in Commands BY <2>3, <2>4, EditCommands
    <2>6. more \in [1..Len(list) -> Commands]
      <3> HIDE DEF list
      <3>1. more = [i \in DOMAIN list |-> more[i]] OBVIOUS
      <3> HIDE DEF more
      <3> QED BY <2>2, <2>5, <3>1
    <2> HIDE DEF more, list
    <2> QED BY <2>2, <2>6, FunctionIsSequence
  <1>3. s.m_DCmds \in Seq(Commands) BY DEF Plugins
  <1>4. q \in Seq(Commands) /\ (s.m_DCmds # <<>> => q # <<>> /\ q[1] = s.m_DCmds[1])
    <2> HIDE DEF more
    <2>1. /\ q \in Seq(Commands) /\ Len(q) = Len(s.m_DCmds) + Len(more)
          /\ \A i \in 1..Len(s.m_DCmds) : q[i] = s.m_DCmds[i]
      BY <1>2, <1>3, ConcatProperties
    <2>2. Len(s.m_DCmds) \in Nat /\ Len(more) \in Nat BY <1>2, <1>3, LenProperties
    <2>3. ASSUME s.m_DCmds # <<>> PROVE q # <<>> /\ q[1] = s.m_DCmds[1]
      <3>1. Len(s.m_DCmds) >= 1 BY <1>3, <2>2, <2>3, EmptySeq
      <3> HIDE DEF q
      <3>2. q[1] = s.m_DCmds[1] /\ Len(q) >= 1 BY <2>1, <2>2, <3>1
      <3> QED BY <2>1, <3>2, EmptySeq
    <2> QED BY <2>1, <2>3
  <1>5. r = [s EXCEPT !.bps = bps, !.m_DCmds = q] OBVIOUS
  <1> HIDE DEF bps, more, q
  <1>6. t \in Plugins /\ Keeps(s, t) BY <1>1, BpsKeeps
  <1>7. r \in Plugins BY <1>4, <1>6 DEF Plugins
  <1>8. /\ r.m_pProcess = s.m_pProcess /\ r.hasDriver = s.hasDriver
        /\ r.m_Breakpoints = s.m_Breakpoints /\ r.made = s.made
        /\ r.m_QueueBusy = s.m_QueueBusy /\ r.toGdb = s.toGdb
        /\ r.m_ProgramIsStopped = s.m_ProgramIsStopped /\ r.m_DCmds = q
    BY DEF Plugins
  <1>9. /\ r.m_IsStarted = s.m_IsStarted /\ r.m_TemporaryBreak = s.m_TemporaryBreak
        /\ r.shown = s.shown /\ r.muted = s.muted
    BY DEF Plugins
  <1>10. ApplyBreakpoints(s) = RunQueue(r)
    BY <1>5 DEF ApplyBreakpoints, bps, more, q
  <1>11. Applied(s) = r BY <1>5 DEF Applied, bps, more, q
  <1> HIDE DEF r
  <1>12. Keeps(s, r) BY <1>4, <1>7, <1>8 DEF Keeps, Typed, Sound, Flight, Awake, ListOk
  <1> QED BY <1>7, <1>9, <1>10, <1>11, <1>12

LEMMA ApplyBreakpointsKeeps ==
    ASSUME NEW s \in Plugins
    PROVE  Keeps(s, ApplyBreakpoints(s))
  <1> DEFINE r == Applied(s)
  <1>1. ApplyBreakpoints(s) = RunQueue(r) /\ r \in Plugins /\ Keeps(s, r) BY AppliedKeeps
  <1> HIDE DEF r
  <1>2. Keeps(r, RunQueue(r)) BY <1>1, RunQueueKeeps
  <1> QED BY <1>1, <1>2, KeepsIsAPreorder

(* RemoveFirst leaves a sequence of what was there. *)
LEMMA RemoveFirstType ==
    ASSUME NEW S, NEW list \in Seq(S), NEW b
    PROVE  /\ RemoveFirst(list, b) \in Seq(S)
           /\ ToSet(RemoveFirst(list, b)) \subseteq ToSet(list)
           /\ ToSet(list) \ {b} \subseteq ToSet(RemoveFirst(list, b))
           /\ Distinct(list) => /\ Distinct(RemoveFirst(list, b))
                                /\ b \notin ToSet(RemoveFirst(list, b))
  <1> DEFINE Places == {i \in 1..Len(list) : list[i] = b}
             n == Min(Places)
  <1>1. CASE Places = {}
    <2>1. RemoveFirst(list, b) = list BY <1>1, Zenon DEF RemoveFirst
    <2>2. \A i \in 1..Len(list) : list[i] # b BY <1>1
    <2>3. b \notin ToSet(list) BY <2>2 DEF ToSet
    <2> QED BY <2>1, <2>3
  <1>2. CASE Places # {}
    <2>1. n \in 1..Len(list) /\ list[n] = b
      <3> DEFINE T == Places
      <3>1. Places \subseteq 1..Len(list) /\ Len(list) \in Nat BY LenProperties
      <3>2. T \subseteq Nat
        <4> HIDE DEF Places
        <4> QED BY <3>1
      <3>3. T # {} BY <1>2
      <3> HIDE DEF T
      <3>4. \E x \in T : \A y \in T : x <= y BY <3>2, <3>3, LeastNatural
      <3>5. Min(T) \in T BY <3>4 DEF Min
      <3> QED BY <3>5 DEF T
    <2>2. RemoveFirst(list, b) = SubSeq(list, 1, n - 1) \o SubSeq(list, n + 1, Len(list))
      BY <1>2 DEF RemoveFirst, RemoveAt, SelectInSeq
    <2> HIDE DEF n
    <2> DEFINE front == SubSeq(list, 1, n - 1)
               back == SubSeq(list, n + 1, Len(list))
    <2>3. Len(list) \in Nat /\ n \in Nat /\ n >= 1 /\ n <= Len(list) BY <2>1, LenProperties
    <2>4. /\ front \in Seq(S) /\ Len(front) = n - 1
          /\ \A i \in 1..(n - 1) : front[i] = list[i]
      <3>1. \A i \in 1..(n - 1) : list[i] \in S BY <2>3
      <3> QED BY <2>3, <3>1, SubSeqProperties
    <2>5. /\ back \in Seq(S) /\ Len(back) = Len(list) - n
          /\ \A i \in 1..(Len(list) - n) : back[i] = list[n + i]
      <3>1. \A i \in (n + 1)..Len(list) : list[i] \in S BY <2>3
      <3> QED BY <2>3, <3>1, SubSeqProperties
    <2> HIDE DEF front, back
    <2> DEFINE all == front \o back
    <2>6. /\ all \in Seq(S) /\ Len(all) = Len(front) + Len(back)
          /\ \A i \in 1..Len(front) + Len(back) :
                all[i] = IF i <= Len(front) THEN front[i] ELSE back[i - Len(front)]
      BY <2>4, <2>5, ConcatProperties
    <2> HIDE DEF all
    <2> DEFINE Was(i) == IF i <= n - 1 THEN i ELSE i + 1
    <2>7. ASSUME NEW i \in 1..(Len(list) - 1)
          PROVE  Was(i) \in 1..Len(list) /\ Was(i) # n /\ all[i] = list[Was(i)]
      <3>1. Len(front) = n - 1 /\ Len(back) = Len(list) - n BY <2>4, <2>5
      <3>2. CASE i <= n - 1
        <4>1. i \in 1..(n - 1) /\ i \in 1..Len(list) /\ Was(i) = i /\ i # n BY <2>3, <3>2
        <4>2. all[i] = front[i] BY <2>3, <2>6, <3>1, <3>2
        <4> QED BY <2>4, <4>1, <4>2
      <3>3. CASE ~(i <= n - 1)
        <4>1. i - (n - 1) \in 1..(Len(list) - n) /\ n + (i - (n - 1)) = i + 1 BY <2>3, <3>3
        <4>2. all[i] = back[i - (n - 1)] BY <2>3, <2>6, <3>1, <3>3
        <4>3. all[i] = list[i + 1] BY <2>5, <4>1, <4>2
        <4>4. i + 1 \in 1..Len(list) /\ i + 1 # n BY <2>3, <3>3
        <4> QED BY <3>3, <4>3, <4>4
      <3> QED BY <3>2, <3>3
    <2>8. Len(all) = Len(list) - 1 BY <2>3, <2>4, <2>5, <2>6
    <2>9. ASSUME NEW j \in 1..Len(list), j # n
          PROVE  \E i \in 1..(Len(list) - 1) : Was(i) = j
      <3>1. CASE j < n
        <4>1. j \in 1..(Len(list) - 1) /\ j <= n - 1 BY <2>3, <3>1
        <4> QED BY <4>1
      <3>2. CASE ~(j < n)
        <4>1. j - 1 \in 1..(Len(list) - 1) /\ ~(j - 1 <= n - 1) /\ (j - 1) + 1 = j
          BY <2>3, <2>9, <3>2
        <4> QED BY <4>1
      <3> QED BY <3>1, <3>2
    <2>10. \A i, j \in 1..(Len(list) - 1) : Was(i) = Was(j) => i = j BY <2>3
    <2> HIDE DEF Was
    <2>14. DOMAIN all = 1..(Len(list) - 1) /\ DOMAIN list = 1..Len(list) BY <2>6, <2>8, LenProperties
    <2>11. ToSet(all) \subseteq ToSet(list) BY <2>7, <2>14 DEF ToSet
    <2>12. ToSet(list) \ {b} \subseteq ToSet(all)
      <3>1. ASSUME NEW x \in ToSet(list), x # b PROVE x \in ToSet(all)
        <4>1. PICK j \in 1..Len(list) : list[j] = x BY <3>1 DEF ToSet
        <4>2. j # n BY <2>1, <3>1, <4>1
        <4>3. PICK i \in 1..(Len(list) - 1) : Was(i) = j BY <2>9, <4>2
        <4>4. all[i] = x BY <2>7, <4>1, <4>3
        <4> QED BY <2>14, <4>4 DEF ToSet
      <3> QED BY <3>1
    <2>13. ASSUME Distinct(list) PROVE Distinct(all) /\ b \notin ToSet(all)
      <3>1. Distinct(all) BY <2>7, <2>8, <2>10, <2>13 DEF Distinct
      <3>2. \A i \in 1..(Len(list) - 1) : all[i] # b BY <2>1, <2>7, <2>13 DEF Distinct
      <3> QED BY <2>8, <3>1, <3>2 DEF ToSet
    <2> QED BY <2>2, <2>6, <2>11, <2>12, <2>13 DEF front, back, all
  <1> QED BY <1>1, <1>2

-----------------------------------------------------------------------------
(* The parser of answers: first what it does to the record's type ... *)
LEMMA KeepsIsTyped == \A s, r : Keeps(s, r) => Typed(s, r) /\ r \in Plugins
  BY DEF Keeps, Typed

LEMMA FlagsTyped ==
    ASSUME NEW s \in Plugins, NEW busy \in BOOLEAN, NEW stopped \in BOOLEAN
    PROVE  LET r == [s EXCEPT !.m_QueueBusy = busy, !.m_ProgramIsStopped = stopped]
           IN  /\ Typed(s, r)
               /\ r.m_QueueBusy = busy /\ r.m_ProgramIsStopped = stopped
               /\ r.m_DCmds = s.m_DCmds /\ r.toGdb = s.toGdb /\ r.bps = s.bps
  <1> DEFINE r == [s EXCEPT !.m_QueueBusy = busy, !.m_ProgramIsStopped = stopped]
  <1>1. r \in Plugins BY DEF Plugins
  <1>2. /\ r.m_pProcess = s.m_pProcess /\ r.hasDriver = s.hasDriver
        /\ r.m_Breakpoints = s.m_Breakpoints /\ r.made = s.made
        /\ r.m_QueueBusy = busy /\ r.toGdb = s.toGdb /\ r.m_DCmds = s.m_DCmds
        /\ r.m_ProgramIsStopped = stopped /\ r.bps = s.bps
    BY DEF Plugins
  <1> HIDE DEF r
  <1>3. Typed(s, r) BY <1>1, <1>2 DEF Typed, ListOk
  <1> QED BY <1>2, <1>3 DEF r

LEMMA OnCursorChangedKeeps ==
    ASSUME NEW s \in Plugins
    PROVE  Keeps(s, OnCursorChanged(s))
  <1> DEFINE t == [s EXCEPT !.shown = TRUE]
             c == Plain("backtrace")
  <1>1. c \in Commands BY DEF Plain, Cmd, Commands
  <1>2. Keeps(s, t) BY ShownKeeps
  <1>3. t \in Plugins BY <1>2, KeepsIsTyped
  <1>4. \/ OnCursorChanged(s) = s \/ OnCursorChanged(s) = t
        \/ OnCursorChanged(s) = QueueLow(t, c)
    BY DEF OnCursorChanged
  <1> HIDE DEF t, c
  <1>5. Keeps(t, QueueLow(t, c)) BY <1>1, <1>3, QueueLowKeeps
  <1> QED BY <1>2, <1>4, <1>5, KeepsIsAPreorder

(* What BreakpointSet writes down. *)
KnownBps(s, b, r) ==
    LET wants == s.bps[b].wantsCondition \/ (r.says = "pending" /\ "condition" \in s.bps[b].wish)
    IN  [s.bps EXCEPT ![b] = [s.bps[b] EXCEPT !.index = r.no, !.wantsCondition = wants]]
Known(s, b, r) == Told(s, KnownBps(s, b, r), s.turnedDown \ {b})

LEMMA KnownIs ==
    ASSUME NEW s \in Plugins, NEW b \in Breakpoints, NEW r \in Answers
    PROVE  LET wish  == s.bps[b].wish
               known == Known(s, b, r)
               c     == Cmd("condition", b, r.no)
               conditioned == IF "condition" \in wish /\ r.says # "pending"
                              THEN QueueHigh(known, c) ELSE known
           IN  /\ BreakpointSet(s, b, r)
                    = IF "ignore" \in wish THEN QueueHigh(conditioned, Cmd("ignore", b, r.no))
                      ELSE conditioned
               /\ KnownBps(s, b, r) \in [Breakpoints -> Bps]
               /\ s.turnedDown \ {b} \in SUBSET Breakpoints
               /\ c \in Commands /\ Cmd("ignore", b, r.no) \in Commands
               /\ OneWishEach => ~("condition" \in wish /\ "ignore" \in wish)
  <1> DEFINE wish == s.bps[b].wish
             noted == r.says = "pending" /\ "condition" \in wish
             wants == s.bps[b].wantsCondition \/ noted
             bps == KnownBps(s, b, r)
             off == s.turnedDown \ {b}
             known == Known(s, b, r)
  <1>1. r.no \in Nat BY DEF Answers
  <1>2. s.bps \in [Breakpoints -> Bps] /\ off \in SUBSET Breakpoints BY DEF Plugins
  <1>3. s.bps[b] \in Bps BY <1>2
  <1>4. bps = [s.bps EXCEPT ![b] = [s.bps[b] EXCEPT !.index = r.no, !.wantsCondition = wants]]
    BY DEF KnownBps
  <1>5. wants \in BOOLEAN BY Zenon
  <1>6. bps \in [Breakpoints -> Bps]
    <2> HIDE DEF bps, wants
    <2>1. [s.bps[b] EXCEPT !.index = r.no, !.wantsCondition = wants] \in Bps
      BY <1>1, <1>3, <1>5 DEF Bps
    <2> QED BY <1>2, <1>4, <2>1
  <1>7. known = [s EXCEPT !.bps = bps, !.turnedDown = off] BY DEF Known, Told
  <1>8. known = [s EXCEPT !.bps[b] = [s.bps[b] EXCEPT !.index = r.no, !.wantsCondition = @ \/ noted],
                          !.turnedDown = @ \ {b}]
    <2> DEFINE one == [s.bps[b] EXCEPT !.index = r.no, !.wantsCondition = @ \/ noted]
               two == [s.bps[b] EXCEPT !.index = r.no, !.wantsCondition = wants]
    <2>1. one = two
      <3> HIDE DEF noted
      <3> QED BY <1>3 DEF Bps
    <2>2. bps = [s.bps EXCEPT ![b] = two] BY <1>4
    <2> HIDE DEF one, two, bps
    <2>3. known = [s EXCEPT !.bps[b] = one, !.turnedDown = @ \ {b}]
      BY <1>7, <2>1, <2>2 DEF Plugins
    <2> QED BY <2>3 DEF one
  <1>9. Cmd("condition", b, r.no) \in Commands /\ Cmd("ignore", b, r.no) \in Commands
    BY <1>1, EditCommands
  <1>10. OneWishEach => ~("condition" \in wish /\ "ignore" \in wish)
    <2>1. wish \in Wishable BY <1>3 DEF Bps
    <2> HIDE DEF wish
    <2> QED BY <2>1, LessIsWishable
  <1>11. BreakpointSet(s, b, r)
           = LET conditioned == IF "condition" \in wish /\ r.says # "pending"
                                THEN QueueHigh(known, Cmd("condition", b, r.no)) ELSE known
             IN  IF "ignore" \in wish THEN QueueHigh(conditioned, Cmd("ignore", b, r.no))
                 ELSE conditioned
    <2> HIDE DEF known
    <2> QED BY <1>8 DEF BreakpointSet
  <1> HIDE DEF known, bps, off
  <1> QED BY <1>2, <1>6, <1>9, <1>10, <1>11 DEF known, bps, off

LEMMA BreakpointSetKeeps ==
    ASSUME NEW s \in Plugins, NEW b \in Breakpoints, NEW r \in Answers
    PROVE  /\ Typed(s, BreakpointSet(s, b, r))
           /\ OneWishEach /\ ~s.m_QueueBusy => Keeps(s, BreakpointSet(s, b, r))
  <1> DEFINE known == Known(s, b, r)
             c == Cmd("condition", b, r.no)
             i == Cmd("ignore", b, r.no)
             conditioned == IF "condition" \in s.bps[b].wish /\ r.says # "pending"
                            THEN QueueHigh(known, c) ELSE known
             done == IF "ignore" \in s.bps[b].wish THEN QueueHigh(conditioned, i) ELSE conditioned
  <1>1. /\ c \in Commands /\ i \in Commands
        /\ BreakpointSet(s, b, r) = done
        /\ OneWishEach => ~("condition" \in s.bps[b].wish /\ "ignore" \in s.bps[b].wish)
    BY KnownIs
  <1>3. KnownBps(s, b, r) \in [Breakpoints -> Bps] /\ s.turnedDown \ {b} \in SUBSET Breakpoints
    BY KnownIs
  <1>2. known \in Plugins /\ Keeps(s, known) /\ known.m_QueueBusy = s.m_QueueBusy
    BY <1>3, ToldKeeps DEF Known
  <1> HIDE DEF known, c, i
  <1>5. Typed(s, known) /\ Typed(known, known) BY <1>2, KeepsIsAPreorder, KeepsIsTyped
  <1>6. Typed(known, conditioned) BY <1>1, <1>2, <1>5, QueueHighKeeps
  <1>7. conditioned \in Plugins BY <1>6 DEF Typed
  <1>8. Typed(s, done)
    <2> HIDE DEF conditioned
    <2>1. Typed(conditioned, QueueHigh(conditioned, i)) BY <1>1, <1>7, QueueHighKeeps
    <2> QED BY <1>5, <1>6, <2>1, KeepsIsAPreorder
  <1>9. ASSUME OneWishEach, ~s.m_QueueBusy PROVE Keeps(s, done)
    <2>1. Keeps(known, QueueHigh(known, c)) /\ Keeps(known, QueueHigh(known, i))
      BY <1>1, <1>2, <1>9, QueueHighKeeps
    <2>2. done = known \/ done = QueueHigh(known, c) \/ done = QueueHigh(known, i)
      BY <1>1, <1>9
    <2> HIDE DEF done
    <2> QED BY <1>2, <2>1, <2>2, KeepsIsAPreorder
  <1> QED BY <1>1, <1>8, <1>9

(* A breakpoint that gdb has refused. *)
LEMMA BreakpointRefusedKeeps ==
    ASSUME NEW s \in Plugins, NEW b \in Breakpoints
    PROVE  LET r == BreakpointRefused(s, b)
           IN  /\ r = Told(s, s.bps, s.turnedDown \cup {b})
               /\ r \in Plugins /\ Keeps(s, r) /\ r.bps = s.bps
               /\ r.turnedDown = s.turnedDown \cup {b}
               /\ r.m_QueueBusy = s.m_QueueBusy /\ r.m_DCmds = s.m_DCmds
               /\ r.m_Breakpoints = s.m_Breakpoints /\ r.hasDriver = s.hasDriver
  <1> DEFINE off == s.turnedDown \cup {b}
             r == BreakpointRefused(s, b)
  <1>1. r = Told(s, s.bps, off) BY DEF BreakpointRefused, Plugins, Told
  <1>2. off \in SUBSET Breakpoints /\ s.bps \in [Breakpoints -> Bps] BY DEF Plugins
  <1> HIDE DEF off, r
  <1> DEFINE t == Told(s, s.bps, off)
  <1>3. /\ t \in Plugins /\ Keeps(s, t) /\ t.bps = s.bps /\ t.turnedDown = off
        /\ t.m_QueueBusy = s.m_QueueBusy /\ t.m_DCmds = s.m_DCmds
        /\ t.m_Breakpoints = s.m_Breakpoints /\ t.hasDriver = s.hasDriver
    BY <1>2, ToldKeeps
  <1> HIDE DEF t
  <1>4. r = t BY <1>1 DEF t
  <1> QED BY <1>1, <1>3, <1>4 DEF off, r

(* What ConditionRejected writes down, by the user's answer. *)
LessBps(s, b) == [s.bps EXCEPT ![b] = [s.bps[b] EXCEPT !.wish = s.bps[b].wish \ {"condition"}]]
Unconditioned(s, b) == Told(s, LessBps(s, b), s.turnedDown \cup {b})

LEMMA UnconditionedIs ==
    ASSUME NEW s \in Plugins, NEW b \in Breakpoints
    PROVE  LET c == Cmd("uncondition", b, s.bps[b].index)
           IN  /\ LessBps(s, b) \in [Breakpoints -> Bps]
               /\ s.turnedDown \cup {b} \in SUBSET Breakpoints
               /\ c \in Commands
               /\ \A says : ConditionRejected(s, b, says)
                     = IF says = "unconditional" THEN QueueHigh(Unconditioned(s, b), c)
                       ELSE DriverContinues(RemoveFromDriver(BreakpointRefused(s, b), b))
  <1> DEFINE bps == LessBps(s, b)
             off == s.turnedDown \cup {b}
             c   == Cmd("uncondition", b, s.bps[b].index)
             r   == Unconditioned(s, b)
  <1>1. s.bps \in [Breakpoints -> Bps] /\ s.bps[b] \in Bps /\ off \in SUBSET Breakpoints
    BY DEF Plugins
  <1>2. r = [s EXCEPT !.bps = bps, !.turnedDown = off] BY DEF Unconditioned, Told
  <1>3. r = [s EXCEPT !.bps[b].wish = @ \ {"condition"}, !.turnedDown = @ \cup {b}]
    BY <1>2 DEF Plugins, LessBps
  <1>4. bps \in [Breakpoints -> Bps]
    <2>1. s.bps[b].wish \in Wishable /\ s.bps[b].index \in Nat BY <1>1 DEF Bps
    <2>2. s.bps[b].wish \ {"condition"} \in Wishable BY <2>1, LessIsWishable
    <2>3. [s.bps[b] EXCEPT !.wish = s.bps[b].wish \ {"condition"}] \in Bps BY <1>1, <2>2 DEF Bps
    <2> QED BY <1>1, <2>3 DEF LessBps
  <1>5. s.bps[b].index \in Nat BY <1>1 DEF Bps
  <1>6. c \in Commands BY <1>5, EditCommands
  <1>7. \A says : ConditionRejected(s, b, says)
                    = IF says = "unconditional" THEN QueueHigh(r, c)
                      ELSE DriverContinues(RemoveFromDriver(BreakpointRefused(s, b), b))
    <2> HIDE DEF r
    <2> QED BY <1>3 DEF ConditionRejected, BreakpointRefused
  <1> HIDE DEF bps, off, c, r
  <1> QED BY <1>1, <1>4, <1>6, <1>7 DEF bps, off, c, r

LEMMA ConditionRejectedKeeps ==
    ASSUME NEW s \in Plugins, NEW b \in Breakpoints, NEW says
    PROVE  /\ Typed(s, ConditionRejected(s, b, says))
           /\ ~s.m_QueueBusy => Keeps(s, ConditionRejected(s, b, says))
  <1> DEFINE u == Unconditioned(s, b)
             c == Cmd("uncondition", b, s.bps[b].index)
             f == BreakpointRefused(s, b)
             d == RemoveFromDriver(f, b)
  <1>1. /\ c \in Commands
        /\ ConditionRejected(s, b, says) = IF says = "unconditional" THEN QueueHigh(u, c)
                                           ELSE DriverContinues(d)
    BY UnconditionedIs
  <1>8. LessBps(s, b) \in [Breakpoints -> Bps] /\ s.turnedDown \cup {b} \in SUBSET Breakpoints
    BY UnconditionedIs
  <1>2. u \in Plugins /\ Keeps(s, u) /\ u.m_QueueBusy = s.m_QueueBusy
    BY <1>8, ToldKeeps DEF Unconditioned
  <1>3. f \in Plugins /\ Keeps(s, f) BY BreakpointRefusedKeeps
  <1> HIDE DEF u, c, f
  <1>4. Keeps(f, d) /\ d \in Plugins BY <1>3, RemoveFromDriverKeeps, KeepsIsTyped
  <1> HIDE DEF d
  <1>5. Keeps(d, DriverContinues(d)) BY <1>4, ContinueKeeps
  <1>6. Keeps(s, DriverContinues(d)) BY <1>3, <1>4, <1>5, KeepsIsAPreorder
  <1>7. /\ Typed(s, QueueHigh(u, c))
        /\ ~s.m_QueueBusy => Keeps(s, QueueHigh(u, c))
    BY <1>1, <1>2, QueueHighKeeps, KeepsIsAPreorder, KeepsIsTyped
  <1> QED BY <1>1, <1>6, <1>7, KeepsIsTyped

LEMMA CommandParsesKeeps ==
    ASSUME NEW s \in Plugins, NEW r \in Answers, NEW c \in Commands
    PROVE  /\ Typed(s, CommandParses(s, c, r))
           /\ OneWishEach /\ ~s.m_QueueBusy => Keeps(s, CommandParses(s, c, r))
           /\ Continues(c) => CommandParses(s, c, r) = s
  <1>2. c.kind \in {"break", "condition"} => c.bp \in Breakpoints BY DEF Commands
  <1>3. \/ CommandParses(s, c, r) = BreakpointSet(s, c.bp, r) /\ c.kind = "break"
        \/ CommandParses(s, c, r) = BreakpointRefused(s, c.bp) /\ c.kind = "break"
        \/ CommandParses(s, c, r) = ConditionRejected(s, c.bp, r.says) /\ c.kind = "condition"
        \/ CommandParses(s, c, r) = OnCursorChanged(s) /\ c.kind = "info frame"
        \/ CommandParses(s, c, r) = s
    BY DEF CommandParses
  <1>4. Keeps(s, s) /\ Typed(s, s) BY KeepsIsAPreorder, KeepsIsTyped
  <1>5. Keeps(s, OnCursorChanged(s)) /\ Typed(s, OnCursorChanged(s))
    BY OnCursorChangedKeeps, KeepsIsTyped
  <1>6. Continues(c) => CommandParses(s, c, r) = s BY DEF CommandParses, Continues
  <1>7. c.kind = "break" =>
           /\ Typed(s, BreakpointSet(s, c.bp, r))
           /\ OneWishEach /\ ~s.m_QueueBusy => Keeps(s, BreakpointSet(s, c.bp, r))
    BY <1>2, BreakpointSetKeeps
  <1>8. c.kind = "break" =>
           Keeps(s, BreakpointRefused(s, c.bp)) /\ Typed(s, BreakpointRefused(s, c.bp))
    BY <1>2, BreakpointRefusedKeeps, KeepsIsTyped
  <1>9. c.kind = "condition" =>
           /\ Typed(s, ConditionRejected(s, c.bp, r.says))
           /\ ~s.m_QueueBusy => Keeps(s, ConditionRejected(s, c.bp, r.says))
    BY <1>2, ConditionRejectedKeeps
  <1> QED BY <1>3, <1>4, <1>5, <1>6, <1>7, <1>8, <1>9

(* GetBreakpointByNumber finds a breakpoint of the list with this number, or none. *)
LEMMA ByNumberIs ==
    ASSUME NEW s \in Plugins, NEW n
    PROVE  \/ ByNumber(s, n) = "none"
           \/ /\ ByNumber(s, n) \in ToSet(s.m_Breakpoints)
              /\ ByNumber(s, n) \in Breakpoints /\ s.bps[ByNumber(s, n)].index = n
  <1> DEFINE list == s.m_Breakpoints
             Found == {i \in 1..Len(list) : s.bps[list[i]].index = n}
             first == IF Found # {} THEN Min(Found) ELSE 0
  <1>1. list \in Seq(Breakpoints) BY DEF Plugins
  <1>2. Len(list) \in Nat /\ DOMAIN list = 1..Len(list) BY <1>1, LenProperties
  <1>3. ByNumber(s, n) = IF first = 0 THEN "none" ELSE list[first] BY DEF ByNumber, SelectInSeq
  <1>4. Found # {} => first \in Found
    <2>1. ASSUME Found # {} PROVE \E x \in Found : \A y \in Found : x <= y
      <3> DEFINE T == Found
      <3>1. T \subseteq 1..Len(list) OBVIOUS
      <3>2. T \subseteq Nat
        <4> HIDE DEF T, list
        <4> QED BY <1>2, <3>1
      <3>3. T # {} BY <2>1
      <3> HIDE DEF T
      <3>4. \E x \in T : \A y \in T : x <= y BY <3>2, <3>3, LeastNatural
      <3> QED BY <3>4 DEF T
    <2> QED BY <2>1 DEF Min
  <1>5. CASE Found # {}
    <2>1. first \in 1..Len(list) /\ s.bps[list[first]].index = n BY <1>4, <1>5
    <2> HIDE DEF first, Found, list
    <2>2. first # 0 BY <1>2, <2>1
    <2>3. ByNumber(s, n) = list[first] BY <1>3, <2>2
    <2>4. list[first] \in Breakpoints BY <1>1, <2>1
    <2>5. list[first] \in ToSet(list) BY <1>2, <2>1 DEF ToSet
    <2> QED BY <2>1, <2>3, <2>4, <2>5 DEF list
  <1>6. CASE Found = {} BY <1>3, <1>6
  <1> QED BY <1>5, <1>6

(* A breakpoint of the list was hit: what is noted of it, and the command that follows. *)
FlaggedBps(s, b) == [s.bps EXCEPT ![b] = [s.bps[b] EXCEPT !.wantsCondition = FALSE]]
Flagged(s, b) == [s EXCEPT !.bps = FlaggedBps(s, b)]
Owed(s, b, n) == Cmd(IF "condition" \in s.bps[b].wish THEN "condition" ELSE "uncondition", b, n)

LEMMA BreakpointHitIs ==
    ASSUME NEW s \in Plugins, NEW r \in Answers
    PROVE  LET b == ByNumber(s, r.hit)
           IN  \/ BreakpointHit(s, r) = s
               \/ /\ r.hit # Unset
                  /\ b \in ToSet(s.m_Breakpoints) /\ b \in Breakpoints
                  /\ s.bps[b].index = r.hit /\ s.bps[b].wantsCondition
                  /\ BreakpointHit(s, r) = QueueLow(Flagged(s, b), Owed(s, b, r.hit))
                  /\ Owed(s, b, r.hit) \in Commands
                  /\ FlaggedBps(s, b) \in [Breakpoints -> Bps]
  <1> DEFINE b == ByNumber(s, r.hit)
             bps == FlaggedBps(s, b)
  <1>1. r.hit \in Nat BY DEF Answers
  <1>2. \/ b = "none"
        \/ b \in ToSet(s.m_Breakpoints) /\ b \in Breakpoints /\ s.bps[b].index = r.hit
    BY ByNumberIs
  <1>3. s.m_Breakpoints \in Seq(Breakpoints) /\ s.bps \in [Breakpoints -> Bps] BY DEF Plugins
  <1> HIDE DEF b
  <1>5. CASE r.hit = Unset BY <1>5 DEF BreakpointHit
  <1>7. CASE r.hit # Unset
    <2>1. CASE b = "none" \/ ~s.bps[b].wantsCondition
      BY <1>7, <2>1 DEF BreakpointHit, b
    <2>2. CASE b # "none" /\ s.bps[b].wantsCondition
      <3>1. b \in ToSet(s.m_Breakpoints) /\ b \in Breakpoints /\ s.bps[b].index = r.hit
        BY <1>2, <2>2
      <3>2. Flagged(s, b) = [s EXCEPT !.bps[b].wantsCondition = FALSE]
        BY <3>1 DEF Flagged, FlaggedBps, Plugins
      <3>3. BreakpointHit(s, r) = QueueLow(Flagged(s, b), Owed(s, b, r.hit))
        BY <1>7, <2>2, <3>2 DEF BreakpointHit, b, Owed
      <3>4. Owed(s, b, r.hit) \in Commands BY <1>1, <3>1, EditCommands DEF Owed
      <3>5. bps \in [Breakpoints -> Bps]
        <4>1. s.bps[b] \in Bps BY <1>3, <3>1
        <4>2. [s.bps[b] EXCEPT !.wantsCondition = FALSE] \in Bps BY <4>1 DEF Bps
        <4> QED BY <1>3, <3>1, <4>2 DEF FlaggedBps
      <3> HIDE DEF bps
      <3> QED BY <1>7, <2>2, <3>1, <3>3, <3>4, <3>5 DEF b, bps
    <2> QED BY <2>1, <2>2
  <1> QED BY <1>5, <1>7

LEMMA BreakpointHitKeeps ==
    ASSUME NEW s \in Plugins, NEW r \in Answers
    PROVE  Keeps(s, BreakpointHit(s, r))
  <1> DEFINE b == ByNumber(s, r.hit)
             u == Flagged(s, b)
             c == Owed(s, b, r.hit)
  <1>2. \/ BreakpointHit(s, r) = s
        \/ /\ BreakpointHit(s, r) = QueueLow(u, c) /\ c \in Commands
           /\ FlaggedBps(s, b) \in [Breakpoints -> Bps]
    BY BreakpointHitIs
  <1>4. FlaggedBps(s, b) \in [Breakpoints -> Bps]
          => u \in Plugins /\ Keeps(s, u)
    BY BpsKeeps DEF Flagged
  <1> HIDE DEF u, c
  <1>5. u \in Plugins /\ c \in Commands => Keeps(u, QueueLow(u, c)) BY QueueLowKeeps
  <1> QED BY <1>2, <1>4, <1>5, KeepsIsAPreorder

(* While the program runs nothing is sent: the queue grows at most. *)
LEMMA HitWhileRunning ==
    ASSUME NEW s \in Plugins, NEW r \in Answers, ~s.m_ProgramIsStopped
    PROVE  LET h == BreakpointHit(s, r)
           IN  /\ h \in Plugins /\ h.m_pProcess = s.m_pProcess
               /\ h.m_QueueBusy = s.m_QueueBusy /\ h.toGdb = s.toGdb
               /\ ~h.m_ProgramIsStopped
  <1> DEFINE b == ByNumber(s, r.hit)
             u == Flagged(s, b)
             c == Owed(s, b, r.hit)
             h == BreakpointHit(s, r)
             v == [u EXCEPT !.m_DCmds = Append(@, c)]
  <1>1. h \in Plugins BY BreakpointHitKeeps, KeepsIsTyped
  <1>2. h = s \/ h = QueueLow(u, c)
    BY BreakpointHitIs
  <1>4. /\ v.m_pProcess = s.m_pProcess /\ v.m_QueueBusy = s.m_QueueBusy /\ v.toGdb = s.toGdb
        /\ ~v.m_ProgramIsStopped
    BY DEF Plugins, Flagged
  <1> HIDE DEF h, v
  <1>5. RunQueue(v) = v BY <1>4, Zenon DEF RunQueue
  <1>6. QueueLow(u, c) = v BY <1>5 DEF QueueLow, v
  <1> QED BY <1>1, <1>2, <1>4, <1>6 DEF h

LEMMA RemoveTopTyped ==
    ASSUME NEW s \in Plugins
    PROVE  Typed(s, RemoveTopCommand(s))
  <1>1. CASE s.m_QueueBusy \/ s.m_DCmds = <<>>
    BY <1>1, KeepsIsAPreorder, KeepsIsTyped DEF RemoveTopCommand
  <1>2. CASE ~(s.m_QueueBusy \/ s.m_DCmds = <<>>)
    <2> DEFINE q == Tail(s.m_DCmds)
               r == [s EXCEPT !.m_DCmds = q]
    <2>1. q \in Seq(Commands)
      <3>1. s.m_DCmds \in Seq(Commands) BY DEF Plugins
      <3> QED BY <1>2, <3>1, HeadTailProperties
    <2>2. RemoveTopCommand(s) = r BY <1>2 DEF RemoveTopCommand, Plugins
    <2> HIDE DEF q
    <2>3. r \in Plugins BY <2>1 DEF Plugins
    <2>4. /\ r.m_pProcess = s.m_pProcess /\ r.hasDriver = s.hasDriver
          /\ r.m_Breakpoints = s.m_Breakpoints /\ r.made = s.made
      BY DEF Plugins
    <2> HIDE DEF r
    <2> QED BY <2>2, <2>3, <2>4 DEF Typed, ListOk
  <1> QED BY <1>1, <1>2

LEMMA TakeAnswerTyped ==
    ASSUME NEW s \in Plugins, NEW r \in Answers
    PROVE  Typed(s, TakeAnswer(s, r))
  <1> DEFINE idle == [s EXCEPT !.m_QueueBusy = FALSE]
             a == RemoveTopCommand(idle)
             b == CommandParses(a, s.m_DCmds[1], r)
  <1>1. Typed(s, idle) /\ idle \in Plugins
    <2>1. idle = [s EXCEPT !.m_QueueBusy = FALSE, !.m_ProgramIsStopped = s.m_ProgramIsStopped]
      BY DEF Plugins
    <2>2. s.m_ProgramIsStopped \in BOOLEAN BY DEF Plugins
    <2>3. Typed(s, [s EXCEPT !.m_QueueBusy = FALSE, !.m_ProgramIsStopped = s.m_ProgramIsStopped])
      BY <2>2, FlagsTyped
    <2> HIDE DEF idle
    <2>4. Typed(s, idle) BY <2>1, <2>3, Zenon
    <2> QED BY <2>4 DEF Typed
  <1>2. TakeAnswer(s, r) = IF s.m_DCmds = <<>> THEN idle ELSE RunQueue(b) BY DEF TakeAnswer
  <1> HIDE DEF idle
  <1>3. ASSUME s.m_DCmds # <<>> PROVE Typed(s, RunQueue(b))
    <2>1. s.m_DCmds[1] \in Commands
      <3>1. s.m_DCmds \in Seq(Commands) BY DEF Plugins
      <3>2. 1 \in 1..Len(s.m_DCmds) BY <1>3, <3>1, EmptySeq, LenProperties
      <3> QED BY <3>1, <3>2
    <2>2. Typed(idle, a) /\ a \in Plugins BY <1>1, RemoveTopTyped DEF Typed
    <2> HIDE DEF a
    <2>3. Typed(a, b) /\ b \in Plugins BY <2>1, <2>2, CommandParsesKeeps DEF Typed
    <2> HIDE DEF b
    <2>4. Typed(b, RunQueue(b)) BY <2>3, RunQueueKeeps, KeepsIsTyped
    <2>5. Typed(s, a) BY <1>1, <2>2, KeepsIsAPreorder
    <2>6. Typed(s, b) BY <2>3, <2>5, KeepsIsAPreorder
    <2> QED BY <2>4, <2>6, KeepsIsAPreorder
  <1> QED BY <1>1, <1>2, <1>3

LEMMA StoppedTyped ==
    ASSUME NEW s \in Plugins
    PROVE  Typed(s, [s EXCEPT !.m_ProgramIsStopped = TRUE])
  <1>1. [s EXCEPT !.m_ProgramIsStopped = TRUE]
          = [s EXCEPT !.m_QueueBusy = s.m_QueueBusy, !.m_ProgramIsStopped = TRUE]
    BY DEF Plugins
  <1>2. s.m_QueueBusy \in BOOLEAN BY DEF Plugins
  <1> QED BY <1>1, <1>2, FlagsTyped

LEMMA StopTyped ==
    ASSUME NEW s \in Plugins
    PROVE  Typed(s, [s EXCEPT !.m_ProgramIsStopped = TRUE, !.m_QueueBusy = FALSE])
  <1>1. [s EXCEPT !.m_ProgramIsStopped = TRUE, !.m_QueueBusy = FALSE]
          = [s EXCEPT !.m_QueueBusy = FALSE, !.m_ProgramIsStopped = TRUE]
    OBVIOUS
  <1> QED BY <1>1, FlagsTyped

(* The end of the program, as ReadLines sees it. *)
Ended(s) == [QueueLow([s EXCEPT !.m_ProgramIsStopped = TRUE], Plain("quit"))
               EXCEPT !.m_IsStarted = FALSE]

LEMMA EndedTyped ==
    ASSUME NEW s \in Plugins
    PROVE  Typed(s, Ended(s))
  <1> DEFINE t == [s EXCEPT !.m_ProgramIsStopped = TRUE]
             c == Plain("quit")
  <1>1. Typed(s, t) /\ t \in Plugins BY StoppedTyped DEF Typed
  <1>2. c \in Commands /\ FALSE \in BOOLEAN BY DEF Plain, Cmd, Commands
  <1> HIDE DEF t, c
  <1>3. Keeps(t, [QueueLow(t, c) EXCEPT !.m_IsStarted = FALSE]) BY <1>1, <1>2, QueueAndNote
  <1> QED BY <1>1, <1>3, KeepsIsAPreorder, KeepsIsTyped DEF Ended, t, c

LEMMA ReadLinesTyped ==
    ASSUME NEW s \in Plugins, NEW r
    PROVE  Typed(s, ReadLines(s, r))
  <1> DEFINE ended == IF "exit" \in r.lines THEN Ended(s) ELSE s
             done == IF "signal" \in r.lines
                     THEN [ended EXCEPT !.m_ProgramIsStopped = TRUE, !.m_QueueBusy = FALSE]
                     ELSE ended
  <1>1. ReadLines(s, r) = done BY DEF ReadLines, Ended
  <1>2. Typed(s, s) BY KeepsIsAPreorder, KeepsIsTyped
  <1>3. Typed(s, ended) /\ ended \in Plugins BY <1>2, EndedTyped DEF Typed
  <1> HIDE DEF ended
  <1>4. Typed(ended, [ended EXCEPT !.m_ProgramIsStopped = TRUE, !.m_QueueBusy = FALSE])
    BY <1>3, StopTyped
  <1> QED BY <1>1, <1>3, <1>4, KeepsIsAPreorder

LEMMA SeekCursorTyped ==
    ASSUME NEW s \in Plugins, NEW r
    PROVE  Typed(s, SeekCursor(s, r))
  <1> DEFINE c == Plain("info frame")
             t == QueueLow(s, c)
  <1>1. c \in Commands BY DEF Plain, Cmd, Commands
  <1>2. SeekCursor(s, r) = s \/ SeekCursor(s, r) = [t EXCEPT !.m_ProgramIsStopped = TRUE]
    BY DEF SeekCursor
  <1> HIDE DEF c
  <1>3. Typed(s, t) /\ t \in Plugins BY <1>1, QueueLowKeeps, KeepsIsTyped
  <1> HIDE DEF t
  <1>4. Typed(t, [t EXCEPT !.m_ProgramIsStopped = TRUE]) BY <1>3, StoppedTyped
  <1> QED BY <1>2, <1>3, <1>4, KeepsIsAPreorder, KeepsIsTyped

LEMMA CursorChangesTyped ==
    ASSUME NEW s \in Plugins, NEW r
    PROVE  Typed(s, CursorChanges(s, r))
  <1> DEFINE t == [s EXCEPT !.m_ProgramIsStopped = TRUE, !.m_QueueBusy = FALSE]
  <1>1. Typed(s, t) /\ t \in Plugins BY StopTyped DEF Typed
  <1>2. CursorChanges(s, r) = s \/ CursorChanges(s, r) = OnCursorChanged(t) BY DEF CursorChanges
  <1> HIDE DEF t
  <1>3. Typed(t, OnCursorChanged(t)) BY <1>1, OnCursorChangedKeeps, KeepsIsTyped
  <1> QED BY <1>1, <1>2, <1>3, KeepsIsAPreorder, KeepsIsTyped

LEMMA ParseOutputTyped ==
    ASSUME NEW s \in Plugins, NEW r \in Answers
    PROVE  Typed(s, ParseOutput(s, r))
  <1> DEFINE a == TakeAnswer(s, r)
             h == BreakpointHit(a, r)
             b == ReadLines(h, r)
             c == SeekCursor(b, r)
             d == CursorChanges(c, r)
  <1>1. ParseOutput(s, r) = RunQueue(d) BY DEF ParseOutput
  <1>2. Typed(s, a) /\ a \in Plugins BY TakeAnswerTyped DEF Typed
  <1> HIDE DEF a
  <1>8. Typed(a, h) /\ h \in Plugins BY <1>2, BreakpointHitKeeps, KeepsIsTyped
  <1> HIDE DEF h
  <1>3. Typed(h, b) /\ b \in Plugins BY <1>8, ReadLinesTyped DEF Typed
  <1> HIDE DEF b
  <1>4. Typed(b, c) /\ c \in Plugins BY <1>3, SeekCursorTyped DEF Typed
  <1> HIDE DEF c
  <1>5. Typed(c, d) /\ d \in Plugins BY <1>4, CursorChangesTyped DEF Typed
  <1> HIDE DEF d
  <1>6. Typed(d, RunQueue(d)) BY <1>5, RunQueueKeeps, KeepsIsTyped
  <1> QED BY <1>1, <1>2, <1>3, <1>4, <1>5, <1>6, <1>8, KeepsIsAPreorder

(* ... then what becomes of a queue whose head gets its answer r. *)
LEMMA AnsweredHead ==
    ASSUME NEW s \in Plugins, NEW r \in Answers, NEW refused, s.m_pProcess,
           Sound(s, <<r.of>>, refused)
    PROVE  LET a == RemoveTopCommand([s EXCEPT !.m_QueueBusy = FALSE])
           IN  /\ TakeAnswer(s, r) = RunQueue(CommandParses(a, r.of, r))
               /\ a \in Plugins /\ a.m_pProcess
               /\ ~a.m_QueueBusy /\ a.toGdb = <<>>
               /\ a.m_ProgramIsStopped <=> ~Continues(r.of)
  <1> DEFINE idle == [s EXCEPT !.m_QueueBusy = FALSE]
             a == RemoveTopCommand(idle)
  <1>1. /\ s.m_QueueBusy /\ s.m_DCmds # <<>> /\ s.m_DCmds[1] = r.of /\ s.toGdb = <<>>
        /\ s.m_ProgramIsStopped <=> ~Continues(r.of)
    <2>1. <<r.of>> # <<>> OBVIOUS
    <2>2. /\ s.m_QueueBusy /\ s.m_DCmds # <<>> /\ <<r.of>> = <<s.m_DCmds[1]>> /\ s.toGdb = <<>>
          /\ s.m_ProgramIsStopped <=> ~Continues(s.m_DCmds[1])
      BY <2>1 DEF Sound, Flight
    <2>3. s.m_DCmds[1] = r.of BY <2>2
    <2> QED BY <2>2, <2>3
  <1>2. /\ idle \in Plugins /\ idle.m_pProcess = s.m_pProcess
        /\ ~idle.m_QueueBusy /\ idle.m_DCmds = s.m_DCmds /\ idle.toGdb = s.toGdb
        /\ idle.m_ProgramIsStopped = s.m_ProgramIsStopped
    BY DEF Plugins
  <1>3. TakeAnswer(s, r) = RunQueue(CommandParses(a, r.of, r)) BY <1>1 DEF TakeAnswer
  <1> HIDE DEF idle
  <1>4. a \in Plugins BY <1>2, RemoveTopTyped DEF Typed
  <1>5. a = [idle EXCEPT !.m_DCmds = Tail(idle.m_DCmds)]
    BY <1>1, <1>2 DEF RemoveTopCommand, Plugins
  <1>6. /\ a.m_pProcess = idle.m_pProcess /\ a.m_QueueBusy = idle.m_QueueBusy
        /\ a.toGdb = idle.toGdb /\ a.m_ProgramIsStopped = idle.m_ProgramIsStopped
    BY <1>2, <1>5 DEF Plugins
  <1> HIDE DEF a
  <1> QED BY <1>1, <1>2, <1>3, <1>4, <1>6 DEF a, idle

(* The answer to a command that does not let the program run. *)
LEMMA PlainAnswer ==
    ASSUME OneWishEach, NEW s \in Plugins, NEW r \in Answers, NEW refused, s.m_pProcess,
           Sound(s, <<r.of>>, refused), Genuine(r, refused), ~Continues(r.of)
    PROVE  /\ ParseOutput(s, r) = RunQueue(TakeAnswer(s, r))
           /\ Sound(ParseOutput(s, r), <<>>, refused)
  <1> DEFINE a == RemoveTopCommand([s EXCEPT !.m_QueueBusy = FALSE])
             b == CommandParses(a, r.of, r)
             c == RunQueue(b)
  <1>1. r.of \in Commands BY DEF Answers
  <1>2. /\ TakeAnswer(s, r) = c
        /\ a \in Plugins /\ a.m_pProcess
        /\ ~a.m_QueueBusy /\ a.toGdb = <<>> /\ a.m_ProgramIsStopped
    BY AnsweredHead
  <1> HIDE DEF a
  <1>3. Sound(a, <<>>, refused) BY <1>2 DEF Sound, Flight, Awake
  <1>4. Keeps(a, b) BY <1>1, <1>2, CommandParsesKeeps
  <1>5. b \in Plugins BY <1>4, KeepsIsTyped
  <1> HIDE DEF b
  <1>6. Keeps(b, c) BY <1>5, RunQueueKeeps
  <1>7. c \in Plugins BY <1>6, KeepsIsTyped
  <1>8. c.m_pProcess BY <1>2, <1>4, <1>6 DEF Keeps, Typed
  <1>9. Sound(c, <<>>, refused) BY <1>2, <1>3, <1>4, <1>6 DEF Keeps, Typed
  <1> HIDE DEF c
  <1>10. r.lines = {} BY DEF Genuine
  <1>17. BreakpointHit(c, r) = c BY DEF BreakpointHit, Genuine
  <1>11. ReadLines(c, r) = c BY <1>10 DEF ReadLines
  <1>12. ~(c.m_DCmds = <<>> /\ ~c.m_ProgramIsStopped) BY <1>9 DEF Sound, Flight, Awake
  <1>13. SeekCursor(c, r) = c BY <1>12 DEF SeekCursor
  <1>14. CursorChanges(c, r) = c BY <1>10 DEF CursorChanges
  <1>15. ParseOutput(s, r) = RunQueue(c) BY <1>2, <1>11, <1>13, <1>14, <1>17 DEF ParseOutput
  <1>16. Keeps(c, RunQueue(c)) BY <1>7, RunQueueKeeps
  <1> QED BY <1>2, <1>8, <1>9, <1>15, <1>16 DEF Keeps

(* The program was let run, and has stopped, has ended or was never resumed. *)
LEMMA LateAnswer ==
    ASSUME NEW s \in Plugins, NEW r \in Answers, NEW refused, s.m_pProcess,
           Sound(s, <<r.of>>, refused), Genuine(r, refused), Continues(r.of)
    PROVE  Sound(ParseOutput(s, r), <<>>, refused)
  <1> DEFINE top == RemoveTopCommand([s EXCEPT !.m_QueueBusy = FALSE])
             a == BreakpointHit(top, r)
  <1>1. r.of \in Commands BY DEF Answers
  <1>10. /\ TakeAnswer(s, r) = RunQueue(CommandParses(top, r.of, r))
         /\ top \in Plugins /\ top.m_pProcess
         /\ ~top.m_QueueBusy /\ top.toGdb = <<>> /\ ~top.m_ProgramIsStopped
    BY AnsweredHead
  <1> HIDE DEF top
  <1>3. RunQueue(top) = top BY <1>10, Zenon DEF RunQueue
  <1>4. TakeAnswer(s, r) = top /\ BreakpointHit(TakeAnswer(s, r), r) = a
    BY <1>1, <1>3, <1>10, CommandParsesKeeps
  <1>2. /\ a \in Plugins /\ a.m_pProcess
        /\ ~a.m_QueueBusy /\ a.toGdb = <<>> /\ ~a.m_ProgramIsStopped
    BY <1>10, HitWhileRunning
  <1> HIDE DEF a
  <1>5. ASSUME NEW d \in Plugins, d.m_pProcess, Sound(d, <<>>, refused)
        PROVE  Sound(RunQueue(d), <<>>, refused)
    BY <1>5, RunQueueKeeps DEF Keeps
  <1>6. CASE r.lines = {"exit"}
    <2> DEFINE t == [a EXCEPT !.m_ProgramIsStopped = TRUE]
               c == Plain("quit")
               d == [QueueLow(t, c) EXCEPT !.m_IsStarted = FALSE]
    <2>1. /\ t \in Plugins /\ t.m_pProcess = a.m_pProcess /\ t.m_ProgramIsStopped
          /\ t.m_QueueBusy = a.m_QueueBusy /\ t.toGdb = a.toGdb
      BY <1>2 DEF Plugins
    <2>2. ReadLines(a, r) = d BY <1>6 DEF ReadLines
    <2>3. c \in Commands /\ FALSE \in BOOLEAN BY DEF Plain, Cmd, Commands
    <2> HIDE DEF t, c
    <2>4. Sound(t, <<>>, refused) BY <1>2, <2>1 DEF Sound, Flight, Awake
    <2>5. Keeps(t, d) BY <2>1, <2>3, QueueAndNote
    <2> HIDE DEF d
    <2>6. d \in Plugins /\ d.m_pProcess /\ Sound(d, <<>>, refused)
      BY <1>2, <2>1, <2>4, <2>5 DEF Keeps, Typed
    <2>7. ~(d.m_DCmds = <<>> /\ ~d.m_ProgramIsStopped) BY <2>6 DEF Sound, Flight, Awake
    <2>8. SeekCursor(d, r) = d BY <2>7 DEF SeekCursor
    <2>9. CursorChanges(d, r) = d BY <1>6 DEF CursorChanges
    <2>10. ParseOutput(s, r) = RunQueue(d) BY <1>4, <2>2, <2>8, <2>9 DEF ParseOutput
    <2> QED BY <1>5, <2>6, <2>10
  <1>7. CASE "cursor" \in r.lines
    <2> DEFINE b == [a EXCEPT !.m_ProgramIsStopped = TRUE, !.m_QueueBusy = FALSE]
               d == OnCursorChanged(b)
    <2>1. "exit" \notin r.lines BY <1>7 DEF Genuine
    <2>2. ReadLines(a, r) = a \/ ReadLines(a, r) = b BY <2>1 DEF ReadLines
    <2>3. /\ b \in Plugins /\ b.m_pProcess = a.m_pProcess /\ b.m_ProgramIsStopped
          /\ ~b.m_QueueBusy /\ b.toGdb = a.toGdb
      BY <1>2 DEF Plugins
    <2>4. b = [b EXCEPT !.m_ProgramIsStopped = TRUE, !.m_QueueBusy = FALSE]
      BY <1>2 DEF Plugins
    <2>5. CursorChanges(a, r) = d BY <1>7 DEF CursorChanges
    <2> HIDE DEF b
    <2>6. CursorChanges(b, r) = d BY <1>7, <2>4 DEF CursorChanges
    <2>7. SeekCursor(a, r) = a /\ SeekCursor(b, r) = b BY <1>7 DEF SeekCursor
    <2>8. Sound(b, <<>>, refused) BY <1>2, <2>3 DEF Sound, Flight, Awake
    <2>9. Keeps(b, d) BY <2>3, OnCursorChangedKeeps
    <2> HIDE DEF d
    <2>10. d \in Plugins /\ d.m_pProcess /\ Sound(d, <<>>, refused)
      BY <1>2, <2>3, <2>8, <2>9 DEF Keeps, Typed
    <2>11. ParseOutput(s, r) = RunQueue(d) BY <1>4, <2>2, <2>5, <2>6, <2>7 DEF ParseOutput
    <2> QED BY <1>5, <2>10, <2>11
  <1>8. CASE r.lines = {}
    <2> DEFINE c == Plain("info frame")
               t == [a EXCEPT !.m_DCmds = Append(@, c)]
               q == Append(a.m_DCmds, c)
               d == SeekCursor(a, r)
    <2>1. refused BY <1>8 DEF Genuine
    <2>2. ReadLines(a, r) = a BY <1>8 DEF ReadLines
    <2>3. c \in Commands BY DEF Plain, Cmd, Commands
    <2>4. ASSUME a.m_DCmds = <<>>
         PROVE  d \in Plugins /\ d.m_pProcess /\ Sound(d, <<>>, refused)
      <3>1. QueueLow(a, c) = t
        <4>1. t.m_ProgramIsStopped = a.m_ProgramIsStopped BY <1>2 DEF Plugins
        <4> HIDE DEF t
        <4>2. RunQueue(t) = t BY <1>2, <4>1, Zenon DEF RunQueue
        <4> QED BY <4>2 DEF QueueLow, t
      <3>2. d = [t EXCEPT !.m_ProgramIsStopped = TRUE]
        BY <1>2, <1>8, <2>4, <3>1 DEF SeekCursor
      <3>3. q \in Seq(Commands)
        <4>1. a.m_DCmds \in Seq(Commands) BY <1>2 DEF Plugins
        <4> QED BY <2>3, <4>1, AppendProperties
      <3>4. d = [a EXCEPT !.m_DCmds = q, !.m_ProgramIsStopped = TRUE]
        BY <1>2, <3>2 DEF Plugins
      <3> HIDE DEF c, t, q, d
      <3>5. d \in Plugins BY <1>2, <3>3, <3>4 DEF Plugins
      <3>6. /\ d.m_pProcess = a.m_pProcess /\ d.m_ProgramIsStopped
            /\ d.m_QueueBusy = a.m_QueueBusy /\ d.toGdb = a.toGdb
        BY <1>2, <3>4 DEF Plugins
      <3> QED BY <1>2, <3>5, <3>6 DEF Sound, Flight, Awake
    <2>5. ASSUME a.m_DCmds # <<>>
         PROVE  d \in Plugins /\ d.m_pProcess /\ Sound(d, <<>>, refused)
      <3>1. d = a BY <2>5 DEF SeekCursor
      <3>2. Sound(a, <<>>, refused) BY <1>2, <2>1, <2>5 DEF Sound, Flight, Awake
      <3> HIDE DEF d
      <3> QED BY <1>2, <3>1, <3>2
    <2>6. d \in Plugins /\ d.m_pProcess /\ Sound(d, <<>>, refused) BY <2>4, <2>5
    <2>7. CursorChanges(d, r) = d BY <1>8 DEF CursorChanges
    <2>8. ParseOutput(s, r) = RunQueue(d) BY <1>4, <2>2, <2>7 DEF ParseOutput
    <2> HIDE DEF d
    <2> QED BY <1>5, <2>6, <2>8
  <1>9. r.lines = {"exit"} \/ "cursor" \in r.lines \/ r.lines = {}
    BY DEF Genuine, Answers
  <1> QED BY <1>6, <1>7, <1>8, <1>9

-----------------------------------------------------------------------------
(* The invariant: it holds at first, and each step keeps it. *)
Dialogs == [bp : Breakpoints \cup {"none"}, copy : Bps]
RestOk ==
    /\ dialog \in Dialogs
    /\ requests \in 0..MaxRequests
    /\ crashes \in 0..MaxCrashes
    /\ abandoned \subseteq Breakpoints

LEMMA TypeParts ==
    Types <=> /\ ide \in Plugins /\ ListOk(ide)
               /\ gdb \in Debuggers /\ fromGdb \in Seq(Answers) /\ RestOk
  BY DEF Types, TypeOK, RestOk, Listed, Dialogs, ListOk

LEMMA TypePartsNext ==
    Types' <=> /\ ide' \in Plugins /\ ListOk(ide')
                /\ gdb' \in Debuggers /\ fromGdb' \in Seq(Answers) /\ RestOk'
  BY DEF Types, TypeOK, RestOk, Listed, Dialogs, ListOk

LEMMA Bounds == MaxRequests \in Nat /\ MaxCrashes \in Nat /\ "none" \notin Breakpoints
  BY DebugAssumption DEF DebugAssumption

LEMMA Initially == Init => QueueInv
  <1> SUFFICES ASSUME Init PROVE QueueInv OBVIOUS
  <1> DEFINE bps == [b \in Breakpoints |-> NoBp]
             none == <<>>
  <1>1. NoBp \in Bps BY LessIsWishable DEF NoBp, Bps, Unset
  <1>2. bps \in [Breakpoints -> Bps] BY <1>1
  <1>3. none \in Seq(Commands) /\ none \in Seq(Breakpoints) /\ none \in Seq(Answers) /\ ToSet(none) = {}
    BY DEF ToSet
  <1>4. /\ ide = [bps |-> bps, m_Breakpoints |-> none, made |-> {},
                  m_pProcess |-> FALSE, hasDriver |-> FALSE,
                  m_DCmds |-> none, m_QueueBusy |-> FALSE, m_ProgramIsStopped |-> TRUE,
                  m_IsStarted |-> FALSE, m_TemporaryBreak |-> FALSE,
                  toGdb |-> none, sigint |-> FALSE, poked |-> FALSE, shown |-> TRUE, muted |-> FALSE,
                  turnedDown |-> {}]
        /\ fromGdb = none
    BY DEF Init
  <1> HIDE DEF bps, none
  <1>5. ide \in Plugins BY <1>2, <1>3, <1>4 DEF Plugins
  <1>6. ide.m_Breakpoints = none /\ ~ide.m_pProcess /\ ~ide.hasDriver BY <1>4
  <1>7. NoCmd \in Commands BY DEF NoCmd, Plain, Cmd, Commands
  <1>8. gdb \in Debuggers /\ gdb.state = "gone" BY <1>7 DEF Init, Debuggers
  <1>9. RestOk BY <1>1, Bounds DEF Init, RestOk, Dialogs
  <1>13. Distinct(none) BY DEF Distinct, none
  <1>10. Types BY <1>3, <1>4, <1>5, <1>6, <1>8, <1>9, <1>13, TypeParts DEF ListOk
  <1>11. SessionInv BY <1>4, <1>6, <1>8 DEF SessionInv, none
  <1>12. TalkInv BY <1>6 DEF TalkInv, Undisturbed
  <1> QED BY <1>10, <1>11, <1>12 DEF QueueInv

(* A step of the plugin that keeps its record, and that gdb does not see. *)
LEMMA PluginStep ==
    ASSUME QueueInv, Keeps(ide, ide'), gdb' = gdb, fromGdb' = fromGdb, RestOk'
    PROVE  QueueInv'
  <1>1. /\ ide \in Plugins /\ ListOk(ide)
        /\ gdb \in Debuggers /\ fromGdb \in Seq(Answers)
    BY TypeParts DEF QueueInv
  <1>2. /\ ide' \in Plugins /\ ide'.m_pProcess = ide.m_pProcess /\ ide'.hasDriver = ide.hasDriver
        /\ ListOk(ide')
    BY <1>1 DEF Keeps, Typed
  <1>3. Types' BY <1>1, <1>2, TypePartsNext
  <1>4. SessionInv' BY <1>2 DEF QueueInv, SessionInv
  <1>5. ASSUME Undisturbed' PROVE Sound(ide', Elsewhere, gdb.refused)
    <2>1. Undisturbed /\ ide.m_pProcess BY <1>2, <1>5 DEF Undisturbed, QueueInv, SessionInv
    <2>2. Sound(ide, Elsewhere, gdb.refused) BY <2>1 DEF QueueInv, TalkInv
    <2> QED BY <2>1, <2>2 DEF Keeps
  <1>6. Undisturbed' => Undisturbed BY <1>2 DEF Undisturbed
  <1>7. Elsewhere' = Elsewhere BY DEF Elsewhere
  <1>8. TalkInv' BY <1>5, <1>6, <1>7 DEF QueueInv, TalkInv
  <1> QED BY <1>3, <1>4, <1>8 DEF QueueInv

(* What the user does to the list of breakpoints, before the driver is told. *)
LEMMA ListKeeps ==
    ASSUME NEW s \in Plugins, NEW b \in Breakpoints
    PROVE  /\ b \notin s.made =>
                 Keeps(s, [s EXCEPT !.bps[b].enabled = TRUE, !.made = @ \cup {b},
                                    !.m_Breakpoints = Append(@, b)])
           /\ Keeps(s, [s EXCEPT !.bps[b].enabled = ~@])
           /\ Keeps(s, [s EXCEPT !.m_Breakpoints = RemoveFirst(@, b)])
           /\ \A bp \in Bps : Keeps(s, [s EXCEPT !.bps[b] = bp])
  <1>1. ASSUME b \notin s.made
        PROVE  Keeps(s, [s EXCEPT !.bps[b].enabled = TRUE, !.made = @ \cup {b},
                                  !.m_Breakpoints = Append(@, b)])
    <2> DEFINE bps == [s.bps EXCEPT ![b].enabled = TRUE]
               list == Append(s.m_Breakpoints, b)
               made == s.made \cup {b}
               r == [s EXCEPT !.bps[b].enabled = TRUE, !.made = @ \cup {b},
                              !.m_Breakpoints = Append(@, b)]
    <2>1. r = [s EXCEPT !.bps = bps, !.made = made, !.m_Breakpoints = list] BY DEF Plugins
    <2>2. bps \in [Breakpoints -> Bps] BY DEF Plugins, Bps
    <2>3. s.m_Breakpoints \in Seq(Breakpoints) BY DEF Plugins
    <2>4. /\ list \in Seq(Breakpoints) /\ Len(list) = Len(s.m_Breakpoints) + 1
          /\ \A i \in 1..Len(s.m_Breakpoints) : list[i] = s.m_Breakpoints[i]
          /\ list[Len(s.m_Breakpoints) + 1] = b
      BY <2>3, AppendProperties
    <2>5. ToSet(list) \subseteq ToSet(s.m_Breakpoints) \cup {b}
      <3> HIDE DEF list
      <3> QED BY <2>3, <2>4 DEF ToSet
    <2>6. made \subseteq Breakpoints BY DEF Plugins
    <2>7. ListOk(s) => ToSet(list) \subseteq made /\ Distinct(list)
      <3> HIDE DEF list, made
      <3> SUFFICES ASSUME ListOk(s) PROVE Distinct(list)
        BY <2>5 DEF ListOk, made
      <3>1. Len(s.m_Breakpoints) \in Nat BY <2>3, LenProperties
      <3>2. \A i \in 1..Len(s.m_Breakpoints) : list[i] # b
        BY <1>1, <2>4 DEF ListOk, ToSet
      <3>3. \A i \in 1..Len(list) : i \in 1..Len(s.m_Breakpoints) \/ i = Len(s.m_Breakpoints) + 1
        BY <2>4, <3>1
      <3> QED BY <2>4, <3>2, <3>3 DEF ListOk, Distinct
    <2> HIDE DEF bps, list, made, r
    <2>8. r \in Plugins BY <2>1, <2>2, <2>4, <2>6 DEF Plugins
    <2>9. /\ r.m_pProcess = s.m_pProcess /\ r.hasDriver = s.hasDriver
          /\ r.m_Breakpoints = list /\ r.made = made
          /\ r.m_QueueBusy = s.m_QueueBusy /\ r.toGdb = s.toGdb /\ r.m_DCmds = s.m_DCmds
          /\ r.m_ProgramIsStopped = s.m_ProgramIsStopped
      BY <2>1 DEF Plugins
    <2>10. ListOk(s) => ListOk(r) BY <2>7, <2>9 DEF ListOk
    <2>11. Keeps(s, r) BY <2>8, <2>9, <2>10, OtherFields
    <2> QED BY <2>11 DEF r
  <1>2. Keeps(s, [s EXCEPT !.bps[b].enabled = ~@])
    <2> DEFINE enabled == ~s.bps[b].enabled
               bps == [s.bps EXCEPT ![b].enabled = enabled]
    <2>1. enabled \in BOOLEAN BY Zenon
    <2>2. [s EXCEPT !.bps[b].enabled = ~@] = [s EXCEPT !.bps = bps] BY DEF Plugins, Bps
    <2> HIDE DEF enabled
    <2>3. bps \in [Breakpoints -> Bps] BY <2>1 DEF Plugins, Bps
    <2> HIDE DEF bps
    <2> QED BY <2>2, <2>3, BpsKeeps
  <1>3. Keeps(s, [s EXCEPT !.m_Breakpoints = RemoveFirst(@, b)])
    <2> DEFINE list == RemoveFirst(s.m_Breakpoints, b)
               r == [s EXCEPT !.m_Breakpoints = list]
    <2>1. s.m_Breakpoints \in Seq(Breakpoints) BY DEF Plugins
    <2>2. /\ list \in Seq(Breakpoints) /\ ToSet(list) \subseteq ToSet(s.m_Breakpoints)
          /\ Distinct(s.m_Breakpoints) => Distinct(list)
      BY <2>1, RemoveFirstType
    <2>3. r = [s EXCEPT !.m_Breakpoints = RemoveFirst(@, b)] OBVIOUS
    <2> HIDE DEF list
    <2>4. r \in Plugins BY <2>2 DEF Plugins
    <2>5. /\ r.m_pProcess = s.m_pProcess /\ r.hasDriver = s.hasDriver
          /\ r.m_Breakpoints = list /\ r.made = s.made
          /\ r.m_QueueBusy = s.m_QueueBusy /\ r.toGdb = s.toGdb /\ r.m_DCmds = s.m_DCmds
          /\ r.m_ProgramIsStopped = s.m_ProgramIsStopped
      BY DEF Plugins
    <2> HIDE DEF r
    <2>6. ListOk(s) => ListOk(r) BY <2>2, <2>5 DEF ListOk
    <2>7. Keeps(s, r) BY <2>4, <2>5, <2>6, OtherFields
    <2> QED BY <2>3, <2>7
  <1>4. ASSUME NEW bp \in Bps PROVE Keeps(s, [s EXCEPT !.bps[b] = bp])
    <2> DEFINE bps == [s.bps EXCEPT ![b] = bp]
    <2>1. [s EXCEPT !.bps[b] = bp] = [s EXCEPT !.bps = bps] BY DEF Plugins
    <2>2. bps \in [Breakpoints -> Bps] BY DEF Plugins
    <2> HIDE DEF bps
    <2> QED BY <2>1, <2>2, BpsKeeps
  <1> QED BY <1>1, <1>2, <1>3, <1>4

LEMMA AskedRest ==
    ASSUME QueueInv, NEW request, Asks(request)
    PROVE  requests' \in 0..MaxRequests
  <1>1. requests \in 0..MaxRequests BY TypeParts DEF QueueInv, RestOk
  <1> QED BY <1>1, Bounds DEF Asks

LEMMA AbandonType ==
    ASSUME QueueInv, NEW b \in Breakpoints, Abandon(b)
    PROVE  abandoned' \subseteq Breakpoints
  BY TypeParts DEF QueueInv, RestOk, Abandon

LEMMA EditKeeps ==
    ASSUME QueueInv
    PROVE  /\ ide \in Plugins /\ Interrupted(ide) \in Plugins
           /\ \A t, r : Keeps(Interrupted(ide), t) /\ Keeps(t, r) => Keeps(ide, Resumed(r))
  <1>1. ide \in Plugins BY TypeParts DEF QueueInv
  <1>2. Keeps(ide, Interrupted(ide)) BY <1>1, InterruptedKeeps
  <1>3. Interrupted(ide) \in Plugins BY <1>2, KeepsIsTyped
  <1>4. ASSUME NEW t, NEW r, Keeps(Interrupted(ide), t), Keeps(t, r) PROVE Keeps(ide, Resumed(r))
    <2>1. r \in Plugins BY <1>4, KeepsIsTyped
    <2>2. Keeps(r, Resumed(r)) BY <2>1, ResumedKeeps
    <2>3. Keeps(ide, t) BY <1>2, <1>4, KeepsIsAPreorder
    <2>4. Keeps(ide, r) BY <1>4, <2>3, KeepsIsAPreorder
    <2> QED BY <2>2, <2>4, KeepsIsAPreorder
  <1> QED BY <1>1, <1>3, <1>4

LEMMA EditsKeep ==
    ASSUME QueueInv, NEW b \in Breakpoints,
           AddBreakpoint(b) \/ DeleteBreakpoint(b) \/ EnableBreakpoint(b) \/ OpenDialog(b)
    PROVE  QueueInv'
  <1> DEFINE i == Interrupted(ide)
             added == [i EXCEPT !.bps[b].enabled = TRUE, !.made = @ \cup {b},
                                !.m_Breakpoints = Append(@, b)]
             removed == [i EXCEPT !.m_Breakpoints = RemoveFirst(@, b)]
             turned == [i EXCEPT !.bps[b].enabled = ~@]
  <1>1. i \in Plugins /\ ide \in Plugins BY EditKeeps
  <1>7. i.made = ide.made BY <1>1, InterruptedIs
  <1>2. RestOk /\ requests' \in 0..MaxRequests
    BY AskedRest, TypeParts
       DEF QueueInv, AddBreakpoint, DeleteBreakpoint, EnableBreakpoint, OpenDialog
  <1>3. CASE AddBreakpoint(b)
    <2>1. ide' = Resumed(AddToDriver(added, b)) BY <1>3 DEF AddBreakpoint
    <2>2. RestOk' /\ gdb' = gdb /\ fromGdb' = fromGdb BY <1>2, <1>3 DEF AddBreakpoint, RestOk
    <2> HIDE DEF i
    <2>3. Keeps(i, added) BY <1>1, <1>7, <1>3, ListKeeps DEF AddBreakpoint
    <2> HIDE DEF added
    <2>4. added \in Plugins BY <2>3, KeepsIsTyped
    <2>5. Keeps(added, AddToDriver(added, b)) BY <2>4, AddToDriverKeeps
    <2>6. Keeps(ide, ide') BY <2>1, <2>3, <2>5, EditKeeps DEF i
    <2> QED BY <2>2, <2>6, PluginStep
  <1>4. CASE DeleteBreakpoint(b)
    <2>1. ide' = Resumed(RemoveFromDriver(removed, b)) BY <1>4 DEF DeleteBreakpoint
    <2>2. RestOk' /\ gdb' = gdb /\ fromGdb' = fromGdb
      BY <1>2, <1>4, AbandonType DEF DeleteBreakpoint, RestOk
    <2> HIDE DEF i
    <2>3. Keeps(i, removed) BY <1>1, ListKeeps
    <2> HIDE DEF removed
    <2>4. removed \in Plugins BY <2>3, KeepsIsTyped
    <2>5. Keeps(removed, RemoveFromDriver(removed, b)) BY <2>4, RemoveFromDriverKeeps
    <2>6. Keeps(ide, ide') BY <2>1, <2>3, <2>5, EditKeeps DEF i
    <2> QED BY <2>2, <2>6, PluginStep
  <1>5. CASE EnableBreakpoint(b)
    <2>1. ide' = Resumed(ResetBreakpoint(turned, b)) BY <1>5 DEF EnableBreakpoint
    <2>2. RestOk' /\ gdb' = gdb /\ fromGdb' = fromGdb
      BY <1>2, <1>5, AbandonType DEF EnableBreakpoint, RestOk
    <2> HIDE DEF i
    <2>3. Keeps(i, turned) BY <1>1, ListKeeps
    <2> HIDE DEF turned
    <2>4. turned \in Plugins BY <2>3, KeepsIsTyped
    <2>5. Keeps(turned, ResetBreakpoint(turned, b)) BY <2>4, ResetBreakpointKeeps
    <2>6. Keeps(ide, ide') BY <2>1, <2>3, <2>5, EditKeeps DEF i
    <2> QED BY <2>2, <2>6, PluginStep
  <1>6. CASE OpenDialog(b)
    <2>1. dialog' = [bp |-> b, copy |-> ide.bps[b]] /\ ide' = ide BY <1>6 DEF OpenDialog
    <2>2. ide.bps[b] \in Bps BY <1>1 DEF Plugins
    <2>3. dialog' \in Dialogs BY <2>1, <2>2 DEF Dialogs
    <2>4. RestOk' /\ gdb' = gdb /\ fromGdb' = fromGdb BY <1>2, <1>6, <2>3 DEF OpenDialog, RestOk
    <2>5. Keeps(ide, ide') BY <1>1, <2>1, KeepsIsAPreorder
    <2> QED BY <2>4, <2>5, PluginStep
  <1> QED BY <1>3, <1>4, <1>5, <1>6

LEMMA CloseDialogKeeps ==
    ASSUME QueueInv, NEW wish \in Wishes, CloseDialog(wish)
    PROVE  QueueInv'
  <1> DEFINE b == dialog.bp
             bp == [dialog.copy EXCEPT !.wish = wish]
             i == Interrupted(ide)
             t == [i EXCEPT !.bps[b] = bp]
  <1>1. i \in Plugins BY EditKeeps
  <1>2. RestOk /\ dialog \in Dialogs BY TypeParts DEF QueueInv, RestOk
  <1>3. b \in Breakpoints BY <1>2 DEF CloseDialog, Dialogs
  <1>4. bp \in Bps
    <2>1. dialog.copy \in Bps /\ wish \in Wishable BY <1>2, LessIsWishable DEF Dialogs
    <2> QED BY <2>1 DEF Bps
  <1>5. ide' = Resumed(ResetBreakpoint(t, b)) BY DEF CloseDialog
  <1>6. RestOk' /\ gdb' = gdb /\ fromGdb' = fromGdb
    <2>1. [bp |-> "none", copy |-> NoBp] \in Dialogs
      BY LessIsWishable DEF Dialogs, NoBp, Bps, Unset
    <2>2. dialog' \in Dialogs BY <2>1 DEF CloseDialog
    <2>3. abandoned' \subseteq Breakpoints BY <1>2, <1>3 DEF CloseDialog, RestOk
    <2> QED BY <1>2, <2>2, <2>3 DEF CloseDialog, RestOk
  <1> HIDE DEF b, bp, i
  <1>7. Keeps(i, t) BY <1>1, <1>3, <1>4, ListKeeps
  <1> HIDE DEF t
  <1>8. t \in Plugins BY <1>7, KeepsIsTyped
  <1>9. Keeps(t, ResetBreakpoint(t, b)) BY <1>3, <1>8, ResetBreakpointKeeps
  <1>10. Keeps(ide, ide') BY <1>5, <1>7, <1>9, EditKeeps DEF i
  <1> QED BY <1>6, <1>10, PluginStep

LEMMA RunsKeep ==
    ASSUME QueueInv,
           UserContinue \/ UserBreak \/ UserStop \/ UserStep("step") \/ UserStep("finish")
    PROVE  QueueInv'
  <1>1. ide \in Plugins /\ RestOk BY TypeParts DEF QueueInv
  <1>2. requests' \in 0..MaxRequests
    BY AskedRest DEF UserContinue, UserBreak, UserStop, UserStep
  <1>3. RestOk' /\ gdb' = gdb /\ fromGdb' = fromGdb
    BY <1>1, <1>2 DEF RestOk, UserContinue, UserBreak, UserStop, UserStep
  <1>4. Keeps(ide, ide) BY <1>1, KeepsIsAPreorder
  <1>5. FALSE \in BOOLEAN OBVIOUS
  <1>6. Keeps(ide, DoBreak(ide, FALSE)) BY <1>1, <1>5, DoBreakKeeps
  <1>7. CASE UserContinue
    <2>1. Keeps(ide, ide') BY <1>1, <1>7, ContinueKeeps DEF UserContinue
    <2> QED BY <1>3, <2>1, PluginStep
  <1>8. CASE UserBreak
    <2>1. Keeps(ide, ide') BY <1>6, <1>8 DEF UserBreak
    <2> QED BY <1>3, <2>1, PluginStep
  <1>9. CASE UserStop
    <2> DEFINE s == IF IsStopped(ide) THEN ide ELSE DoBreak(ide, FALSE)
               c == Plain("quit")
               r == [QueueLow(s, c) EXCEPT !.m_IsStarted = FALSE]
    <2>1. Keeps(ide, s) BY <1>4, <1>6
    <2>2. c \in Commands BY DEF Plain, Cmd, Commands
    <2>3. ide' = r \/ ide' = s BY <1>9 DEF UserStop
    <2> HIDE DEF s, c
    <2>4. s \in Plugins BY <2>1, KeepsIsTyped
    <2>5. Keeps(s, r) BY <1>5, <2>2, <2>4, QueueAndNote
    <2> HIDE DEF r
    <2>6. Keeps(ide, ide') BY <2>1, <2>3, <2>5, KeepsIsAPreorder
    <2> QED BY <1>3, <2>6, PluginStep
  <1>10. ASSUME NEW kind \in {"step", "finish"}, UserStep(kind) PROVE QueueInv'
    <2>1. Plain(kind) \in Commands BY <1>10 DEF Plain, Cmd, Commands
    <2>2. ide' = QueueLow(ide, Plain(kind)) \/ ide' = ide BY <1>10 DEF UserStep
    <2>3. Keeps(ide, ide') BY <1>1, <1>4, <2>1, <2>2, QueueLowKeeps
    <2> QED BY <1>3, <2>3, PluginStep
  <1> QED BY <1>7, <1>8, <1>9, <1>10

LEMMA DebugKeeps ==
    ASSUME QueueInv, Debug
    PROVE  QueueInv'
  <1> DEFINE none == <<>>
             new == [ide EXCEPT !.m_pProcess = TRUE, !.hasDriver = TRUE, !.m_DCmds = none,
                                !.m_QueueBusy = FALSE, !.m_ProgramIsStopped = TRUE,
                                !.m_IsStarted = FALSE, !.toGdb = none,
                                !.sigint = FALSE, !.poked = FALSE, !.shown = TRUE,
                                !.muted = ide.m_TemporaryBreak, !.turnedDown = {}]
             a == ApplyBreakpoints(new)
             c == Plain("run")
  <1>1. /\ ide \in Plugins /\ ListOk(ide)
        /\ fromGdb \in Seq(Answers) /\ RestOk
    BY TypeParts DEF QueueInv
  <1>2. none \in Seq(Commands) OBVIOUS
  <1>3. ide' = [QueueLow(a, c) EXCEPT !.m_IsStarted = TRUE] BY DEF Debug
  <1>4. fromGdb' = <<>> /\ fromGdb = <<>> BY DEF Debug, QueueInv, SessionInv
  <1>5. c \in Commands /\ NoCmd \in Commands /\ TRUE \in BOOLEAN
    BY DEF NoCmd, Plain, Cmd, Commands
  <1>6. /\ gdb' \in Debuggers /\ gdb'.state = "prompt" /\ gdb'.refused = FALSE
    BY <1>5 DEF Debug, Debuggers
  <1>7. RestOk'
    <2>1. requests' \in 0..MaxRequests BY AskedRest DEF Debug
    <2> QED BY <1>1, <2>1 DEF Debug, RestOk
  <1>8. new.toGdb = <<>> BY <1>1 DEF Plugins
  <1> HIDE DEF none
  <1>9. new \in Plugins BY <1>1, <1>2 DEF Plugins
  <1>10. /\ new.m_pProcess /\ new.hasDriver /\ ~new.m_QueueBusy /\ new.m_ProgramIsStopped
         /\ new.m_Breakpoints = ide.m_Breakpoints /\ new.made = ide.made
    BY <1>1 DEF Plugins
  <1> HIDE DEF new, c
  <1>11. Sound(new, <<>>, FALSE) BY <1>8, <1>10 DEF Sound, Flight, Awake
  <1>12. Keeps(new, a) /\ a \in Plugins BY <1>9, ApplyBreakpointsKeeps, KeepsIsTyped
  <1> HIDE DEF a
  <1>13. Keeps(a, ide') BY <1>3, <1>5, <1>12, QueueAndNote
  <1>14. Keeps(new, ide') BY <1>12, <1>13, KeepsIsAPreorder
  <1>15. /\ ide' \in Plugins /\ ide'.m_pProcess /\ ide'.hasDriver
         /\ ListOk(ide')
         /\ Sound(ide', <<>>, FALSE)
    BY <1>1, <1>10, <1>11, <1>14 DEF Keeps, Typed, ListOk
  <1>16. Types' BY <1>1, <1>4, <1>6, <1>7, <1>15, TypePartsNext
  <1>17. SessionInv' BY <1>15 DEF SessionInv
  <1>18. Elsewhere' = <<>> BY <1>4, <1>6 DEF Elsewhere
  <1>19. Len(fromGdb') <= 1 BY <1>4
  <1>20. TalkInv' BY <1>4, <1>6, <1>15, <1>18, <1>19 DEF TalkInv
  <1> QED BY <1>16, <1>17, <1>20 DEF QueueInv

(* The plugin handles an answer. *)
LEMMA ReplyKeeps ==
    ASSUME OneWishEach, QueueInv, HandleReply
    PROVE  QueueInv'
  <1> DEFINE r == Head(fromGdb)
  <1>1. /\ ide \in Plugins /\ ListOk(ide)
        /\ gdb \in Debuggers /\ fromGdb \in Seq(Answers) /\ RestOk
    BY TypeParts DEF QueueInv
  <1>2. /\ fromGdb # <<>> /\ r \in Answers /\ r = fromGdb[1]
        /\ fromGdb' = Tail(fromGdb) /\ fromGdb' \in Seq(Answers)
        /\ Len(fromGdb') = Len(fromGdb) - 1 /\ Len(fromGdb) \in Nat
    BY <1>1, HeadTailProperties, LenProperties DEF HandleReply
  <1>3. ide.hasDriver BY <1>2 DEF QueueInv, SessionInv
  <1>4. ide' = ParseOutput(ide, r) BY <1>3 DEF HandleReply
  <1>5. gdb' = gdb /\ RestOk' BY <1>1 DEF HandleReply, RestOk
  <1> HIDE DEF r
  <1>6. Typed(ide, ide') BY <1>1, <1>2, <1>4, ParseOutputTyped
  <1>7. Types' BY <1>1, <1>2, <1>5, <1>6, TypePartsNext DEF Typed
  <1>8. SessionInv' BY <1>3, <1>5, <1>6 DEF Typed, QueueInv, SessionInv
  <1>9. ASSUME Undisturbed'
        PROVE  /\ fromGdb' = <<>> /\ gdb'.state = "prompt"
               /\ Sound(ide', <<>>, gdb.refused)
    <2>1. Undisturbed /\ ide.m_pProcess
      BY <1>3, <1>5, <1>9 DEF Undisturbed, QueueInv, SessionInv
    <2>2. /\ Sound(ide, Elsewhere, gdb.refused) /\ Len(fromGdb) <= 1
          /\ gdb.state = "prompt" /\ Genuine(r, gdb.refused)
      BY <1>2, <2>1 DEF QueueInv, TalkInv
    <2>3. Sound(ide, <<r.of>>, gdb.refused) BY <1>2, <2>2 DEF Elsewhere
    <2>4. Sound(ide', <<>>, gdb.refused)
      BY <1>1, <1>2, <1>4, <2>1, <2>2, <2>3, PlainAnswer, LateAnswer
    <2>5. fromGdb' = <<>> BY <1>2, <2>2, EmptySeq
    <2> QED BY <1>5, <2>2, <2>4, <2>5
  <1>10. ASSUME Undisturbed' PROVE Elsewhere' = <<>> /\ Len(fromGdb') <= 1
    BY <1>9, <1>10 DEF Elsewhere
  <1>11. TalkInv' BY <1>5, <1>9, <1>10 DEF TalkInv
  <1> QED BY <1>7, <1>8, <1>11 DEF QueueInv

(* The session is over, or comes to its end. *)
LEMMA EndsKeep ==
    ASSUME QueueInv, ProcessEnds \/ OnGDBTerminated
    PROVE  QueueInv'
  <1>1. /\ ide \in Plugins /\ ListOk(ide)
        /\ gdb \in Debuggers /\ fromGdb \in Seq(Answers) /\ RestOk
    BY TypeParts DEF QueueInv
  <1>2. gdb' = gdb /\ fromGdb' = fromGdb /\ RestOk'
    BY <1>1 DEF ProcessEnds, OnGDBTerminated, RestOk
  <1> DEFINE none == <<>>
  <1>3. none \in Seq(Commands) OBVIOUS
  <1>4. CASE ProcessEnds
    <2>1. ide' = [ide EXCEPT !.m_pProcess = FALSE, !.toGdb = none, !.sigint = FALSE, !.poked = FALSE]
      BY <1>4 DEF ProcessEnds
    <2> HIDE DEF none
    <2>2. ide' \in Plugins BY <1>1, <1>3, <2>1 DEF Plugins
    <2>3. /\ ide'.m_Breakpoints = ide.m_Breakpoints /\ ide'.made = ide.made
          /\ ~ide'.m_pProcess /\ ide'.hasDriver = ide.hasDriver
      BY <1>1, <2>1 DEF Plugins
    <2>4. gdb'.state = "gone" BY <1>2, <1>4 DEF ProcessEnds
    <2>5. Types' BY <1>1, <1>2, <2>2, <2>3, TypePartsNext DEF ListOk
    <2>6. SessionInv' BY <1>2, <2>3, <2>4 DEF QueueInv, SessionInv
    <2>7. TalkInv' BY <2>4 DEF TalkInv, Undisturbed
    <2> QED BY <2>5, <2>6, <2>7 DEF QueueInv
  <1>5. CASE OnGDBTerminated
    <2>1. ide' = [ide EXCEPT !.hasDriver = FALSE, !.m_DCmds = none, !.m_QueueBusy = FALSE,
                             !.m_ProgramIsStopped = TRUE, !.shown = TRUE]
      BY <1>5 DEF OnGDBTerminated
    <2>2. fromGdb = <<>> /\ ~ide.m_pProcess BY <1>5 DEF OnGDBTerminated
    <2> HIDE DEF none
    <2>3. ide' \in Plugins BY <1>1, <1>3, <2>1 DEF Plugins
    <2>4. /\ ide'.m_Breakpoints = ide.m_Breakpoints /\ ide'.made = ide.made
          /\ ide'.m_pProcess = ide.m_pProcess /\ ~ide'.hasDriver
      BY <1>1, <2>1 DEF Plugins
    <2>5. Types' BY <1>1, <1>2, <2>3, <2>4, TypePartsNext DEF ListOk
    <2>6. SessionInv' BY <1>2, <2>2, <2>4 DEF QueueInv, SessionInv
    <2>7. TalkInv' BY <2>4 DEF TalkInv, Undisturbed
    <2> QED BY <2>5, <2>6, <2>7 DEF QueueInv
  <1> QED BY <1>4, <1>5

-----------------------------------------------------------------------------
(* The steps of gdb. *)

(* After them nobody relies on what is in flight. *)
LEMMA GivenUp ==
    ASSUME QueueInv, gdb' \in Debuggers, gdb'.state = "gone" \/ gdb'.stray,
           gdb.state # "gone", ide' \in Plugins, ide'.m_pProcess = ide.m_pProcess, ide'.hasDriver = ide.hasDriver,
           ide'.m_Breakpoints = ide.m_Breakpoints, ide'.made = ide.made,
           fromGdb' \in Seq(Answers), RestOk'
    PROVE  QueueInv'
  <1>1. ListOk(ide) BY TypeParts DEF QueueInv
  <1>2. Types' BY <1>1, TypePartsNext DEF ListOk
  <1>3. SessionInv' BY DEF QueueInv, SessionInv
  <1>4. TalkInv' BY DEF TalkInv, Undisturbed
  <1> QED BY <1>2, <1>3, <1>4 DEF QueueInv

(* Answers that say something else, or that tell of a breakpoint that was hit. *)
Said(a, says) == [a EXCEPT !.says = says]
Hits(a, hit) == [a EXCEPT !.hit = hit]

LEMMA ReplyType ==
    ASSUME NEW c \in Commands, NEW n \in Nat, NEW lines \in SUBSET {"signal", "cursor", "exit"}
    PROVE  /\ Reply(c, n, lines) \in Answers
           /\ Reply(c, n, lines).of = c
           /\ Reply(c, n, lines).no = n
           /\ Reply(c, n, lines).lines = lines
           /\ Reply(c, n, lines).says = "ok"
           /\ Reply(c, n, lines).hit = Unset
  <1> DEFINE frame == gdb.program = "stopped"
             a == [of |-> c, no |-> n, says |-> "ok", hit |-> Unset,
                   lines |-> lines, frame |-> frame]
  <1>1. frame \in BOOLEAN OBVIOUS
  <1>2. Reply(c, n, lines) = a BY DEF Reply
  <1> HIDE DEF frame
  <1>3. a \in Answers BY <1>1 DEF Answers, Unset
  <1>4. /\ a.of = c /\ a.no = n /\ a.lines = lines
        /\ a.says = "ok" /\ a.hit = Unset
    OBVIOUS
  <1> HIDE DEF a
  <1> QED BY <1>2, <1>3, <1>4

LEMMA SaidType ==
    ASSUME NEW a \in Answers, NEW says \in {"ok", "pending", "unconditional", "unwanted"}
    PROVE  /\ Said(a, says) \in Answers
           /\ Said(a, says).of = a.of
           /\ Said(a, says).no = a.no
           /\ Said(a, says).lines = a.lines
           /\ Said(a, says).hit = a.hit
           /\ Said(a, says).says = says
  BY DEF Said, Answers

LEMMA HitsType ==
    ASSUME NEW a \in Answers, NEW hit \in Nat
    PROVE  /\ Hits(a, hit) \in Answers
           /\ Hits(a, hit).of = a.of
           /\ Hits(a, hit).no = a.no
           /\ Hits(a, hit).lines = a.lines
           /\ Hits(a, hit).says = a.says
           /\ Hits(a, hit).hit = hit
  BY DEF Hits, Answers

LEMMA PostedType ==
    ASSUME fromGdb \in Seq(Answers), NEW a \in Answers, fromGdb' = Append(fromGdb, a)
    PROVE  /\ fromGdb' \in Seq(Answers)
           /\ fromGdb = <<>> => /\ fromGdb' = <<a>> /\ fromGdb' # <<>> /\ Len(fromGdb') = 1
                                /\ fromGdb'[1] = a
  <1>5. fromGdb' \in Seq(Answers) BY AppendProperties
  <1>6. fromGdb = <<>> => fromGdb' = <<a>> OBVIOUS
  <1> QED BY <1>5, <1>6

LEMMA AnswerType ==
    ASSUME fromGdb \in Seq(Answers), NEW c \in Commands, NEW n \in Nat,
           NEW lines \in SUBSET {"signal", "cursor", "exit"}, Answer(c, n, lines)
    PROVE  /\ fromGdb' \in Seq(Answers)
           /\ fromGdb = <<>> => /\ fromGdb' # <<>> /\ Len(fromGdb') = 1
                                /\ fromGdb'[1].of = c /\ fromGdb'[1].lines = lines
  <1> DEFINE a == Reply(c, n, lines)
  <1>2. fromGdb' = Append(fromGdb, a) BY DEF Answer
  <1>3. a \in Answers /\ a.of = c /\ a.lines = lines BY ReplyType
  <1> HIDE DEF a
  <1> QED BY <1>2, <1>3, PostedType

(* gdb takes a command from the pipe: it is the head of the queue. *)
LEMMA GdbReadsHead ==
    ASSUME QueueInv, NEW c, GdbReads(c)
    PROVE  /\ c \in Commands
           /\ ide' \in Plugins /\ ide'.m_pProcess = ide.m_pProcess /\ ide'.hasDriver = ide.hasDriver
           /\ ide'.m_Breakpoints = ide.m_Breakpoints /\ ide'.made = ide.made
           /\ ide.hasDriver /\ RestOk' /\ gdb.state = "prompt"
           /\ Undisturbed =>
                 /\ fromGdb = <<>> /\ ide'.toGdb = <<>>
                 /\ ide'.m_QueueBusy /\ ide'.m_DCmds # <<>> /\ ide'.m_DCmds[1] = c
                 /\ ide'.m_ProgramIsStopped <=> ~Continues(c)
  <1> DEFINE q == Tail(ide.toGdb)
  <1>1. ide \in Plugins /\ RestOk BY TypeParts DEF QueueInv
  <1>2. ide.toGdb \in Seq(Commands) /\ ide.toGdb # <<>> /\ c = ide.toGdb[1]
    BY <1>1 DEF GdbReads, Plugins
  <1>3. c \in Commands /\ q \in Seq(Commands) BY <1>2, HeadTailProperties
  <1>4. ide' = [ide EXCEPT !.toGdb = q] BY <1>1 DEF GdbReads, Plugins
  <1>5. RestOk' /\ gdb.state = "prompt" BY <1>1 DEF GdbReads, RestOk
  <1>6. ide.hasDriver BY <1>5 DEF QueueInv, SessionInv
  <1>7. ASSUME Undisturbed
        PROVE  /\ fromGdb = <<>> /\ ide.toGdb = <<c>>
               /\ ide.m_QueueBusy /\ ide.m_DCmds # <<>> /\ ide.m_DCmds[1] = c
               /\ ide.m_ProgramIsStopped <=> ~Continues(c)
    <2>1. Flight(ide, Elsewhere) BY <1>7 DEF QueueInv, TalkInv, Sound
    <2>2. /\ ide.m_QueueBusy /\ ide.m_DCmds # <<>> /\ Elsewhere = <<>>
          /\ ide.toGdb = <<ide.m_DCmds[1]>>
          /\ ide.m_ProgramIsStopped <=> ~Continues(ide.m_DCmds[1])
      BY <1>2, <2>1 DEF Flight
    <2>3. ide.m_DCmds[1] = c BY <1>2, <2>2
    <2>4. fromGdb = <<>>
      <3>1. fromGdb # <<>> => Elsewhere = <<fromGdb[1].of>> BY DEF Elsewhere
      <3>2. <<fromGdb[1].of>> # <<>> OBVIOUS
      <3> QED BY <2>2, <3>1, <3>2
    <2> QED BY <2>2, <2>3, <2>4
  <1>8. ide.toGdb = <<c>> => q = <<>> OBVIOUS
  <1> HIDE DEF q
  <1>9. /\ ide' \in Plugins BY <1>1, <1>3, <1>4 DEF Plugins
  <1>10. /\ ide'.m_pProcess = ide.m_pProcess /\ ide'.hasDriver = ide.hasDriver
         /\ ide'.m_Breakpoints = ide.m_Breakpoints /\ ide'.made = ide.made
         /\ ide'.toGdb = q /\ ide'.m_QueueBusy = ide.m_QueueBusy /\ ide'.m_DCmds = ide.m_DCmds
         /\ ide'.m_ProgramIsStopped = ide.m_ProgramIsStopped
    BY <1>1, <1>4 DEF Plugins
  <1> QED BY <1>3, <1>5, <1>6, <1>7, <1>8, <1>9, <1>10

LEMMA GdbAnswersHead ==
    ASSUME QueueInv, NEW c, GdbReads(c), NEW a \in Answers, fromGdb' = Append(fromGdb, a),
           gdb' \in Debuggers, gdb'.state = "prompt", gdb'.stray = gdb.stray,
           a.of = c, a.hit = Unset, a.lines \in {{}, {"exit"}}, a.lines # {} => Continues(c),
           Continues(c) /\ a.lines = {} => gdb'.refused
    PROVE  QueueInv'
  <1>1. fromGdb \in Seq(Answers) /\ ListOk(ide)
    BY TypeParts DEF QueueInv
  <1>3. /\ fromGdb' \in Seq(Answers)
        /\ fromGdb = <<>> => /\ fromGdb' # <<>> /\ Len(fromGdb') = 1 /\ fromGdb'[1] = a
    BY <1>1, PostedType
  <1>4. Types' BY <1>1, <1>3, GdbReadsHead, TypePartsNext DEF ListOk
  <1>5. SessionInv' BY GdbReadsHead DEF QueueInv, SessionInv
  <1>6. ASSUME Undisturbed' PROVE Undisturbed BY <1>6, GdbReadsHead DEF Undisturbed
  <1>7. ASSUME Undisturbed'
        PROVE  /\ Sound(ide', Elsewhere', gdb'.refused)
               /\ Len(fromGdb') <= 1
               /\ Genuine(fromGdb'[1], gdb'.refused)
    <2>1. Undisturbed BY <1>6, <1>7
    <2>2. Elsewhere' = <<c>> BY <1>3, <2>1, GdbReadsHead DEF Elsewhere
    <2>3. Sound(ide', <<c>>, gdb'.refused) BY <2>1, GdbReadsHead DEF Sound, Flight, Awake
    <2>4. Genuine(fromGdb'[1], gdb'.refused) BY <1>3, <2>1, GdbReadsHead DEF Genuine
    <2>5. Len(fromGdb') <= 1
      <3>1. fromGdb = <<>> BY <2>1, GdbReadsHead
      <3>2. Len(fromGdb') = 1 BY <1>3, <3>1
      <3> QED BY <3>2
    <2> QED BY <2>2, <2>3, <2>4, <2>5
  <1>8. TalkInv' BY <1>7 DEF TalkInv
  <1> QED BY <1>4, <1>5, <1>8 DEF QueueInv

LEMMA ObeysKeeps ==
    ASSUME QueueInv, GdbObeys
    PROVE  QueueInv'
  <1> DEFINE c == ide.toGdb[1]
  <1>1. GdbReads(c)
    BY DEF GdbObeys, GdbResumes, GdbRefuses, GdbSetsBreak, GdbRefusesBreak, GdbDeletes, GdbRefines,
           GdbRejects, GdbReports, GdbQuits
  <1>2. /\ gdb \in Debuggers /\ fromGdb \in Seq(Answers)
        /\ ListOk(ide)
    BY TypeParts DEF QueueInv
  <1>3. /\ c \in Commands /\ gdb.state = "prompt"
    BY <1>1, GdbReadsHead
  <1>4. /\ {} \in SUBSET {"signal", "cursor", "exit"} /\ {"exit"} \in SUBSET {"signal", "cursor", "exit"}
        /\ Unset \in Nat
    BY DEF Unset
  <1>5. CASE GdbResumes(c)
    <2>1. fromGdb' = fromGdb /\ Continues(c) BY <1>5 DEF GdbResumes
    <2>2. gdb' = [gdb EXCEPT !.state = "running", !.program = "running", !.last = c,
                             !.refused = FALSE]
      BY <1>5 DEF GdbResumes
    <2> HIDE DEF c
    <2>3. /\ gdb' \in Debuggers /\ gdb'.state = "running" /\ gdb'.last = c
          /\ gdb'.stray = gdb.stray
      BY <1>2, <1>3, <2>2 DEF Debuggers
    <2>4. Types' BY <1>1, <1>2, <2>1, <2>3, GdbReadsHead, TypePartsNext DEF ListOk
    <2>5. SessionInv' BY <1>1, <1>3, <2>1, GdbReadsHead DEF QueueInv, SessionInv
    <2>6. ASSUME Undisturbed'
          PROVE  /\ Sound(ide', Elsewhere', gdb'.refused) /\ fromGdb' = <<>>
      <3>1. Undisturbed BY <1>1, <1>3, <2>3, <2>6, GdbReadsHead DEF Undisturbed
      <3>2. fromGdb' = <<>> BY <1>1, <2>1, <3>1, GdbReadsHead
      <3>3. Elsewhere' = <<c>> BY <2>3, <3>2 DEF Elsewhere
      <3> QED BY <1>1, <3>1, <3>2, <3>3, GdbReadsHead DEF Sound, Flight, Awake
    <2>7. TalkInv' BY <2>1, <2>3, <2>6 DEF TalkInv
    <2> QED BY <2>4, <2>5, <2>7 DEF QueueInv
  <1>6. CASE GdbRefuses(c)
    <2>1. /\ Continues(c)
          /\ Answer(c, Unset, {"exit"}) \/ Answer(c, Unset, {})
      BY <1>6 DEF GdbRefuses, Continues
    <2>2. gdb' = [gdb EXCEPT !.refused = TRUE] BY <1>6 DEF GdbRefuses
    <2>3. /\ gdb' \in Debuggers /\ gdb'.state = "prompt" /\ gdb'.stray = gdb.stray /\ gdb'.refused
      BY <1>2, <1>3, <2>2 DEF Debuggers
    <2> HIDE DEF c
    <2>4. PICK lines \in {{}, {"exit"}} : Answer(c, Unset, lines) BY <2>1
    <2> DEFINE a == Reply(c, Unset, lines)
    <2>5. a \in Answers /\ a.of = c /\ a.lines = lines /\ a.hit = Unset
      <3>1. lines \in SUBSET {"signal", "cursor", "exit"} BY <1>4
      <3> QED BY <1>3, <1>4, <3>1, ReplyType
    <2>6. fromGdb' = Append(fromGdb, a) BY <2>4 DEF Answer
    <2> HIDE DEF a
    <2> QED BY <1>1, <2>1, <2>3, <2>5, <2>6, GdbAnswersHead
  <1>13. ASSUME NEW a \in Answers, fromGdb' = Append(fromGdb, a), a.of = c, a.hit = Unset,
                a.lines = {}, ~Continues(c), gdb' \in Debuggers,
                gdb'.state = gdb.state, gdb'.stray = gdb.stray
         PROVE  QueueInv'
    <2> HIDE DEF c
    <2>1. gdb'.state = "prompt" BY <1>3, <1>13
    <2> QED BY <1>1, <1>13, <2>1, GdbAnswersHead
  <1>7. ASSUME NEW n \in Nat, Answer(c, n, {}), ~Continues(c), gdb' \in Debuggers,
               gdb'.state = gdb.state, gdb'.stray = gdb.stray
        PROVE  QueueInv'
    <2> HIDE DEF c
    <2> DEFINE a == Reply(c, n, {})
    <2>1. a \in Answers /\ a.of = c /\ a.lines = {} /\ a.hit = Unset BY <1>3, <1>4, ReplyType
    <2>2. fromGdb' = Append(fromGdb, a) BY <1>7 DEF Answer
    <2> HIDE DEF a
    <2> QED BY <1>7, <1>13, <2>1, <2>2
  <1>8. ASSUME NEW says \in {"ok", "pending"}, GdbSetsBreak(c, says) PROVE QueueInv'
    <2>1. c.kind = "break" /\ c.bp \in Breakpoints BY <1>3, <1>8 DEF GdbSetsBreak, Commands
    <2>2. ~Continues(c) BY <2>1 DEF Continues
    <2> DEFINE k == [no |-> gdb.next, bp |-> c.bp, wish |-> {}]
               Breaks == [no : Nat, bp : Breakpoints, wish : SUBSET {"condition", "ignore"}]
    <2>3. gdb.next \in Nat /\ gdb.breaks \subseteq Breaks BY <1>2 DEF Debuggers
    <2>4. k \in Breaks BY <2>1, <2>3
    <2>5. gdb' = [gdb EXCEPT !.breaks = gdb.breaks \cup {k}, !.next = gdb.next + 1]
      BY <1>2, <1>8 DEF GdbSetsBreak, Debuggers
    <2> HIDE DEF k
    <2>6. gdb.breaks \cup {k} \subseteq Breaks /\ gdb.next + 1 \in Nat BY <2>3, <2>4
    <2>7. gdb' \in Debuggers /\ gdb'.state = gdb.state /\ gdb'.stray = gdb.stray
      BY <1>2, <2>5, <2>6 DEF Debuggers
    <2> HIDE DEF c
    <2> DEFINE r == Reply(c, gdb.next, {})
               a == Said(r, says)
    <2>8. fromGdb' = Append(fromGdb, a) BY <1>8 DEF GdbSetsBreak, Said
    <2>11. r \in Answers /\ r.of = c /\ r.lines = {} /\ r.hit = Unset
      BY <1>3, <1>4, <2>3, ReplyType
    <2>12. says \in {"ok", "pending", "unconditional", "unwanted"} OBVIOUS
    <2> HIDE DEF r
    <2>10. a \in Answers /\ a.of = c /\ a.lines = {} /\ a.hit = Unset
      BY <2>11, <2>12, SaidType
    <2> HIDE DEF a
    <2> QED BY <1>13, <2>2, <2>7, <2>8, <2>10
  <1>14. CASE GdbRefusesBreak(c)
    <2>1. ~Continues(c) /\ gdb' = gdb /\ Answer(c, Unset, {})
      BY <1>14 DEF GdbRefusesBreak, Continues
    <2> HIDE DEF c
    <2> QED BY <1>2, <1>4, <1>7, <2>1
  <1>15. ASSUME NEW says \in {"unconditional", "unwanted"}, GdbRejects(c, says) PROVE QueueInv'
    <2>1. ~Continues(c) /\ gdb' = gdb BY <1>15 DEF GdbRejects, Continues
    <2> HIDE DEF c
    <2> DEFINE r == Reply(c, Unset, {})
               a == Said(r, says)
    <2>2. fromGdb' = Append(fromGdb, a) BY <1>15 DEF GdbRejects, Said
    <2>4. r \in Answers /\ r.of = c /\ r.lines = {} /\ r.hit = Unset BY <1>3, <1>4, ReplyType
    <2>5. says \in {"ok", "pending", "unconditional", "unwanted"} OBVIOUS
    <2> HIDE DEF r
    <2>3. a \in Answers /\ a.of = c /\ a.lines = {} /\ a.hit = Unset BY <2>4, <2>5, SaidType
    <2> HIDE DEF a
    <2> QED BY <1>2, <1>13, <2>1, <2>2, <2>3
  <1>9. CASE GdbDeletes(c)
    <2>1. c.kind = "delete" BY <1>9 DEF GdbDeletes
    <2>2. ~Continues(c) BY <2>1 DEF Continues
    <2>3. gdb' = [gdb EXCEPT !.breaks = {k \in @ : k.no # c.no}] BY <1>9 DEF GdbDeletes
    <2>4. gdb' \in Debuggers /\ gdb'.state = gdb.state /\ gdb'.stray = gdb.stray
      BY <1>2, <2>3 DEF Debuggers
    <2>5. Answer(c, Unset, {}) BY <1>9 DEF GdbDeletes
    <2> HIDE DEF c
    <2> QED BY <1>4, <1>7, <2>2, <2>4, <2>5
  <1>10. CASE GdbRefines(c)
    <2>1. c.kind \in {"condition", "uncondition", "ignore"} BY <1>10 DEF GdbRefines
    <2>2. ~Continues(c) BY <2>1 DEF Continues
    <2> DEFINE Breaks == [no : Nat, bp : Breakpoints, wish : SUBSET {"condition", "ignore"}]
               breaks == {Refined(k, c) : k \in gdb.breaks}
    <2>3. gdb.breaks \subseteq Breaks BY <1>2 DEF Debuggers
    <2>4. breaks \subseteq Breaks
      <3>1. ASSUME NEW k \in Breaks PROVE Refined(k, c) \in Breaks BY <2>1 DEF Refined
      <3> QED BY <2>3, <3>1
    <2>5. gdb' = [gdb EXCEPT !.breaks = breaks] BY <1>2, <1>10 DEF GdbRefines, Debuggers
    <2> HIDE DEF breaks
    <2>6. gdb' \in Debuggers /\ gdb'.state = gdb.state /\ gdb'.stray = gdb.stray
      BY <1>2, <2>4, <2>5 DEF Debuggers
    <2>7. Answer(c, Unset, {}) BY <1>10 DEF GdbRefines
    <2> HIDE DEF c
    <2> QED BY <1>4, <1>7, <2>2, <2>6, <2>7
  <1>11. CASE GdbReports(c)
    <2>1. ~Continues(c) /\ gdb' = gdb /\ Answer(c, Unset, {}) BY <1>11 DEF GdbReports, Continues
    <2> HIDE DEF c
    <2> QED BY <1>2, <1>4, <1>7, <2>1
  <1>12. CASE GdbQuits(c)
    <2>1. gdb' = [gdb EXCEPT !.state = "gone", !.program = "none"] /\ fromGdb' = fromGdb
      BY <1>12 DEF GdbQuits
    <2>2. gdb' \in Debuggers /\ gdb'.state = "gone" BY <1>2, <2>1 DEF Debuggers
    <2> HIDE DEF c
    <2>3. gdb.state # "gone" BY <1>3
    <2> QED BY <1>1, <1>2, <2>1, <2>2, <2>3, GdbReadsHead, GivenUp
  <1> QED BY <1>5, <1>6, <1>8, <1>9, <1>10, <1>11, <1>12, <1>14, <1>15 DEF GdbObeys

(* The program stops at k. *)
LEMMA HitType ==
    ASSUME gdb \in Debuggers, NEW k \in gdb.breaks, BreakIsHit(k)
    PROVE  /\ gdb' \in Debuggers /\ gdb'.state = "prompt" /\ gdb'.stray = gdb.stray
           /\ gdb'.refused = gdb.refused
           /\ \E a \in Answers :
                  /\ fromGdb' = Append(fromGdb, a)
                  /\ a.of = gdb.last /\ a.lines = {"cursor"}
                  /\ a.no = Unset /\ a.says = "ok" /\ a.hit = k.no
           /\ gdb'.breaks = gdb.breaks /\ gdb'.next = gdb.next
  <1> DEFINE r == Reply(gdb.last, Unset, {"cursor"})
             a == Hits(r, k.no)
  <1>1. k.no \in Nat /\ gdb.last \in Commands BY DEF Debuggers
  <1>2. gdb' = [gdb EXCEPT !.state = "prompt", !.program = "stopped"] BY DEF BreakIsHit
  <1>3. /\ gdb' \in Debuggers /\ gdb'.state = "prompt" /\ gdb'.stray = gdb.stray
        /\ gdb'.refused = gdb.refused /\ gdb'.breaks = gdb.breaks /\ gdb'.next = gdb.next
    BY <1>2 DEF Debuggers
  <1>4. Unset \in Nat /\ {"cursor"} \in SUBSET {"signal", "cursor", "exit"} BY DEF Unset
  <1>5. /\ r \in Answers /\ r.of = gdb.last /\ r.no = Unset /\ r.lines = {"cursor"}
        /\ r.says = "ok"
    BY <1>1, <1>4, ReplyType
  <1>6. fromGdb' = Append(fromGdb, a) BY DEF BreakIsHit, Hits
  <1> HIDE DEF r
  <1>7. /\ a \in Answers /\ a.of = gdb.last /\ a.no = Unset /\ a.lines = {"cursor"}
        /\ a.says = "ok" /\ a.hit = k.no
    BY <1>1, <1>5, HitsType
  <1> HIDE DEF a
  <1> QED BY <1>3, <1>6, <1>7

(* The program stops, is stopped or ends: the answer to the command that let it run. *)
LEMMA ProgramKeeps ==
    ASSUME QueueInv, ProgramStops \/ SignalArrives \/ ProgramExits
    PROVE  QueueInv'
  <1> DEFINE Lines == {{"cursor"}, {"signal", "cursor"}, {"exit"}}
  <1>1. /\ ide \in Plugins /\ ListOk(ide)
        /\ gdb \in Debuggers /\ fromGdb \in Seq(Answers) /\ RestOk
    BY TypeParts DEF QueueInv
  <1>2. gdb.state = "running" /\ gdb.last \in Commands
    BY <1>1 DEF ProgramStops, StepEnds, BreakIsHit, SignalArrives, ProgramExits, Debuggers
  <1>3. /\ \E a \in Answers : /\ fromGdb' = Append(fromGdb, a)
                             /\ a.of = gdb.last /\ a.lines \in Lines
        /\ gdb' \in Debuggers /\ gdb'.state = "prompt" /\ gdb'.stray = gdb.stray
        /\ gdb'.refused = gdb.refused
    <2>1. ASSUME NEW k \in gdb.breaks, BreakIsHit(k) PROVE <1>3!:
      <3>1. PICK a \in Answers : /\ fromGdb' = Append(fromGdb, a)
                                 /\ a.of = gdb.last /\ a.lines = {"cursor"}
        BY <1>1, <2>1, HitType
      <3>2. a.lines \in Lines BY <3>1
      <3>3. /\ gdb' \in Debuggers /\ gdb'.state = "prompt" /\ gdb'.stray = gdb.stray
            /\ gdb'.refused = gdb.refused
        BY <1>1, <2>1, HitType
      <3> HIDE DEF Lines
      <3> QED BY <3>1, <3>2, <3>3
    <2>2. CASE StepEnds \/ SignalArrives \/ ProgramExits
      <3>1. PICK lines \in Lines : Answer(gdb.last, Unset, lines)
        BY <2>2 DEF StepEnds, SignalArrives, ProgramExits
      <3>2. PICK program \in {"stopped", "exited"} :
                gdb' = [gdb EXCEPT !.state = "prompt", !.program = program]
        BY <2>2 DEF StepEnds, SignalArrives, ProgramExits
      <3>3. /\ gdb' \in Debuggers /\ gdb'.state = "prompt" /\ gdb'.stray = gdb.stray
            /\ gdb'.refused = gdb.refused
        BY <1>1, <3>2 DEF Debuggers
      <3> DEFINE a == Reply(gdb.last, Unset, lines)
      <3>4. lines \in SUBSET {"signal", "cursor", "exit"} /\ Unset \in Nat BY DEF Unset
      <3>5. a \in Answers /\ a.of = gdb.last /\ a.lines = lines BY <1>2, <3>4, ReplyType
      <3>6. fromGdb' = Append(fromGdb, a) BY <3>1 DEF Answer
      <3> HIDE DEF a, Lines
      <3> QED BY <3>1, <3>3, <3>5, <3>6
    <2> QED BY <2>1, <2>2 DEF ProgramStops
  <1>4. PICK a \in Answers : /\ fromGdb' = Append(fromGdb, a)
                             /\ a.of = gdb.last /\ a.lines \in Lines
    BY <1>3
  <1>5. /\ gdb' \in Debuggers /\ gdb'.state = "prompt" /\ gdb'.stray = gdb.stray
        /\ gdb'.refused = gdb.refused
    BY <1>3
  <1>6. \/ ide' = ide \/ ide' = [ide EXCEPT !.sigint = FALSE] \/ ide' = [ide EXCEPT !.poked = FALSE]
    BY DEF ProgramStops, StepEnds, BreakIsHit, SignalArrives, ProgramExits
  <1>7. ide' \in Plugins BY <1>1, <1>6 DEF Plugins
  <1>8. /\ ide'.m_pProcess = ide.m_pProcess /\ ide'.hasDriver = ide.hasDriver
        /\ ide'.m_Breakpoints = ide.m_Breakpoints /\ ide'.made = ide.made
        /\ ide'.toGdb = ide.toGdb /\ ide'.m_QueueBusy = ide.m_QueueBusy
        /\ ide'.m_DCmds = ide.m_DCmds
        /\ ide'.m_ProgramIsStopped = ide.m_ProgramIsStopped
    BY <1>1, <1>6 DEF Plugins
  <1>9. Keeps(ide, ide') BY <1>1, <1>7, <1>8, OtherFields DEF ListOk
  <1>10. RestOk' BY <1>1 DEF RestOk, ProgramStops, StepEnds, BreakIsHit, SignalArrives, ProgramExits
  <1>11. /\ fromGdb' \in Seq(Answers)
         /\ fromGdb = <<>> => /\ fromGdb' # <<>> /\ Len(fromGdb') = 1 /\ fromGdb'[1] = a
    BY <1>1, <1>4, PostedType
  <1>12. Types' BY <1>1, <1>5, <1>7, <1>8, <1>10, <1>11, TypePartsNext DEF ListOk
  <1>13. ide.m_pProcess /\ ide.hasDriver BY <1>2 DEF QueueInv, SessionInv
  <1>14. SessionInv' BY <1>8, <1>13 DEF SessionInv
  <1>15. ASSUME Undisturbed'
         PROVE  /\ Sound(ide', Elsewhere', gdb'.refused)
                /\ Len(fromGdb') <= 1
                /\ Genuine(fromGdb'[1], gdb'.refused)
    <2>1. Undisturbed BY <1>2, <1>5, <1>13, <1>15 DEF Undisturbed
    <2>2. /\ Sound(ide, Elsewhere, gdb.refused) /\ Continues(gdb.last) /\ fromGdb = <<>>
      BY <1>2, <2>1 DEF QueueInv, TalkInv
    <2>3. Elsewhere = <<gdb.last>> BY <1>2, <2>2 DEF Elsewhere
    <2>4. Elsewhere' = <<gdb.last>> BY <1>4, <1>11, <2>2 DEF Elsewhere
    <2>5. Sound(ide', Elsewhere', gdb'.refused)
      BY <1>5, <1>9, <1>13, <2>2, <2>3, <2>4 DEF Keeps
    <2>6. Genuine(fromGdb'[1], gdb'.refused)
      <3>1. fromGdb'[1].of = gdb.last /\ fromGdb'[1].lines = a.lines BY <1>4, <1>11, <2>2
      <3>2. /\ a.lines # {} /\ ("signal" \in a.lines => "cursor" \in a.lines)
            /\ ("exit" \in a.lines => a.lines = {"exit"})
        BY <1>4
      <3> HIDE DEF Lines
      <3> QED BY <2>2, <3>1, <3>2 DEF Genuine
    <2>7. Len(fromGdb') = 1 BY <1>11, <2>2
    <2> QED BY <2>5, <2>6, <2>7
  <1>16. TalkInv' BY <1>5, <1>15 DEF TalkInv
  <1> QED BY <1>12, <1>14, <1>16 DEF QueueInv

LEMMA TroubleKeeps ==
    ASSUME QueueInv, GdbIsPoked \/ GdbCrashes \/ UserKills
    PROVE  QueueInv'
  <1>1. /\ ide \in Plugins /\ gdb \in Debuggers /\ fromGdb \in Seq(Answers) /\ RestOk
    BY TypeParts DEF QueueInv
  <1>2. gdb.state # "gone" => gdb' \in Debuggers /\ gdb'.stray \in BOOLEAN
    BY <1>1 DEF GdbIsPoked, GdbCrashes, UserKills, Debuggers
  <1>3. CASE GdbIsPoked
    <2>1. gdb' = [gdb EXCEPT !.stray = TRUE] /\ ide' = [ide EXCEPT !.poked = FALSE]
          /\ gdb.state = "prompt"
      BY <1>3 DEF GdbIsPoked
    <2>2. gdb' \in Debuggers /\ gdb'.stray BY <1>1, <2>1 DEF Debuggers
    <2>3. ide' \in Plugins BY <1>1, <2>1 DEF Plugins
    <2>4. /\ ide'.m_pProcess = ide.m_pProcess /\ ide'.hasDriver = ide.hasDriver
          /\ ide'.m_Breakpoints = ide.m_Breakpoints /\ ide'.made = ide.made
      BY <1>1, <2>1 DEF Plugins
    <2>5. RestOk' BY <1>1, <1>3 DEF GdbIsPoked, RestOk
    <2>6. NoCmd \in Commands /\ Unset \in Nat /\ {} \in SUBSET {"signal", "cursor", "exit"}
      BY DEF NoCmd, Plain, Cmd, Commands, Unset
    <2>7. fromGdb' \in Seq(Answers) BY <1>1, <1>3, <2>6, AnswerType DEF GdbIsPoked
    <2>8. gdb.state # "gone" BY <2>1
    <2> QED BY <2>2, <2>3, <2>4, <2>5, <2>7, <2>8, GivenUp
  <1>4. CASE GdbCrashes
    <2>1. gdb' = [gdb EXCEPT !.state = "gone", !.program = "none"] /\ gdb.state # "gone"
          /\ ide' = ide /\ fromGdb' = fromGdb
      BY <1>4 DEF GdbCrashes
    <2>2. gdb' \in Debuggers /\ gdb'.state = "gone" BY <1>1, <2>1 DEF Debuggers
    <2>3. crashes' \in 0..MaxCrashes BY <1>1, <1>4, Bounds DEF GdbCrashes, RestOk
    <2>4. RestOk' BY <1>1, <1>4, <2>3 DEF GdbCrashes, RestOk
    <2> QED BY <1>1, <2>1, <2>2, <2>4, GivenUp
  <1>5. CASE UserKills
    <2>1. gdb' = [gdb EXCEPT !.state = "gone"] /\ ide' = ide /\ fromGdb' = fromGdb
      BY <1>5 DEF UserKills
    <2>2. gdb' \in Debuggers /\ gdb'.state = "gone" BY <1>1, <2>1 DEF Debuggers
    <2>3. requests' \in 0..MaxRequests BY <1>5, AskedRest DEF UserKills
    <2>4. RestOk' BY <1>1, <1>5, <2>3 DEF UserKills, RestOk
    <2>5. Types' BY <1>1, <2>1, <2>2, <2>4, TypeParts, TypePartsNext DEF QueueInv
    <2>6. SessionInv' BY <2>1, <2>2 DEF QueueInv, SessionInv
    <2>7. TalkInv' BY <2>2 DEF TalkInv, Undisturbed
    <2> QED BY <2>5, <2>6, <2>7 DEF QueueInv
  <1> QED BY <1>3, <1>4, <1>5

LEMMA StepsKeep ==
    ASSUME OneWishEach, QueueInv, [Next]_vars
    PROVE  QueueInv'
  <1>1. CASE UNCHANGED vars
    <2>1. ide \in Plugins /\ RestOk BY TypeParts DEF QueueInv
    <2>2. ide' = ide /\ gdb' = gdb /\ fromGdb' = fromGdb /\ RestOk'
      BY <1>1, <2>1 DEF vars, RestOk
    <2>3. Keeps(ide, ide') BY <2>1, <2>2, KeepsIsAPreorder
    <2> QED BY <2>2, <2>3, PluginStep
  <1>2. CASE User
    BY <1>2, DebugKeeps, RunsKeep, TroubleKeeps, EditsKeep, CloseDialogKeeps DEF User
  <1>3. CASE Outside
    BY <1>3, ObeysKeeps, ProgramKeeps, TroubleKeeps DEF Outside
  <1> QED BY <1>1, <1>2, <1>3, ReplyKeeps, EndsKeep DEF Next

-----------------------------------------------------------------------------
(* What follows. *)

(* One command at most is in flight. *)
LEMMA InFlightIs ==
    ASSUME Types, TalkInv, Undisturbed
    PROVE  InFlight = Elsewhere \o ide.toGdb
  <1> DEFINE posted == [i \in DOMAIN fromGdb |-> fromGdb[i].of]
             running == IF gdb.state = "running" THEN <<gdb.last>> ELSE <<>>
  <1>1. fromGdb \in Seq(Answers) /\ Len(fromGdb) <= 1 BY TypeParts DEF TalkInv
  <1>2. InFlight = (posted \o running) \o ide.toGdb BY DEF InFlight
  <1>3. CASE fromGdb = <<>>
    <2>1. posted = <<>> BY <1>3
    <2>2. Elsewhere = running BY <1>3 DEF Elsewhere
    <2>3. <<>> \o running = running OBVIOUS
    <2> HIDE DEF posted, running
    <2> QED BY <1>2, <2>1, <2>2, <2>3
  <1>4. CASE fromGdb # <<>>
    <2>1. Len(fromGdb) \in Nat /\ DOMAIN fromGdb = 1..Len(fromGdb) BY <1>1, LenProperties
    <2>2. Len(fromGdb) = 1 BY <1>1, <1>4, <2>1, EmptySeq
    <2>3. posted = <<fromGdb[1].of>> BY <2>1, <2>2
    <2>4. gdb.state = "prompt" BY <1>4 DEF TalkInv
    <2>5. running = <<>> /\ Elsewhere = <<fromGdb[1].of>> BY <1>4, <2>4 DEF Elsewhere
    <2>6. <<fromGdb[1].of>> \o <<>> = <<fromGdb[1].of>> OBVIOUS
    <2> HIDE DEF posted, running
    <2> QED BY <1>2, <2>3, <2>5, <2>6
  <1> QED BY <1>3, <1>4

LEMMA Consequences ==
    ASSUME QueueInv
    PROVE  DriverInv /\ RepliesMatch
  <1>1. ASSUME Undisturbed
        PROVE  /\ InFlight = IF ide.m_QueueBusy THEN <<ide.m_DCmds[1]>> ELSE <<>>
               /\ Awake(ide, gdb.refused)
    <2>1. InFlight = Elsewhere \o ide.toGdb BY <1>1, InFlightIs DEF QueueInv
    <2>2. Sound(ide, Elsewhere, gdb.refused) BY <1>1 DEF QueueInv, TalkInv
    <2>3. <<>> \o <<>> = <<>> OBVIOUS
    <2>4. <<ide.m_DCmds[1]>> \o <<>> = <<ide.m_DCmds[1]>>
          /\ <<>> \o <<ide.m_DCmds[1]>> = <<ide.m_DCmds[1]>>
      OBVIOUS
    <2>5. CASE ide.m_QueueBusy BY <2>1, <2>2, <2>4, <2>5 DEF Sound, Flight
    <2>6. CASE ~ide.m_QueueBusy BY <2>1, <2>2, <2>3, <2>6 DEF Sound, Flight
    <2> QED BY <2>2, <2>5, <2>6 DEF Sound
  <1>2. RepliesMatch BY <1>1 DEF RepliesMatch
  <1>3. ASSUME Deaf PROVE gdb.refused /\ ide.m_DCmds # <<>>
    <2>1. Undisturbed /\ InFlight = <<>> /\ ~ide.m_ProgramIsStopped BY <1>3 DEF Deaf, AtPrompt
    <2>2. <<ide.m_DCmds[1]>> # <<>> OBVIOUS
    <2>3. ~ide.m_QueueBusy BY <1>1, <2>1, <2>2
    <2> QED BY <1>1, <2>1, <2>3 DEF Awake
  <1>4. DriverInv BY <1>3 DEF DriverInv, DeafOnlyAfterRefusal, QueueInv, Types
  <1> QED BY <1>2, <1>4

THEOREM QueueInvariant == OneWishEach => (Spec => []QueueInv)
  <1> SUFFICES ASSUME OneWishEach PROVE Spec => []QueueInv OBVIOUS
  <1>1. QueueInv /\ [Next]_vars => QueueInv' BY StepsKeep
  <1> QED BY <1>1, Initially, PTL DEF Spec

(* An answer is parsed by the command that asked for it, for any breakpoints, any
   number of sessions and any edits, unless one breakpoint has two wishes
   (RunQueue, RemoveTopCommand, QueueCommand, GDB_driver::ParseOutput).       *)
THEOREM AnswersMeetTheirCommands == OneWishEach => (Spec => []RepliesMatch)
  <1>1. QueueInv => RepliesMatch BY Consequences
  <1> QED BY <1>1, QueueInvariant, PTL

(* The record of the plugin and of gdb keep their types, and the driver takes the
   program for running, with nothing on its way, only after gdb has refused to run
   it and with commands left in the queue (ParseOutput).                      *)
THEOREM DriverHears == OneWishEach => (Spec => []DriverInv)
  <1>1. QueueInv => DriverInv BY Consequences
  <1> QED BY <1>1, QueueInvariant, PTL

-----------------------------------------------------------------------------
(* Why a program that stays stopped was shown.  A queue goes on when it holds a
   command that will end the stop: a "quit", or a "cont" not yet sent.        *)
Quits(q) == \E i \in 1..Len(q) : q[i].kind = "quit"

GoesOn(q, busy) ==
    \E i \in 1..Len(q) : \/ q[i].kind = "quit"
                         \/ q[i].kind = "cont" /\ ~(i = 1 /\ busy)

(* The next Continue lets a started program go on, or the session is at its end. *)
Ending(s) == s.m_IsStarted \/ Quits(s.m_DCmds)

(* A temporary break of this session is followed by a command that goes on.   *)
Steady(s) == s.m_TemporaryBreak /\ ~s.muted => GoesOn(s.m_DCmds, s.m_QueueBusy)

(* The driver has to hear where the program is: it has asked for the frame, or takes
   the program for running, and something is in the queue.                    *)
Seeks(s) == s.m_DCmds # <<>> /\ (s.m_DCmds[1].kind = "info frame" \/ ~s.m_ProgramIsStopped)

Unseen(s, stopped) == stopped /\ ~s.shown /\ ~s.muted

Seen(s, stopped) == Unseen(s, stopped) => GoesOn(s.m_DCmds, s.m_QueueBusy) \/ Seeks(s)

Stops == gdb.program = "stopped"

MindInv ==
    Undisturbed =>
        /\ Ending(ide) /\ Steady(ide) /\ Seen(ide, Stops)
        /\ gdb.state = "running" => gdb.program = "running"
        /\ fromGdb # <<>> =>
              /\ fromGdb[1].of.kind # "quit"
              /\ fromGdb[1].of.kind = "info frame" => fromGdb[1].frame = Stops

(* What an operation on the record leaves true of these. *)
Carries(s, r) ==
    /\ Quits(s.m_DCmds) => Quits(r.m_DCmds)
    /\ Ending(s) => Ending(r)
    /\ Steady(s) => Steady(r)
    /\ \A stopped \in BOOLEAN : Seen(s, stopped) => Seen(r, stopped)

LEMMA CarriesIsAPreorder ==
    /\ \A s : Carries(s, s)
    /\ \A s, t, r : Carries(s, t) /\ Carries(t, r) => Carries(s, r)
  BY DEF Carries

(* Queues that grow and shrink. *)
LEMMA QuitsGoOn ==
    ASSUME NEW q, NEW busy, Quits(q)
    PROVE  GoesOn(q, busy)
  BY DEF Quits, GoesOn

LEMMA EmptyEnds == ~Quits(<<>>) /\ \A busy : ~GoesOn(<<>>, busy)
  BY DEF Quits, GoesOn

LEMMA IdleGoesOn ==
    ASSUME NEW q \in Seq(Commands), GoesOn(q, FALSE)
    PROVE  /\ q # <<>>
           /\ q[1].kind # "cont" => GoesOn(q, TRUE)
  BY EmptyEnds DEF GoesOn

LEMMA AppendGoesOn ==
    ASSUME NEW q \in Seq(Commands), NEW c \in Commands
    PROVE  /\ Append(q, c) \in Seq(Commands) /\ Append(q, c) # <<>>
           /\ q # <<>> => Append(q, c)[1] = q[1]
           /\ Quits(q) => Quits(Append(q, c))
           /\ \A busy \in BOOLEAN : GoesOn(q, busy) => GoesOn(Append(q, c), busy)
           /\ c.kind = "quit" => Quits(Append(q, c))
           /\ \A busy \in BOOLEAN :
                 c.kind = "cont" /\ (busy => q # <<>>) => GoesOn(Append(q, c), busy)
  <1> DEFINE r == Append(q, c)
             n == Len(q)
  <1>1. /\ r \in Seq(Commands) /\ Len(r) = n + 1 /\ r[n + 1] = c
        /\ \A i \in 1..n : r[i] = q[i]
    BY AppendProperties
  <1>2. n \in Nat /\ (q # <<>> => n >= 1) BY LenProperties, EmptySeq
  <1>3. r # <<>> BY AppendProperties
  <1> HIDE DEF r, n
  <1>4. \A i \in 1..n : i \in 1..(n + 1) BY <1>2
  <1>5. n + 1 \in 1..(n + 1) BY <1>2
  <1>6. q # <<>> => r[1] = q[1]
    <2>1. q # <<>> => 1 \in 1..n BY <1>2
    <2> QED BY <1>1, <2>1
  <1>7. Quits(q) => Quits(r) BY <1>1, <1>4 DEF Quits, n
  <1>8. ASSUME NEW busy \in BOOLEAN, GoesOn(q, busy) PROVE GoesOn(r, busy)
    BY <1>1, <1>4, <1>8 DEF GoesOn, n
  <1>9. c.kind = "quit" => Quits(r) BY <1>1, <1>5 DEF Quits
  <1>10. ASSUME NEW busy \in BOOLEAN, c.kind = "cont", busy => q # <<>>
         PROVE  GoesOn(r, busy)
    <2>1. ~(n + 1 = 1 /\ busy) BY <1>2, <1>10
    <2> QED BY <1>1, <1>5, <1>10, <2>1 DEF GoesOn
  <1> QED BY <1>1, <1>3, <1>6, <1>7, <1>8, <1>9, <1>10 DEF r

LEMMA TailGoesOn ==
    ASSUME NEW q \in Seq(Commands), q # <<>>, q[1].kind # "quit"
    PROVE  /\ Tail(q) \in Seq(Commands)
           /\ Quits(q) => Quits(Tail(q))
           /\ GoesOn(q, TRUE) => GoesOn(Tail(q), FALSE)
  <1> DEFINE r == Tail(q)
             n == Len(q)
  <1>1. r \in Seq(Commands) /\ Len(r) = n - 1 /\ \A i \in 1..(n - 1) : r[i] = q[i + 1]
    BY HeadTailProperties
  <1>2. n \in Nat BY LenProperties
  <1> HIDE DEF r, n
  <1>3. ASSUME NEW i \in 1..n, i # 1 PROVE i - 1 \in 1..(n - 1) /\ r[i - 1] = q[i]
    <2>1. i - 1 \in 1..(n - 1) /\ (i - 1) + 1 = i BY <1>2, <1>3
    <2> QED BY <1>1, <2>1
  <1>4. ASSUME Quits(q) PROVE Quits(r)
    <2>1. PICK i \in 1..n : q[i].kind = "quit" BY <1>4 DEF Quits, n
    <2>2. i # 1 BY <2>1
    <2> QED BY <1>1, <1>3, <2>1, <2>2 DEF Quits
  <1>5. ASSUME GoesOn(q, TRUE) PROVE GoesOn(r, FALSE)
    <2>1. PICK i \in 1..n : q[i].kind = "quit" \/ (q[i].kind = "cont" /\ i # 1)
      BY <1>5 DEF GoesOn, n
    <2>2. i # 1 BY <2>1
    <2> QED BY <1>1, <1>3, <2>1, <2>2 DEF GoesOn
  <1> QED BY <1>1, <1>4, <1>5 DEF r

LEMMA FrontGoesOn ==
    ASSUME NEW q \in Seq(Commands), NEW c \in Commands
    PROVE  /\ <<c>> \o q \in Seq(Commands)
           /\ Quits(q) => Quits(<<c>> \o q)
           /\ GoesOn(q, FALSE) => GoesOn(<<c>> \o q, FALSE)
  <1> DEFINE r == <<c>> \o q
             n == Len(q)
             one == <<c>>
  <1>1. one \in Seq(Commands) /\ Len(one) = 1 OBVIOUS
  <1>2. n \in Nat BY LenProperties
  <1>3. /\ r \in Seq(Commands) /\ Len(r) = Len(one) + n
        /\ \A i \in 1..(Len(one) + n) :
              r[i] = IF i <= Len(one) THEN one[i] ELSE q[i - Len(one)]
    <2>1. r = one \o q OBVIOUS
    <2> HIDE DEF r, one
    <2> QED BY <1>1, <2>1, ConcatProperties
  <1> HIDE DEF r, n, one
  <1>4. ASSUME NEW i \in 1..n PROVE i + 1 \in 1..(n + 1) /\ r[i + 1] = q[i]
    <2>1. i + 1 \in 1..(1 + n) /\ ~(i + 1 <= 1) /\ (i + 1) - 1 = i /\ i + 1 \in 1..(n + 1) BY <1>2
    <2> QED BY <1>1, <1>3, <2>1
  <1>5. Len(r) = n + 1 BY <1>1, <1>2, <1>3
  <1>6. Quits(q) => Quits(r) BY <1>4, <1>5 DEF Quits, n
  <1>7. GoesOn(q, FALSE) => GoesOn(r, FALSE) BY <1>4, <1>5 DEF GoesOn, n
  <1> QED BY <1>3, <1>6, <1>7 DEF r

(* What acts without a text neither quits nor goes on, and is no question. *)
LEMMA TextGoesOn ==
    ASSUME NEW q \in Seq(Commands)
    PROVE  /\ Quits(q) => Quits(FirstWithText(q))
           /\ GoesOn(q, FALSE) => GoesOn(FirstWithText(q), FALSE)
           /\ q # <<>> /\ q[1].kind # "no text" =>
                 FirstWithText(q) # <<>> /\ FirstWithText(q)[1] = q[1]
  <1> DEFINE Texts == {i \in 1..Len(q) : q[i].kind # "no text"}
             first == IF Texts # {} THEN Min(Texts) ELSE 0
             rest == FirstWithText(q)
  <1>1. rest = IF first = 0 THEN <<>> ELSE SubSeq(q, first, Len(q))
    BY DEF FirstWithText, SelectInSeq
  <1>2. Len(q) \in Nat BY LenProperties
  <1>3. ASSUME Texts # {}
        PROVE  first \in 1..Len(q) /\ first \in Texts /\ \A i \in Texts : first <= i
    <2> DEFINE T == Texts
    <2>1. Texts \subseteq 1..Len(q) OBVIOUS
    <2>2. T \subseteq Nat
      <3> HIDE DEF Texts
      <3> QED BY <1>2, <2>1
    <2>3. T # {} BY <1>3
    <2>4. first = Min(T) BY <1>3
    <2> HIDE DEF T, first
    <2>5. \E x \in T : \A y \in T : x <= y BY <2>2, <2>3, LeastNatural
    <2>6. first \in T /\ \A y \in T : first <= y BY <2>4, <2>5 DEF Min
    <2> QED BY <2>1, <2>6 DEF T
  <1> HIDE DEF first, rest
  <1>4. ASSUME NEW i \in 1..Len(q), q[i].kind # "no text"
        PROVE  /\ i - first + 1 \in 1..Len(rest) /\ rest[i - first + 1] = q[i]
               /\ i = 1 => rest # <<>> /\ rest[1] = q[1]
    <2>1. i \in Texts BY <1>4
    <2>2. first \in 1..Len(q) /\ first <= i BY <1>3, <2>1
    <2>3. rest = SubSeq(q, first, Len(q)) BY <1>1, <2>2
    <2>4. \A k \in first..Len(q) : q[k] \in Commands BY <2>2
    <2>5. /\ rest \in Seq(Commands) /\ Len(rest) = Len(q) - first + 1
          /\ \A k \in 1..(Len(q) - first + 1) : rest[k] = q[first + k - 1]
      BY <1>2, <2>2, <2>3, <2>4, SubSeqProperties
    <2> HIDE DEF Texts
    <2>6. i - first + 1 \in 1..(Len(q) - first + 1) /\ first + (i - first + 1) - 1 = i
      BY <1>2, <2>2
    <2>7. i - first + 1 \in 1..Len(rest) /\ rest[i - first + 1] = q[i] BY <2>5, <2>6
    <2>8. ASSUME i = 1 PROVE rest # <<>> /\ rest[1] = q[1]
      <3>1. first = 1 BY <2>2, <2>8
      <3>2. i - first + 1 = 1 BY <2>8, <3>1
      <3>3. Len(rest) # 0 BY <2>7, <3>2
      <3> QED BY <2>7, <2>8, <3>2, <3>3
    <2> QED BY <2>7, <2>8
  <1>5. Quits(q) => Quits(rest) BY <1>4 DEF Quits
  <1>6. GoesOn(q, FALSE) => GoesOn(rest, FALSE) BY <1>4 DEF GoesOn
  <1>7. ASSUME q # <<>>, q[1].kind # "no text" PROVE rest # <<>> /\ rest[1] = q[1]
    <2>1. Len(q) # 0 BY <1>7, EmptySeq
    <2>2. 1 \in 1..Len(q) BY <1>2, <2>1
    <2> QED BY <1>4, <1>7, <2>2
  <1> QED BY <1>5, <1>6, <1>7 DEF rest

-----------------------------------------------------------------------------
(* The operations on the queue. *)
LEMMA QuitsCarries ==
    ASSUME NEW s, Quits(s.m_DCmds)
    PROVE  Ending(s) /\ Steady(s) /\ \A stopped \in BOOLEAN : Seen(s, stopped)
  BY QuitsGoOn DEF Ending, Steady, Seen

LEMMA RunQueueCarries ==
    ASSUME NEW s \in Plugins
    PROVE  Carries(s, RunQueue(s))
  <1> DEFINE rest == FirstWithText(s.m_DCmds)
             head == rest[1]
             r == RunQueue(s)
  <1>1. s.m_DCmds \in Seq(Commands) BY DEF Plugins
  <1>2. rest \in Seq(Commands) BY <1>1, FirstWithTextType
  <1>3. /\ Quits(s.m_DCmds) => Quits(rest)
        /\ GoesOn(s.m_DCmds, FALSE) => GoesOn(rest, FALSE)
        /\ s.m_DCmds # <<>> /\ s.m_DCmds[1].kind # "no text" => rest # <<>> /\ head = s.m_DCmds[1]
    BY <1>1, TextGoesOn
  <1>4. CASE s.m_QueueBusy \/ ~s.m_ProgramIsStopped
    <2>1. r = s BY <1>4, Zenon DEF RunQueue
    <2> QED BY <2>1, CarriesIsAPreorder
  <1>5. CASE ~s.m_QueueBusy /\ s.m_ProgramIsStopped /\ rest = <<>>
    <2>1. r = [s EXCEPT !.m_DCmds = <<>>] BY <1>5 DEF RunQueue
    <2> HIDE DEF r, rest
    <2>2. /\ r.m_DCmds = <<>> /\ r.m_QueueBusy = s.m_QueueBusy
          /\ r.m_IsStarted = s.m_IsStarted /\ r.m_TemporaryBreak = s.m_TemporaryBreak
          /\ r.shown = s.shown /\ r.muted = s.muted
      BY <2>1 DEF Plugins
    <2>3. ~Quits(s.m_DCmds) /\ ~GoesOn(s.m_DCmds, FALSE) BY <1>3, <1>5, EmptyEnds
    <2>4. s.m_QueueBusy = FALSE BY <1>5 DEF Plugins
    <2>5. ~GoesOn(s.m_DCmds, s.m_QueueBusy) BY <2>3, <2>4
    <2>6. ~Seeks(s) BY <1>3, <1>5 DEF Seeks
    <2>7. Ending(s) => Ending(r) BY <2>2, <2>3 DEF Ending
    <2>8. Steady(s) => Steady(r) BY <2>2, <2>5 DEF Steady
    <2>9. \A stopped \in BOOLEAN : Seen(s, stopped) => Seen(r, stopped)
      BY <2>2, <2>5, <2>6 DEF Seen, Unseen
    <2> QED BY <2>3, <2>7, <2>8, <2>9 DEF Carries, r
  <1>6. CASE ~s.m_QueueBusy /\ s.m_ProgramIsStopped /\ rest # <<>>
    <2> DEFINE stopped == ~Continues(head)
               other == head.kind # "cont"
    <2>1. r = [s EXCEPT !.m_DCmds = rest,
                        !.m_QueueBusy = TRUE,
                        !.toGdb = IF s.m_pProcess THEN Append(@, head) ELSE @,
                        !.m_ProgramIsStopped = ~Continues(head),
                        !.shown = @ /\ ~Continues(head),
                        !.muted = @ /\ head.kind # "cont",
                        !.m_TemporaryBreak = @ /\ head.kind # "cont"]
      BY <1>6, Zenon DEF RunQueue
    <2>2. other => ~(head.kind = "cont") OBVIOUS
    <2>3. ~other => Continues(head) BY DEF Continues
    <2> HIDE DEF r, rest
    <2>4. /\ r.m_DCmds = rest /\ r.m_QueueBusy = TRUE
          /\ r.m_IsStarted = s.m_IsStarted
          /\ r.m_TemporaryBreak <=> (s.m_TemporaryBreak /\ other)
          /\ r.shown <=> (s.shown /\ stopped)
          /\ r.muted <=> (s.muted /\ other)
          /\ r.m_ProgramIsStopped <=> stopped
      BY <2>1 DEF Plugins
    <2>5. s.m_QueueBusy = FALSE BY <1>6 DEF Plugins
    <2>6. GoesOn(s.m_DCmds, FALSE) /\ other => GoesOn(rest, TRUE)
      BY <1>2, <1>3, IdleGoesOn
    <2> HIDE DEF head
    <2>7. Ending(s) => Ending(r) BY <1>3, <2>4 DEF Ending
    <2> HIDE DEF other, stopped
    <2>8. Steady(s) => Steady(r) BY <2>4, <2>5, <2>6 DEF Steady
    <2>9. ASSUME NEW now \in BOOLEAN, Seen(s, now) PROVE Seen(r, now)
      <3>1. CASE ~stopped
        <4>1. Seeks(r) BY <1>6, <2>4, <3>1 DEF Seeks
        <4> QED BY <4>1 DEF Seen
      <3>2. CASE stopped
        <4>1. other BY <2>3, <3>2 DEF stopped
        <4>2. Unseen(r, now) => Unseen(s, now) BY <2>4, <3>2, <4>1 DEF Unseen
        <4>3. GoesOn(s.m_DCmds, s.m_QueueBusy) => GoesOn(r.m_DCmds, r.m_QueueBusy)
          BY <2>4, <2>5, <2>6, <4>1
        <4>4. Seeks(s) => Seeks(r)
          <5>1. Seeks(s) => s.m_DCmds # <<>> /\ s.m_DCmds[1].kind = "info frame"
            BY <1>6 DEF Seeks
          <5>2. Seeks(s) => rest[1].kind = "info frame" BY <1>3, <5>1 DEF head
          <5> QED BY <1>6, <2>4, <5>2 DEF Seeks
        <4> QED BY <2>9, <4>2, <4>3, <4>4 DEF Seen
      <3> QED BY <3>1, <3>2
    <2>10. Quits(s.m_DCmds) => Quits(r.m_DCmds) BY <1>3, <2>4
    <2> QED BY <2>7, <2>8, <2>9, <2>10 DEF Carries, r
  <1> QED BY <1>4, <1>5, <1>6

(* A change of the other fields. *)
LEMMA OthersCarry ==
    ASSUME NEW s, NEW r,
           r.m_DCmds = s.m_DCmds, r.m_QueueBusy = s.m_QueueBusy,
           r.m_ProgramIsStopped = s.m_ProgramIsStopped, r.m_IsStarted = s.m_IsStarted,
           r.m_TemporaryBreak = s.m_TemporaryBreak, r.shown = s.shown, r.muted = s.muted
    PROVE  Carries(s, r)
  BY DEF Carries, Ending, Steady, Seen, Unseen, Seeks

(* A queue that only grows at its end. *)
LEMMA AppendCarries ==
    ASSUME NEW s \in Plugins, NEW c \in Commands
    PROVE  LET t == [s EXCEPT !.m_DCmds = Append(@, c)]
           IN  /\ t \in Plugins /\ Carries(s, t)
               /\ c.kind = "quit" => Quits(t.m_DCmds)
               /\ c.kind = "cont" /\ (s.m_QueueBusy => s.m_DCmds # <<>>) /\ Ending(s) =>
                     Ending(t) /\ Steady(t)
  <1> DEFINE q == Append(s.m_DCmds, c)
             t == [s EXCEPT !.m_DCmds = Append(@, c)]
  <1>1. s.m_DCmds \in Seq(Commands) /\ s.m_QueueBusy \in BOOLEAN BY DEF Plugins
  <1>2. /\ q \in Seq(Commands) /\ q # <<>>
        /\ s.m_DCmds # <<>> => q[1] = s.m_DCmds[1]
        /\ Quits(s.m_DCmds) => Quits(q)
        /\ \A busy \in BOOLEAN : GoesOn(s.m_DCmds, busy) => GoesOn(q, busy)
        /\ c.kind = "quit" => Quits(q)
        /\ \A busy \in BOOLEAN :
              c.kind = "cont" /\ (busy => s.m_DCmds # <<>>) => GoesOn(q, busy)
    BY <1>1, AppendGoesOn
  <1>3. t = [s EXCEPT !.m_DCmds = q] BY DEF Plugins
  <1> HIDE DEF q, t
  <1>4. t \in Plugins BY <1>2, <1>3 DEF Plugins
  <1>5. /\ t.m_DCmds = q /\ t.m_QueueBusy = s.m_QueueBusy
        /\ t.m_ProgramIsStopped = s.m_ProgramIsStopped /\ t.m_IsStarted = s.m_IsStarted
        /\ t.m_TemporaryBreak = s.m_TemporaryBreak /\ t.shown = s.shown /\ t.muted = s.muted
    BY <1>3 DEF Plugins
  <1>6. Ending(s) => Ending(t) BY <1>2, <1>5 DEF Ending
  <1>7. Steady(s) => Steady(t) BY <1>1, <1>2, <1>5 DEF Steady
  <1>8. Seeks(s) => Seeks(t) BY <1>2, <1>5 DEF Seeks
  <1>9. \A now \in BOOLEAN : Seen(s, now) => Seen(t, now)
    BY <1>1, <1>2, <1>5, <1>8 DEF Seen, Unseen
  <1>10. c.kind = "cont" /\ (s.m_QueueBusy => s.m_DCmds # <<>>) => Steady(t)
    BY <1>1, <1>2, <1>5 DEF Steady
  <1>11. Carries(s, t) BY <1>2, <1>5, <1>6, <1>7, <1>9 DEF Carries
  <1> QED BY <1>2, <1>4, <1>5, <1>6, <1>10, <1>11 DEF t

LEMMA QueueLowCarries ==
    ASSUME NEW s \in Plugins, NEW c \in Commands
    PROVE  /\ QueueLow(s, c) \in Plugins /\ Carries(s, QueueLow(s, c))
           /\ c.kind = "quit" => Quits(QueueLow(s, c).m_DCmds)
           /\ c.kind = "cont" /\ (s.m_QueueBusy => s.m_DCmds # <<>>) /\ Ending(s) =>
                 Ending(QueueLow(s, c)) /\ Steady(QueueLow(s, c))
  <1> DEFINE t == [s EXCEPT !.m_DCmds = Append(@, c)]
  <1>1. /\ t \in Plugins /\ Carries(s, t)
        /\ c.kind = "quit" => Quits(t.m_DCmds)
        /\ c.kind = "cont" /\ (s.m_QueueBusy => s.m_DCmds # <<>>) /\ Ending(s) =>
              Ending(t) /\ Steady(t)
    BY AppendCarries
  <1>2. QueueLow(s, c) = RunQueue(t) BY DEF QueueLow
  <1> HIDE DEF t
  <1>3. Carries(t, RunQueue(t)) /\ RunQueue(t) \in Plugins
    BY <1>1, RunQueueCarries, RunQueueKeeps, KeepsIsTyped
  <1>4. Carries(s, RunQueue(t)) BY <1>1, <1>3, CarriesIsAPreorder
  <1>5. /\ Quits(t.m_DCmds) => Quits(RunQueue(t).m_DCmds)
        /\ Ending(t) => Ending(RunQueue(t))
        /\ Steady(t) => Steady(RunQueue(t))
    BY <1>3 DEF Carries
  <1> QED BY <1>1, <1>2, <1>3, <1>4, <1>5

(* A command in front of the others keeps a stop that something will end; it does
   not keep a question at its place.                                          *)
LEMMA QueueHighCarries ==
    ASSUME NEW s \in Plugins, NEW c \in Commands, NEW stopped \in BOOLEAN,
           ~s.m_QueueBusy, Ending(s), Steady(s),
           Unseen(s, stopped) => GoesOn(s.m_DCmds, FALSE)
    PROVE  /\ Ending(QueueHigh(s, c)) /\ Steady(QueueHigh(s, c))
           /\ Seen(QueueHigh(s, c), stopped)
  <1> DEFINE q == <<c>> \o s.m_DCmds
             t == [s EXCEPT !.m_DCmds = <<c>> \o @]
  <1>1. s.m_DCmds \in Seq(Commands) /\ s.m_QueueBusy = FALSE BY DEF Plugins
  <1>2. /\ q \in Seq(Commands)
        /\ Quits(s.m_DCmds) => Quits(q)
        /\ GoesOn(s.m_DCmds, FALSE) => GoesOn(q, FALSE)
    BY <1>1, FrontGoesOn
  <1>3. t = [s EXCEPT !.m_DCmds = q] BY DEF Plugins
  <1>4. QueueHigh(s, c) = RunQueue(t) BY DEF QueueHigh
  <1> HIDE DEF q, t
  <1>5. t \in Plugins BY <1>2, <1>3 DEF Plugins
  <1>6. /\ t.m_DCmds = q /\ t.m_QueueBusy = FALSE
        /\ t.m_IsStarted = s.m_IsStarted
        /\ t.m_TemporaryBreak = s.m_TemporaryBreak /\ t.shown = s.shown /\ t.muted = s.muted
    BY <1>1, <1>3 DEF Plugins
  <1>7. Ending(t) BY <1>2, <1>6 DEF Ending
  <1>8. Steady(t) BY <1>1, <1>2, <1>6 DEF Steady
  <1>9. Seen(t, stopped) BY <1>2, <1>6 DEF Seen, Unseen
  <1>10. Carries(t, RunQueue(t)) BY <1>5, RunQueueCarries
  <1> QED BY <1>4, <1>7, <1>8, <1>9, <1>10 DEF Carries

LEMMA BpsCarry ==
    ASSUME NEW s \in Plugins, NEW bps
    PROVE  Carries(s, [s EXCEPT !.bps = bps])
  <1> DEFINE r == [s EXCEPT !.bps = bps]
  <1>1. /\ r.m_DCmds = s.m_DCmds /\ r.m_QueueBusy = s.m_QueueBusy
        /\ r.m_ProgramIsStopped = s.m_ProgramIsStopped /\ r.m_IsStarted = s.m_IsStarted
        /\ r.m_TemporaryBreak = s.m_TemporaryBreak /\ r.shown = s.shown /\ r.muted = s.muted
    BY DEF Plugins
  <1> HIDE DEF r
  <1>2. Carries(s, r) BY <1>1, OthersCarry
  <1> QED BY <1>2 DEF r

LEMMA ToldCarries ==
    ASSUME NEW s \in Plugins, NEW bps \in [Breakpoints -> Bps], NEW off \in SUBSET Breakpoints
    PROVE  Carries(s, Told(s, bps, off))
  <1> DEFINE r == Told(s, bps, off)
  <1>1. /\ r.m_DCmds = s.m_DCmds /\ r.m_QueueBusy = s.m_QueueBusy
        /\ r.m_ProgramIsStopped = s.m_ProgramIsStopped /\ r.m_IsStarted = s.m_IsStarted
        /\ r.m_TemporaryBreak = s.m_TemporaryBreak /\ r.shown = s.shown /\ r.muted = s.muted
    BY ToldKeeps
  <1> HIDE DEF r
  <1> QED BY <1>1 DEF r, Carries, Ending, Steady, Seen, Unseen, Seeks

LEMMA IndexCarries ==
    ASSUME NEW s \in Plugins, NEW b \in Breakpoints, NEW n \in Nat
    PROVE  Carries(s, [s EXCEPT !.bps[b].index = n])
  <1>1. [s EXCEPT !.bps[b].index = n] = [s EXCEPT !.bps = [s.bps EXCEPT ![b].index = n]]
    BY DEF Plugins
  <1> QED BY <1>1, BpsCarry

LEMMA AddToDriverCarries ==
    ASSUME NEW s \in Plugins, NEW b \in Breakpoints
    PROVE  Carries(s, AddToDriver(s, b))
  <1> DEFINE t == [s EXCEPT !.bps[b].index = Unset]
             c == IF s.bps[b].enabled THEN Cmd("break", b, Unset) ELSE NoText
  <1>1. c \in Commands /\ Unset \in Nat BY EditCommands DEF Unset
  <1>2. t \in Plugins /\ Carries(s, t) BY <1>1, IndexKeeps, IndexCarries
  <1>3. AddToDriver(s, b) = IF ~s.hasDriver THEN s ELSE QueueLow(t, c) BY DEF AddToDriver
  <1> HIDE DEF t, c
  <1>4. Carries(t, QueueLow(t, c)) BY <1>1, <1>2, QueueLowCarries
  <1> QED BY <1>2, <1>3, <1>4, CarriesIsAPreorder

LEMMA RemoveFromDriverCarries ==
    ASSUME NEW s \in Plugins, NEW b \in Breakpoints
    PROVE  Carries(s, RemoveFromDriver(s, b))
  <1> DEFINE c == Cmd("delete", b, s.bps[b].index)
  <1>1. s.bps[b].index \in Nat BY DEF Plugins, Bps
  <1>2. c \in Commands BY <1>1, EditCommands
  <1>3. RemoveFromDriver(s, b) = IF ~s.hasDriver \/ s.bps[b].index = Unset THEN s ELSE QueueLow(s, c)
    BY DEF RemoveFromDriver
  <1> HIDE DEF c
  <1>4. Carries(s, QueueLow(s, c)) BY <1>2, QueueLowCarries
  <1> QED BY <1>3, <1>4, CarriesIsAPreorder

LEMMA ResetBreakpointCarries ==
    ASSUME NEW s \in Plugins, NEW b \in Breakpoints
    PROVE  Carries(s, ResetBreakpoint(s, b))
  <1> DEFINE t == RemoveFromDriver(s, b)
  <1>1. Carries(s, t) /\ t \in Plugins
    BY RemoveFromDriverCarries, RemoveFromDriverKeeps, KeepsIsTyped
  <1>2. ResetBreakpoint(s, b) = AddToDriver(t, b) BY DEF ResetBreakpoint
  <1> HIDE DEF t
  <1>3. Carries(t, AddToDriver(t, b)) BY <1>1, AddToDriverCarries
  <1> QED BY <1>1, <1>2, <1>3, CarriesIsAPreorder

(* A new session begins with nothing hidden. *)
LEMMA ApplyBreakpointsCarries ==
    ASSUME NEW s \in Plugins, s.m_TemporaryBreak => s.muted, s.shown
    PROVE  /\ Steady(ApplyBreakpoints(s))
           /\ \A stopped \in BOOLEAN : Seen(ApplyBreakpoints(s), stopped)
  <1> DEFINE r == Applied(s)
  <1>1. /\ ApplyBreakpoints(s) = RunQueue(r) /\ r \in Plugins
        /\ r.m_TemporaryBreak = s.m_TemporaryBreak
        /\ r.shown = s.shown /\ r.muted = s.muted
    BY AppliedKeeps
  <1> HIDE DEF r
  <1>2. Steady(r) BY <1>1 DEF Steady
  <1>3. \A stopped \in BOOLEAN : Seen(r, stopped) BY <1>1 DEF Seen, Unseen
  <1>4. Carries(r, RunQueue(r)) BY <1>1, RunQueueCarries
  <1> QED BY <1>1, <1>2, <1>3, <1>4 DEF Carries

LEMMA NotesCarry ==
    ASSUME NEW s \in Plugins, NEW started \in BOOLEAN
    PROVE  LET r == [s EXCEPT !.m_IsStarted = started]
           IN  /\ r.m_IsStarted = started
               /\ r.m_DCmds = s.m_DCmds
               /\ Steady(s) => Steady(r)
               /\ \A stopped \in BOOLEAN : Seen(s, stopped) => Seen(r, stopped)
  <1> DEFINE r == [s EXCEPT !.m_IsStarted = started]
  <1>1. /\ r.m_DCmds = s.m_DCmds /\ r.m_QueueBusy = s.m_QueueBusy
        /\ r.m_ProgramIsStopped = s.m_ProgramIsStopped /\ r.m_IsStarted = started
        /\ r.m_TemporaryBreak = s.m_TemporaryBreak /\ r.shown = s.shown /\ r.muted = s.muted
    BY DEF Plugins
  <1> HIDE DEF r
  <1>2. Steady(s) => Steady(r) BY <1>1 DEF Steady
  <1>3. \A stopped \in BOOLEAN : Seen(s, stopped) => Seen(r, stopped)
    BY <1>1 DEF Seen, Unseen, Seeks
  <1> QED BY <1>1, <1>2, <1>3 DEF r

(* The record is as it should be, for a program that is stopped or not. *)
Minds(s, stopped) == Ending(s) /\ Steady(s) /\ Seen(s, stopped)

(* The user's Stop, or the end of the program. *)
LEMMA QuitMinds ==
    ASSUME NEW s \in Plugins, NEW stopped \in BOOLEAN
    PROVE  Minds([QueueLow(s, Plain("quit")) EXCEPT !.m_IsStarted = FALSE], stopped)
  <1> DEFINE c == Plain("quit")
             t == QueueLow(s, c)
             r == [t EXCEPT !.m_IsStarted = FALSE]
  <1>1. c \in Commands /\ c.kind = "quit" /\ FALSE \in BOOLEAN BY DEF Plain, Cmd, Commands
  <1> HIDE DEF c
  <1>2. t \in Plugins /\ Quits(t.m_DCmds) BY <1>1, QueueLowCarries
  <1> HIDE DEF t
  <1>3. r.m_DCmds = t.m_DCmds BY <1>1, <1>2, NotesCarry
  <1> HIDE DEF r
  <1>4. Quits(r.m_DCmds) BY <1>2, <1>3
  <1>5. Minds(r, stopped) BY <1>4, QuitsCarries DEF Minds
  <1> QED BY <1>5 DEF r, t, c

(* Continue lets a started program go on, at the latest when the queue comes to it. *)
LEMMA DriverContinuesMinds ==
    ASSUME NEW s \in Plugins, NEW stopped \in BOOLEAN, Ending(s), Seen(s, stopped)
    PROVE  /\ Ending(DriverContinues(s)) /\ Seen(DriverContinues(s), stopped)
           /\ Steady(s) => Steady(DriverContinues(s))
           /\ (s.m_QueueBusy => s.m_DCmds # <<>>) => Steady(DriverContinues(s))
  <1> DEFINE c == Plain(IF s.m_IsStarted THEN "cont" ELSE "run")
             t == QueueLow(s, c)
             r == [t EXCEPT !.m_IsStarted = TRUE]
  <1>1. c \in Commands /\ (s.m_IsStarted => c.kind = "cont") /\ TRUE \in BOOLEAN
    BY DEF Plain, Cmd, Commands
  <1>2. DriverContinues(s) = r BY DEF DriverContinues
  <1> HIDE DEF c
  <1>3. /\ t \in Plugins /\ Carries(s, t)
        /\ c.kind = "cont" /\ (s.m_QueueBusy => s.m_DCmds # <<>>) /\ Ending(s) =>
              Ending(t) /\ Steady(t)
    BY <1>1, QueueLowCarries
  <1>4. ~s.m_IsStarted => Quits(s.m_DCmds) BY DEF Ending
  <1>5. ~s.m_IsStarted => Steady(t) BY <1>3, <1>4, QuitsCarries DEF Carries
  <1>6. (s.m_QueueBusy => s.m_DCmds # <<>>) => Steady(t) BY <1>1, <1>3, <1>5
  <1>7. (Steady(s) => Steady(t)) /\ Seen(t, stopped) BY <1>3 DEF Carries
  <1> HIDE DEF t
  <1>8. /\ r.m_IsStarted = TRUE
        /\ Steady(t) => Steady(r)
        /\ Seen(t, stopped) => Seen(r, stopped)
    BY <1>1, <1>3, NotesCarry
  <1> HIDE DEF r
  <1>9. Ending(r) BY <1>8 DEF Ending
  <1> QED BY <1>2, <1>6, <1>7, <1>8, <1>9

LEMMA ContinueMinds ==
    ASSUME NEW s \in Plugins, NEW stopped \in BOOLEAN, Ending(s), Seen(s, stopped)
    PROVE  /\ Ending(Continue(s)) /\ Seen(Continue(s), stopped)
           /\ Steady(s) => Steady(Continue(s))
           /\ s.m_pProcess /\ s.hasDriver /\ (s.m_QueueBusy => s.m_DCmds # <<>>) =>
                 Steady(Continue(s))
  <1>1. Continue(s) = IF ~s.m_pProcess \/ ~s.hasDriver THEN s ELSE DriverContinues(s)
    BY DEF Continue
  <1> QED BY <1>1, DriverContinuesMinds

(* A break shows nothing yet; a temporary one has to be followed by a Continue. *)
LEMMA DoBreakMinds ==
    ASSUME NEW s \in Plugins, NEW temporary \in BOOLEAN, NEW stopped \in BOOLEAN,
           Ending(s), Seen(s, stopped)
    PROVE  /\ Ending(DoBreak(s, temporary)) /\ Seen(DoBreak(s, temporary), stopped)
           /\ ~temporary => Steady(DoBreak(s, temporary))
  <1> DEFINE r == DoBreak(s, temporary)
  <1>1. /\ r.m_DCmds = s.m_DCmds /\ r.m_QueueBusy = s.m_QueueBusy
        /\ r.m_ProgramIsStopped = s.m_ProgramIsStopped /\ r.m_IsStarted = s.m_IsStarted
        /\ r.m_TemporaryBreak = temporary /\ r.shown = s.shown /\ r.muted = s.muted
    BY DEF DoBreak, Plugins
  <1> HIDE DEF r
  <1>2. Ending(r) BY <1>1 DEF Ending
  <1>3. Seen(r, stopped) BY <1>1 DEF Seen, Unseen, Seeks
  <1>4. ~temporary => Steady(r) BY <1>1 DEF Steady
  <1> QED BY <1>2, <1>3, <1>4 DEF r

LEMMA OnCursorChangedMinds ==
    ASSUME NEW s \in Plugins, NEW stopped \in BOOLEAN, s.hasDriver, Ending(s), Steady(s)
    PROVE  Minds(OnCursorChanged(s), stopped)
  <1> DEFINE t == [s EXCEPT !.shown = TRUE]
             c == Plain("backtrace")
  <1>1. c \in Commands BY DEF Plain, Cmd, Commands
  <1>2. t \in Plugins BY ShownKeeps, KeepsIsTyped
  <1>3. OnCursorChanged(s) = IF s.m_TemporaryBreak THEN s
                             ELSE IF s.m_pProcess THEN QueueLow(t, c) ELSE t
    BY DEF OnCursorChanged, Plugins
  <1>4. /\ t.m_DCmds = s.m_DCmds /\ t.m_QueueBusy = s.m_QueueBusy
        /\ t.m_IsStarted = s.m_IsStarted
        /\ t.m_TemporaryBreak = s.m_TemporaryBreak /\ t.shown = TRUE /\ t.muted = s.muted
    BY DEF Plugins
  <1> HIDE DEF t, c
  <1>5. Ending(t) /\ Steady(t) /\ Seen(t, stopped)
    BY <1>4 DEF Ending, Steady, Seen, Unseen
  <1>6. Carries(t, QueueLow(t, c)) BY <1>1, <1>2, QueueLowCarries
  <1>7. s.m_TemporaryBreak => Seen(s, stopped) BY DEF Steady, Seen, Unseen
  <1> QED BY <1>3, <1>5, <1>6, <1>7 DEF Carries, Minds

-----------------------------------------------------------------------------
(* The parser of answers. *)
LEMMA BreakpointSetMinds ==
    ASSUME OneWishEach, NEW s \in Plugins, NEW b \in Breakpoints, NEW r \in Answers,
           NEW stopped \in BOOLEAN, ~s.m_QueueBusy, Ending(s), Steady(s),
           Unseen(s, stopped) => GoesOn(s.m_DCmds, FALSE)
    PROVE  Minds(BreakpointSet(s, b, r), stopped)
  <1> DEFINE known == Known(s, b, r)
             c == Cmd("condition", b, r.no)
             i == Cmd("ignore", b, r.no)
             conditioned == IF "condition" \in s.bps[b].wish /\ r.says # "pending"
                            THEN QueueHigh(known, c) ELSE known
             done == IF "ignore" \in s.bps[b].wish THEN QueueHigh(conditioned, i) ELSE conditioned
  <1>1. /\ c \in Commands /\ i \in Commands
        /\ BreakpointSet(s, b, r) = done
        /\ ~("condition" \in s.bps[b].wish /\ "ignore" \in s.bps[b].wish)
        /\ KnownBps(s, b, r) \in [Breakpoints -> Bps] /\ s.turnedDown \ {b} \in SUBSET Breakpoints
    BY KnownIs
  <1>2. known \in Plugins /\ Carries(s, known) BY <1>1, ToldKeeps, ToldCarries DEF Known
  <1>3. /\ known.m_DCmds = s.m_DCmds /\ known.m_QueueBusy = s.m_QueueBusy
        /\ known.shown = s.shown /\ known.muted = s.muted
    BY <1>1, ToldKeeps DEF Known
  <1>5. done = known \/ done = QueueHigh(known, c) \/ done = QueueHigh(known, i)
    BY <1>1
  <1> HIDE DEF known, c, i, conditioned, done
  <1>6. /\ ~known.m_QueueBusy /\ Ending(known) /\ Steady(known)
        /\ Unseen(known, stopped) => GoesOn(known.m_DCmds, FALSE)
    BY <1>2, <1>3 DEF Carries, Unseen
  <1>7. Seen(known, stopped)
    <2>1. s.m_QueueBusy = FALSE BY DEF Plugins
    <2> QED BY <1>3, <1>6, <2>1 DEF Seen
  <1>8. /\ Minds(known, stopped) /\ Minds(QueueHigh(known, c), stopped)
        /\ Minds(QueueHigh(known, i), stopped)
    BY <1>1, <1>2, <1>6, <1>7, QueueHighCarries DEF Minds
  <1>9. Minds(done, stopped) BY <1>5, <1>8
  <1> QED BY <1>1, <1>9

LEMMA BreakpointRefusedMinds ==
    ASSUME NEW s \in Plugins, NEW b \in Breakpoints, NEW stopped \in BOOLEAN, Minds(s, stopped)
    PROVE  Minds(BreakpointRefused(s, b), stopped)
  <1>1. BreakpointRefused(s, b) = Told(s, s.bps, s.turnedDown \cup {b}) BY BreakpointRefusedKeeps
  <1>2. s.bps \in [Breakpoints -> Bps] /\ s.turnedDown \cup {b} \in SUBSET Breakpoints BY DEF Plugins
  <1>3. Carries(s, Told(s, s.bps, s.turnedDown \cup {b})) BY <1>2, ToldCarries
  <1> QED BY <1>1, <1>3 DEF Carries, Minds

LEMMA ConditionRejectedMinds ==
    ASSUME NEW s \in Plugins, NEW b \in Breakpoints, NEW says, NEW stopped \in BOOLEAN,
           ~s.m_QueueBusy, Ending(s), Steady(s), Unseen(s, stopped) => GoesOn(s.m_DCmds, FALSE)
    PROVE  Minds(ConditionRejected(s, b, says), stopped)
  <1> DEFINE u == Unconditioned(s, b)
             c == Cmd("uncondition", b, s.bps[b].index)
             f == BreakpointRefused(s, b)
             d == RemoveFromDriver(f, b)
  <1>1. /\ c \in Commands
        /\ ConditionRejected(s, b, says) = IF says = "unconditional" THEN QueueHigh(u, c)
                                           ELSE DriverContinues(d)
        /\ LessBps(s, b) \in [Breakpoints -> Bps] /\ s.turnedDown \cup {b} \in SUBSET Breakpoints
    BY UnconditionedIs
  <1>2. u \in Plugins /\ Carries(s, u) BY <1>1, ToldKeeps, ToldCarries DEF Unconditioned
  <1>3. /\ u.m_DCmds = s.m_DCmds /\ u.m_QueueBusy = s.m_QueueBusy
        /\ u.shown = s.shown /\ u.muted = s.muted
    BY <1>1, ToldKeeps DEF Unconditioned
  <1>4. f \in Plugins BY BreakpointRefusedKeeps
  <1>5. Minds(s, stopped)
    <2>1. s.m_QueueBusy = FALSE BY DEF Plugins
    <2> QED BY <2>1 DEF Minds, Seen
  <1>6. Minds(f, stopped) BY <1>5, BreakpointRefusedMinds
  <1> HIDE DEF u, c, f
  <1>7. d \in Plugins /\ Carries(f, d) BY <1>4, RemoveFromDriverKeeps, RemoveFromDriverCarries, KeepsIsTyped
  <1> HIDE DEF d
  <1>8. Minds(d, stopped) BY <1>6, <1>7 DEF Carries, Minds
  <1>9. Minds(DriverContinues(d), stopped) BY <1>7, <1>8, DriverContinuesMinds DEF Minds
  <1>10. /\ ~u.m_QueueBusy /\ Ending(u) /\ Steady(u)
         /\ Unseen(u, stopped) => GoesOn(u.m_DCmds, FALSE)
    BY <1>2, <1>3 DEF Carries, Unseen
  <1>11. Minds(QueueHigh(u, c), stopped) BY <1>1, <1>2, <1>10, QueueHighCarries DEF Minds
  <1> QED BY <1>1, <1>9, <1>11

LEMMA HeadTaken ==
    ASSUME NEW s \in Plugins, s.m_QueueBusy, s.m_DCmds # <<>>, s.m_DCmds[1].kind # "quit",
           Ending(s), Steady(s)
    PROVE  LET a == RemoveTopCommand([s EXCEPT !.m_QueueBusy = FALSE])
           IN  /\ Ending(a) /\ Steady(a)
               /\ GoesOn(s.m_DCmds, s.m_QueueBusy) => GoesOn(a.m_DCmds, FALSE)
               /\ a.m_QueueBusy = FALSE /\ a.hasDriver = s.hasDriver
               /\ a.shown = s.shown /\ a.muted = s.muted
  <1> DEFINE a == RemoveTopCommand([s EXCEPT !.m_QueueBusy = FALSE])
             q == Tail(s.m_DCmds)
  <1>1. s.m_DCmds \in Seq(Commands) /\ s.m_QueueBusy = TRUE BY DEF Plugins
  <1>2. a = [s EXCEPT !.m_QueueBusy = FALSE, !.m_DCmds = q]
    BY DEF RemoveTopCommand, Plugins
  <1>3. /\ Quits(s.m_DCmds) => Quits(q)
        /\ GoesOn(s.m_DCmds, TRUE) => GoesOn(q, FALSE)
    BY <1>1, TailGoesOn
  <1> HIDE DEF q, a
  <1>4. /\ a.m_DCmds = q /\ a.m_QueueBusy = FALSE
        /\ a.m_IsStarted = s.m_IsStarted /\ a.hasDriver = s.hasDriver
        /\ a.m_TemporaryBreak = s.m_TemporaryBreak /\ a.shown = s.shown /\ a.muted = s.muted
    BY <1>2 DEF Plugins
  <1>5. Ending(a) BY <1>3, <1>4 DEF Ending
  <1>6. Steady(a) BY <1>1, <1>3, <1>4 DEF Steady
  <1> QED BY <1>1, <1>3, <1>4, <1>5, <1>6 DEF a

LEMMA HeadIs ==
    ASSUME NEW s, NEW c, NEW refused, Sound(s, <<c>>, refused)
    PROVE  /\ s.m_QueueBusy /\ s.m_DCmds # <<>> /\ s.m_DCmds[1] = c
           /\ s.m_ProgramIsStopped <=> ~Continues(c)
  <1>1. <<c>> # <<>> OBVIOUS
  <1>2. /\ s.m_QueueBusy /\ s.m_DCmds # <<>> /\ <<c>> = <<s.m_DCmds[1]>>
        /\ s.m_ProgramIsStopped <=> ~Continues(s.m_DCmds[1])
    BY <1>1 DEF Sound, Flight
  <1>3. s.m_DCmds[1] = c BY <1>2
  <1> QED BY <1>2, <1>3

LEMMA PlainAnswerMinds ==
    ASSUME OneWishEach, NEW s \in Plugins, NEW r \in Answers, NEW refused,
           NEW stopped \in BOOLEAN, s.m_pProcess, s.hasDriver,
           Sound(s, <<r.of>>, refused), Genuine(r, refused), ~Continues(r.of),
           Minds(s, stopped), r.of.kind # "quit",
           r.of.kind = "info frame" => r.frame = stopped
    PROVE  Minds(ParseOutput(s, r), stopped)
  <1> DEFINE a == RemoveTopCommand([s EXCEPT !.m_QueueBusy = FALSE])
             b == CommandParses(a, r.of, r)
             c == RunQueue(b)
  <1>1. /\ s.m_QueueBusy /\ s.m_DCmds # <<>> /\ s.m_DCmds[1] = r.of
        /\ s.m_ProgramIsStopped
    BY HeadIs
  <1>2. r.of \in Commands /\ r.no \in Nat /\ r.frame \in BOOLEAN BY DEF Answers
  <1>3. TakeAnswer(s, r) = c /\ a \in Plugins BY AnsweredHead
  <1>4. /\ Ending(a) /\ Steady(a)
        /\ GoesOn(s.m_DCmds, s.m_QueueBusy) => GoesOn(a.m_DCmds, FALSE)
        /\ a.m_QueueBusy = FALSE /\ a.hasDriver
        /\ a.shown = s.shown /\ a.muted = s.muted
    BY <1>1, HeadTaken DEF Minds
  <1>5. ParseOutput(s, r) = RunQueue(c) BY <1>3, PlainAnswer
  <1> HIDE DEF a
  <1>6. b \in Plugins BY <1>2, <1>3, CommandParsesKeeps DEF Typed
  <1>7. Minds(b, stopped)
    <2>1. CASE r.of.kind = "info frame"
      <3>1. b = IF r.frame THEN OnCursorChanged(a) ELSE a BY <2>1 DEF CommandParses
      <3>2. Minds(OnCursorChanged(a), stopped) BY <1>3, <1>4, OnCursorChangedMinds
      <3>3. ~r.frame => Seen(a, stopped) BY <2>1 DEF Seen, Unseen
      <3> QED BY <1>4, <3>1, <3>2, <3>3 DEF Minds
    <2>2. CASE r.of.kind # "info frame"
      <3>1. ~Seeks(s) BY <1>1, <2>2 DEF Seeks
      <3>2. Unseen(a, stopped) => GoesOn(a.m_DCmds, FALSE)
        BY <1>4, <3>1 DEF Minds, Seen, Unseen
      <3>3. Minds(a, stopped) BY <1>4, <3>2 DEF Minds, Seen
      <3>4. \/ b = a
            \/ b = BreakpointSet(a, r.of.bp, r) /\ r.of.kind = "break"
            \/ b = BreakpointRefused(a, r.of.bp) /\ r.of.kind = "break"
            \/ b = ConditionRejected(a, r.of.bp, r.says) /\ r.of.kind = "condition"
        BY <2>2 DEF CommandParses
      <3>5. r.of.kind \in {"break", "condition"} => r.of.bp \in Breakpoints BY <1>2 DEF Commands
      <3>6. r.of.kind = "break" =>
               /\ Minds(BreakpointSet(a, r.of.bp, r), stopped)
               /\ Minds(BreakpointRefused(a, r.of.bp), stopped)
        BY <1>3, <1>4, <3>2, <3>3, <3>5, BreakpointSetMinds, BreakpointRefusedMinds
      <3>7. r.of.kind = "condition" => Minds(ConditionRejected(a, r.of.bp, r.says), stopped)
        BY <1>3, <1>4, <3>2, <3>5, ConditionRejectedMinds
      <3> HIDE DEF b
      <3> QED BY <3>3, <3>4, <3>6, <3>7
    <2> QED BY <2>1, <2>2
  <1> HIDE DEF b
  <1>8. Carries(b, c) /\ c \in Plugins BY <1>6, RunQueueCarries, RunQueueKeeps, KeepsIsTyped
  <1> HIDE DEF c
  <1>9. Carries(c, RunQueue(c)) BY <1>8, RunQueueCarries
  <1> QED BY <1>5, <1>7, <1>8, <1>9 DEF Minds, Carries

(* A breakpoint was hit: what follows is queued behind the rest. *)
LEMMA BreakpointHitCarries ==
    ASSUME NEW s \in Plugins, NEW r \in Answers
    PROVE  Carries(s, BreakpointHit(s, r))
  <1> DEFINE b == ByNumber(s, r.hit)
             u == Flagged(s, b)
             c == Owed(s, b, r.hit)
  <1>2. \/ BreakpointHit(s, r) = s
        \/ /\ BreakpointHit(s, r) = QueueLow(u, c) /\ c \in Commands
           /\ FlaggedBps(s, b) \in [Breakpoints -> Bps]
    BY BreakpointHitIs
  <1>4. FlaggedBps(s, b) \in [Breakpoints -> Bps] => u \in Plugins /\ Carries(s, u)
    BY BpsKeeps, BpsCarry DEF Flagged
  <1> HIDE DEF u, c
  <1>5. u \in Plugins /\ c \in Commands => Carries(u, QueueLow(u, c)) BY QueueLowCarries
  <1> QED BY <1>2, <1>4, <1>5, CarriesIsAPreorder

LEMMA LateAnswerMinds ==
    ASSUME NEW s \in Plugins, NEW r \in Answers, NEW refused,
           NEW stopped \in BOOLEAN, s.m_pProcess, s.hasDriver,
           Sound(s, <<r.of>>, refused), Genuine(r, refused), Continues(r.of),
           Minds(s, stopped)
    PROVE  Minds(ParseOutput(s, r), stopped)
  <1> DEFINE top == RemoveTopCommand([s EXCEPT !.m_QueueBusy = FALSE])
             a == BreakpointHit(top, r)
  <1>1. r.of \in Commands /\ r.of.kind # "quit" BY DEF Answers, Continues
  <1>2. /\ s.m_QueueBusy /\ s.m_DCmds # <<>> /\ s.m_DCmds[1] = r.of
    BY HeadIs
  <1>11. /\ TakeAnswer(s, r) = RunQueue(CommandParses(top, r.of, r))
         /\ top \in Plugins /\ ~top.m_ProgramIsStopped /\ ~top.m_QueueBusy
    BY AnsweredHead
  <1>12. /\ Ending(top) /\ Steady(top)
         /\ top.m_QueueBusy = FALSE /\ top.hasDriver
    BY <1>1, <1>2, HeadTaken DEF Minds
  <1> HIDE DEF top
  <1>5. RunQueue(top) = top BY <1>11, Zenon DEF RunQueue
  <1>6. TakeAnswer(s, r) = top /\ BreakpointHit(TakeAnswer(s, r), r) = a
    BY <1>1, <1>5, <1>11, CommandParsesKeeps
  <1>3. a \in Plugins /\ ~a.m_ProgramIsStopped BY <1>11, HitWhileRunning
  <1>4. /\ Ending(a) /\ Steady(a)
        /\ a.m_QueueBusy = FALSE /\ a.hasDriver
    <2>1. Carries(top, a) BY <1>11, BreakpointHitCarries
    <2>2. a.hasDriver = top.hasDriver
      BY <1>11, BreakpointHitKeeps, KeepsIsTyped DEF Typed
    <2>3. a.m_QueueBusy = top.m_QueueBusy BY <1>11, HitWhileRunning
    <2> QED BY <1>12, <2>1, <2>2, <2>3 DEF Carries
  <1> HIDE DEF a
  <1>7. ASSUME NEW d \in Plugins, Minds(d, stopped)
        PROVE  Minds(RunQueue(d), stopped)
    BY <1>7, RunQueueCarries DEF Minds, Carries
  <1>8. CASE r.lines = {"exit"}
    <2> DEFINE t == [a EXCEPT !.m_ProgramIsStopped = TRUE]
               c == Plain("quit")
               low == QueueLow(t, c)
               d == [low EXCEPT !.m_IsStarted = FALSE]
    <2>1. ReadLines(a, r) = d BY <1>8 DEF ReadLines
    <2>2. t \in Plugins BY <1>3, StoppedTyped DEF Typed
    <2>3. c \in Commands /\ c.kind = "quit" /\ FALSE \in BOOLEAN BY DEF Plain, Cmd, Commands
    <2>4. Minds(d, stopped)
      <3> HIDE DEF t
      <3> QED BY <2>2, QuitMinds
    <2> HIDE DEF t, c
    <2>5. low \in Plugins /\ Quits(low.m_DCmds) BY <2>2, <2>3, QueueLowCarries
    <2> HIDE DEF low
    <2>6. d \in Plugins /\ d.m_DCmds = low.m_DCmds
      BY <2>3, <2>5, StartedKeeps, KeepsIsTyped, NotesCarry
    <2> HIDE DEF d
    <2>7. d.m_DCmds # <<>> BY <2>5, <2>6, EmptyEnds
    <2>8. SeekCursor(d, r) = d BY <2>7 DEF SeekCursor
    <2>9. CursorChanges(d, r) = d BY <1>8 DEF CursorChanges
    <2>10. ParseOutput(s, r) = RunQueue(d) BY <1>6, <2>1, <2>8, <2>9 DEF ParseOutput
    <2> QED BY <1>7, <2>4, <2>6, <2>10
  <1>9. CASE "cursor" \in r.lines
    <2> DEFINE b == [a EXCEPT !.m_ProgramIsStopped = TRUE, !.m_QueueBusy = FALSE]
               d == OnCursorChanged(b)
    <2>1. "exit" \notin r.lines BY <1>9 DEF Genuine
    <2>2. ReadLines(a, r) = a \/ ReadLines(a, r) = b BY <2>1 DEF ReadLines
    <2>3. b \in Plugins /\ b.hasDriver = a.hasDriver BY <1>3, StopTyped DEF Typed
    <2>4. b = [b EXCEPT !.m_ProgramIsStopped = TRUE, !.m_QueueBusy = FALSE]
      BY <1>3 DEF Plugins
    <2>5. CursorChanges(a, r) = d BY <1>9 DEF CursorChanges
    <2>6. /\ b.m_DCmds = a.m_DCmds /\ b.m_QueueBusy = FALSE
          /\ b.m_IsStarted = a.m_IsStarted
          /\ b.m_TemporaryBreak = a.m_TemporaryBreak /\ b.muted = a.muted
      BY <1>3 DEF Plugins
    <2> HIDE DEF b
    <2>7. CursorChanges(b, r) = d BY <1>9, <2>4 DEF CursorChanges
    <2>8. SeekCursor(a, r) = a /\ SeekCursor(b, r) = b BY <1>9 DEF SeekCursor
    <2>9. Ending(b) /\ Steady(b) BY <1>4, <2>6 DEF Ending, Steady
    <2>10. Minds(d, stopped) /\ d \in Plugins
      BY <1>4, <2>3, <2>9, OnCursorChangedMinds, OnCursorChangedKeeps, KeepsIsTyped
    <2> HIDE DEF d
    <2>11. ParseOutput(s, r) = RunQueue(d) BY <1>6, <2>2, <2>5, <2>7, <2>8 DEF ParseOutput
    <2> QED BY <1>7, <2>10, <2>11
  <1>10. CASE r.lines = {}
    <2> DEFINE d == SeekCursor(a, r)
    <2>1. ReadLines(a, r) = a BY <1>10 DEF ReadLines
    <2>2. CursorChanges(d, r) = d BY <1>10 DEF CursorChanges
    <2>3. ParseOutput(s, r) = RunQueue(d) BY <1>6, <2>1, <2>2 DEF ParseOutput
    <2>4. d \in Plugins BY <1>3, SeekCursorTyped DEF Typed
    <2>5. ASSUME a.m_DCmds # <<>> PROVE Minds(d, stopped)
      <3>1. d = a BY <2>5 DEF SeekCursor
      <3>2. Seen(a, stopped) BY <1>3, <2>5 DEF Seen, Seeks
      <3> HIDE DEF d
      <3> QED BY <1>4, <3>1, <3>2 DEF Minds
    <2>6. ASSUME a.m_DCmds = <<>> PROVE Minds(d, stopped)
      <3> DEFINE c == Plain("info frame")
                 t == [a EXCEPT !.m_DCmds = Append(@, c)]
      <3>1. c \in Commands /\ c.kind = "info frame" BY DEF Plain, Cmd, Commands
      <3>2. d = [QueueLow(a, c) EXCEPT !.m_ProgramIsStopped = TRUE]
        BY <1>3, <1>10, <2>6 DEF SeekCursor
      <3> HIDE DEF c
      <3>3. Append(a.m_DCmds, c) = <<c>> BY <2>6
      <3>4. QueueLow(a, c) = t
        <4>1. t.m_ProgramIsStopped = a.m_ProgramIsStopped BY <1>3 DEF Plugins
        <4> HIDE DEF t
        <4>2. RunQueue(t) = t BY <1>3, <4>1, Zenon DEF RunQueue
        <4> QED BY <4>2 DEF QueueLow, t
      <3>5. t = [a EXCEPT !.m_DCmds = <<c>>] BY <1>3, <3>3 DEF Plugins
      <3> HIDE DEF d, t
      <3>6. d = [a EXCEPT !.m_DCmds = <<c>>, !.m_ProgramIsStopped = TRUE]
        BY <1>3, <3>2, <3>4, <3>5 DEF Plugins
      <3>7. /\ d.m_DCmds = <<c>>
            /\ d.m_IsStarted = a.m_IsStarted /\ d.muted = a.muted
            /\ d.m_TemporaryBreak = a.m_TemporaryBreak
        BY <1>3, <3>6 DEF Plugins
      <3>8. Ending(d) BY <1>4, <2>6, <3>7, EmptyEnds DEF Ending
      <3>9. Steady(d) BY <1>4, <2>6, <3>7, EmptyEnds DEF Steady
      <3>10. <<c>> # <<>> /\ <<c>>[1] = c OBVIOUS
      <3>11. Seen(d, stopped) BY <3>1, <3>7, <3>10 DEF Seen, Seeks
      <3> QED BY <3>8, <3>9, <3>11 DEF Minds
    <2> HIDE DEF d
    <2> QED BY <1>7, <2>3, <2>4, <2>5, <2>6
  <1>13. r.lines = {"exit"} \/ "cursor" \in r.lines \/ r.lines = {}
    BY DEF Genuine, Answers
  <1> QED BY <1>8, <1>9, <1>10, <1>13

-----------------------------------------------------------------------------
(* The steps. *)
LEMMA MindNext ==
    MindInv' <=>
        (Undisturbed' =>
            /\ Minds(ide', Stops')
            /\ gdb'.state = "running" => gdb'.program = "running"
            /\ fromGdb' # <<>> =>
                  /\ fromGdb'[1].of.kind # "quit"
                  /\ fromGdb'[1].of.kind = "info frame" => fromGdb'[1].frame = Stops')
  BY DEF MindInv, Minds

LEMMA MindNow ==
    ASSUME MindInv, Undisturbed
    PROVE  /\ Minds(ide, Stops) /\ Stops \in BOOLEAN
           /\ gdb.state = "running" => gdb.program = "running"
           /\ fromGdb # <<>> =>
                 /\ fromGdb[1].of.kind # "quit"
                 /\ fromGdb[1].of.kind = "info frame" => fromGdb[1].frame = Stops
  BY DEF MindInv, Minds, Stops

LEMMA PluginMinds ==
    ASSUME MindInv, gdb' = gdb, fromGdb' = fromGdb, ide'.hasDriver = ide.hasDriver,
           Undisturbed => Minds(ide', Stops)
    PROVE  MindInv'
  <1>1. (Undisturbed' <=> Undisturbed) /\ Stops' = Stops BY DEF Undisturbed, Stops
  <1> QED BY <1>1, MindNow, MindNext

(* An edit: a temporary break, if the program runs, and what lets it go on.   *)
LEMMA EditMinds ==
    ASSUME QueueInv, MindInv, Undisturbed
    PROVE  /\ Interrupted(ide) \in Plugins
           /\ \A t : Keeps(Interrupted(ide), t) /\ Carries(Interrupted(ide), t) =>
                        Minds(Resumed(t), Stops)
  <1> DEFINE i == Interrupted(ide)
  <1>1. ide \in Plugins BY TypeParts DEF QueueInv
  <1>2. i \in Plugins /\ Keeps(ide, i) BY <1>1, InterruptedKeeps, KeepsIsTyped
  <1>3. Minds(ide, Stops) /\ Stops \in BOOLEAN BY MindNow
  <1>4. TRUE \in BOOLEAN OBVIOUS
  <1>5. Ending(i) /\ Seen(i, Stops)
    BY <1>1, <1>3, <1>4, DoBreakMinds DEF Interrupted, Minds
  <1>6. IsStopped(ide) => i = ide BY DEF Interrupted
  <1> HIDE DEF i
  <1>7. ide.m_pProcess /\ ide.hasDriver BY DEF QueueInv, SessionInv, Undisturbed
  <1>8. ASSUME NEW t, Keeps(i, t), Carries(i, t) PROVE Minds(Resumed(t), Stops)
    <2>1. t \in Plugins BY <1>8, KeepsIsTyped
    <2>2. Ending(t) /\ Seen(t, Stops) BY <1>3, <1>5, <1>8 DEF Carries
    <2>3. CASE IsStopped(ide)
      <3>1. Steady(t) BY <1>3, <1>6, <1>8, <2>3 DEF Minds, Carries
      <3>2. Resumed(t) = t BY <2>3 DEF Resumed
      <3> QED BY <2>2, <3>1, <3>2 DEF Minds
    <2>4. CASE ~IsStopped(ide)
      <3>1. Resumed(t) = Continue(t) BY <2>4 DEF Resumed
      <3>2. Keeps(ide, t) BY <1>2, <1>8, KeepsIsAPreorder
      <3>3. Sound(ide, Elsewhere, gdb.refused) BY DEF QueueInv, TalkInv
      <3>4. t.m_pProcess /\ t.hasDriver BY <1>7, <3>2 DEF Keeps, Typed
      <3>5. Sound(t, Elsewhere, gdb.refused) BY <1>7, <3>2, <3>3 DEF Keeps
      <3>6. t.m_QueueBusy => t.m_DCmds # <<>> BY <3>5 DEF Sound, Flight
      <3> QED BY <1>3, <2>1, <2>2, <3>1, <3>4, <3>6, ContinueMinds DEF Minds
    <2> QED BY <2>3, <2>4
  <1> QED BY <1>2, <1>8 DEF i

LEMMA ListCarries ==
    ASSUME NEW s \in Plugins, NEW b \in Breakpoints
    PROVE  /\ Carries(s, [s EXCEPT !.bps[b].enabled = TRUE, !.made = @ \cup {b},
                                   !.m_Breakpoints = Append(@, b)])
           /\ Carries(s, [s EXCEPT !.bps[b].enabled = ~@])
           /\ Carries(s, [s EXCEPT !.m_Breakpoints = RemoveFirst(@, b)])
           /\ \A bp \in Bps : Carries(s, [s EXCEPT !.bps[b] = bp])
  <1>1. ASSUME NEW bps, NEW made, NEW list
        PROVE  Carries(s, [s EXCEPT !.bps = bps, !.made = made, !.m_Breakpoints = list])
    <2> DEFINE r == [s EXCEPT !.bps = bps, !.made = made, !.m_Breakpoints = list]
    <2>1. /\ r.m_DCmds = s.m_DCmds /\ r.m_QueueBusy = s.m_QueueBusy
          /\ r.m_ProgramIsStopped = s.m_ProgramIsStopped /\ r.m_IsStarted = s.m_IsStarted
          /\ r.m_TemporaryBreak = s.m_TemporaryBreak /\ r.shown = s.shown /\ r.muted = s.muted
      BY DEF Plugins
    <2> HIDE DEF r
    <2>2. Carries(s, r) BY <2>1, OthersCarry
    <2> QED BY <2>2 DEF r
  <1>2. [s EXCEPT !.bps[b].enabled = TRUE, !.made = @ \cup {b}, !.m_Breakpoints = Append(@, b)]
          = [s EXCEPT !.bps = [s.bps EXCEPT ![b].enabled = TRUE], !.made = s.made \cup {b},
                      !.m_Breakpoints = Append(s.m_Breakpoints, b)]
    BY DEF Plugins
  <1>3. [s EXCEPT !.bps[b].enabled = ~@] = [s EXCEPT !.bps = [s.bps EXCEPT ![b].enabled = ~@]]
    BY DEF Plugins
  <1>4. [s EXCEPT !.m_Breakpoints = RemoveFirst(@, b)]
          = [s EXCEPT !.bps = s.bps, !.made = s.made,
                      !.m_Breakpoints = RemoveFirst(s.m_Breakpoints, b)]
    BY DEF Plugins
  <1>5. ASSUME NEW bp \in Bps
        PROVE  Carries(s, [s EXCEPT !.bps[b] = bp])
    <2>1. [s EXCEPT !.bps[b] = bp] = [s EXCEPT !.bps = [s.bps EXCEPT ![b] = bp]] BY DEF Plugins
    <2> QED BY <2>1, BpsCarry
  <1>6. Carries(s, [s EXCEPT !.bps[b].enabled = TRUE, !.made = @ \cup {b},
                             !.m_Breakpoints = Append(@, b)])
    BY ONLY <1>1, <1>2
  <1>7. Carries(s, [s EXCEPT !.bps[b].enabled = ~@]) BY <1>3, BpsCarry
  <1>8. Carries(s, [s EXCEPT !.m_Breakpoints = RemoveFirst(@, b)]) BY ONLY <1>1, <1>4
  <1> QED BY ONLY <1>5, <1>6, <1>7, <1>8

LEMMA EditsMind ==
    ASSUME QueueInv, MindInv, NEW b \in Breakpoints,
           AddBreakpoint(b) \/ DeleteBreakpoint(b) \/ EnableBreakpoint(b) \/ OpenDialog(b)
    PROVE  MindInv'
  <1> DEFINE i == Interrupted(ide)
             added == [i EXCEPT !.bps[b].enabled = TRUE, !.made = @ \cup {b},
                                !.m_Breakpoints = Append(@, b)]
             removed == [i EXCEPT !.m_Breakpoints = RemoveFirst(@, b)]
             turned == [i EXCEPT !.bps[b].enabled = ~@]
  <1>1. i \in Plugins /\ ide \in Plugins BY EditKeeps
  <1>2. /\ gdb' = gdb /\ fromGdb' = fromGdb
    BY DEF AddBreakpoint, DeleteBreakpoint, EnableBreakpoint, OpenDialog
  <1>3. /\ AddBreakpoint(b) => Keeps(i, added)
        /\ Keeps(i, removed) /\ Keeps(i, turned)
        /\ Carries(i, added) /\ Carries(i, removed) /\ Carries(i, turned)
    <2> HIDE DEF i
    <2>1. i.made = ide.made BY <1>1, InterruptedIs DEF i
    <2>2. AddBreakpoint(b) => b \notin i.made BY <2>1 DEF AddBreakpoint
    <2> QED BY <1>1, <2>2, ListKeeps, ListCarries
  <1>4. /\ AddBreakpoint(b) => ide' = Resumed(AddToDriver(added, b))
        /\ DeleteBreakpoint(b) => ide' = Resumed(RemoveFromDriver(removed, b))
        /\ EnableBreakpoint(b) => ide' = Resumed(ResetBreakpoint(turned, b))
        /\ OpenDialog(b) => ide' = ide
    BY DEF AddBreakpoint, DeleteBreakpoint, EnableBreakpoint, OpenDialog
  <1> HIDE DEF added, removed, turned
  <1>5. /\ AddBreakpoint(b) => added \in Plugins
        /\ removed \in Plugins /\ turned \in Plugins
    BY <1>3, KeepsIsTyped
  <1>6. \/ ide' = ide
        \/ \E t : Keeps(i, t) /\ Carries(i, t) /\ ide' = Resumed(t)
    <2>1. AddBreakpoint(b) =>
             Keeps(i, AddToDriver(added, b)) /\ Carries(i, AddToDriver(added, b))
      BY <1>3, <1>5, AddToDriverKeeps, AddToDriverCarries, KeepsIsAPreorder, CarriesIsAPreorder
    <2>2. /\ Keeps(i, RemoveFromDriver(removed, b)) /\ Carries(i, RemoveFromDriver(removed, b))
      BY <1>3, <1>5, RemoveFromDriverKeeps, RemoveFromDriverCarries, KeepsIsAPreorder,
         CarriesIsAPreorder
    <2>3. /\ Keeps(i, ResetBreakpoint(turned, b)) /\ Carries(i, ResetBreakpoint(turned, b))
      BY <1>3, <1>5, ResetBreakpointKeeps, ResetBreakpointCarries, KeepsIsAPreorder,
         CarriesIsAPreorder
    <2> QED BY <1>4, <2>1, <2>2, <2>3
  <1>7. ide'.hasDriver = ide.hasDriver
    <2>1. ASSUME NEW t, Keeps(i, t), Carries(i, t), ide' = Resumed(t)
          PROVE  ide'.hasDriver = ide.hasDriver
      <3>1. Keeps(t, t) BY <2>1, KeepsIsTyped, KeepsIsAPreorder
      <3>2. Keeps(ide, Resumed(t)) BY <2>1, <3>1, EditKeeps
      <3> QED BY <2>1, <3>2 DEF Keeps, Typed
    <2> QED BY <1>6, <2>1
  <1>8. ASSUME Undisturbed PROVE Minds(ide', Stops) BY <1>6, <1>8, EditMinds, MindNow
  <1> QED BY <1>2, <1>7, <1>8, PluginMinds

LEMMA CloseDialogMinds ==
    ASSUME QueueInv, MindInv, NEW wish \in Wishes, CloseDialog(wish)
    PROVE  MindInv'
  <1> DEFINE b == dialog.bp
             bp == [dialog.copy EXCEPT !.wish = wish]
             i == Interrupted(ide)
             t == [i EXCEPT !.bps[b] = bp]
             r == ResetBreakpoint(t, b)
  <1>1. i \in Plugins BY EditKeeps
  <1>2. dialog \in Dialogs BY TypeParts DEF QueueInv, RestOk
  <1>3. b \in Breakpoints BY <1>2 DEF CloseDialog, Dialogs
  <1>4. bp \in Bps
    <2>1. dialog.copy \in Bps /\ wish \in Wishable BY <1>2, LessIsWishable DEF Dialogs
    <2> QED BY <2>1 DEF Bps
  <1>5. ide' = Resumed(r) /\ gdb' = gdb /\ fromGdb' = fromGdb BY DEF CloseDialog
  <1> HIDE DEF b, bp, i
  <1>6. Keeps(i, t) /\ Carries(i, t) BY <1>1, <1>3, <1>4, ListKeeps, ListCarries
  <1> HIDE DEF t
  <1>7. t \in Plugins BY <1>6, KeepsIsTyped
  <1>8. Keeps(t, r) /\ Carries(t, r) BY <1>3, <1>7, ResetBreakpointKeeps, ResetBreakpointCarries
  <1> HIDE DEF r
  <1>9. Keeps(i, r) /\ Carries(i, r) BY <1>6, <1>8, KeepsIsAPreorder, CarriesIsAPreorder
  <1>10. Keeps(ide, ide') BY <1>5, <1>6, <1>8, EditKeeps DEF i
  <1>11. ASSUME Undisturbed PROVE Minds(ide', Stops) BY <1>5, <1>9, <1>11, EditMinds DEF i
  <1> QED BY <1>5, <1>10, <1>11, PluginMinds DEF Keeps, Typed

LEMMA RunsMind ==
    ASSUME QueueInv, MindInv,
           UserContinue \/ UserBreak \/ UserStop \/ UserStep("step") \/ UserStep("finish")
    PROVE  MindInv'
  <1>1. ide \in Plugins BY TypeParts DEF QueueInv
  <1>2. gdb' = gdb /\ fromGdb' = fromGdb
    BY DEF UserContinue, UserBreak, UserStop, UserStep
  <1>3. FALSE \in BOOLEAN OBVIOUS
  <1> DEFINE broken == DoBreak(ide, FALSE)
  <1>4. Keeps(ide, broken) /\ broken \in Plugins BY <1>1, <1>3, DoBreakKeeps, KeepsIsTyped
  <1>5. ASSUME Undisturbed PROVE Minds(broken, Stops)
    BY <1>1, <1>3, <1>5, MindNow, DoBreakMinds DEF Minds
  <1>6. UserBreak => ide' = broken BY DEF UserBreak
  <1> DEFINE s == IF IsStopped(ide) THEN ide ELSE broken
             c == Plain("quit")
             r == [QueueLow(s, c) EXCEPT !.m_IsStarted = FALSE]
  <1>7. UserStop => ide' = IF s.hasDriver THEN r ELSE s BY DEF UserStop
  <1> HIDE DEF broken
  <1>8. CASE UserContinue
    <2>1. ide' = Continue(ide) BY <1>8 DEF UserContinue
    <2>2. Keeps(ide, ide') BY <1>1, <2>1, ContinueKeeps
    <2>3. Undisturbed => Minds(ide', Stops)
      BY <1>1, <2>1, MindNow, ContinueMinds DEF Minds
    <2> QED BY <1>2, <2>2, <2>3, PluginMinds DEF Keeps, Typed
  <1>9. CASE UserBreak
    BY <1>2, <1>4, <1>5, <1>6, <1>9, PluginMinds DEF Keeps, Typed
  <1>10. CASE UserStop
    <2>1. Keeps(ide, s) /\ s \in Plugins BY <1>1, <1>4, KeepsIsAPreorder
    <2>2. Undisturbed => Minds(s, Stops) BY <1>5, MindNow
    <2> HIDE DEF s
    <2>3. c \in Commands BY DEF Plain, Cmd, Commands
    <2>4. Undisturbed => Minds(r, Stops) BY <2>1, MindNow, QuitMinds
    <2> HIDE DEF c
    <2>5. Keeps(s, r) BY <1>3, <2>1, <2>3, QueueAndNote
    <2> HIDE DEF r
    <2>6. ide'.hasDriver = ide.hasDriver BY <1>7, <1>10, <2>1, <2>5 DEF Keeps, Typed
    <2>7. Undisturbed => Minds(ide', Stops) BY <1>7, <1>10, <2>2, <2>4
    <2> QED BY <1>2, <2>6, <2>7, PluginMinds
  <1>11. ASSUME NEW kind \in {"step", "finish"}, UserStep(kind) PROVE MindInv'
    <2> DEFINE low == QueueLow(ide, Plain(kind))
    <2>1. Plain(kind) \in Commands BY <1>11 DEF Plain, Cmd, Commands
    <2>2. ide' = low \/ ide' = ide BY <1>11 DEF UserStep
    <2>3. Keeps(ide, low) /\ Carries(ide, low) BY <1>1, <2>1, QueueLowKeeps, QueueLowCarries
    <2> HIDE DEF low
    <2>4. ide'.hasDriver = ide.hasDriver BY <2>2, <2>3 DEF Keeps, Typed
    <2>5. Undisturbed => Minds(ide', Stops) BY <2>2, <2>3, MindNow DEF Minds, Carries
    <2> QED BY <1>2, <2>4, <2>5, PluginMinds
  <1> QED BY <1>8, <1>9, <1>10, <1>11

LEMMA DebugMinds ==
    ASSUME QueueInv, Debug
    PROVE  MindInv'
  <1> DEFINE none == <<>>
             new == [ide EXCEPT !.m_pProcess = TRUE, !.hasDriver = TRUE, !.m_DCmds = none,
                                !.m_QueueBusy = FALSE, !.m_ProgramIsStopped = TRUE,
                                !.m_IsStarted = FALSE, !.toGdb = none,
                                !.sigint = FALSE, !.poked = FALSE, !.shown = TRUE,
                                !.muted = ide.m_TemporaryBreak, !.turnedDown = {}]
             a == ApplyBreakpoints(new)
             c == Plain("run")
             low == QueueLow(a, c)
  <1>1. ide \in Plugins BY TypeParts DEF QueueInv
  <1>2. none \in Seq(Commands) OBVIOUS
  <1>3. ide' = [low EXCEPT !.m_IsStarted = TRUE] BY DEF Debug
  <1>4. fromGdb' = <<>> BY DEF Debug, QueueInv, SessionInv
  <1>5. c \in Commands /\ TRUE \in BOOLEAN BY DEF Plain, Cmd, Commands
  <1>6. gdb'.state = "prompt" /\ gdb'.program = "none" BY DEF Debug
  <1> HIDE DEF none
  <1>7. new \in Plugins BY <1>1, <1>2 DEF Plugins
  <1>8. (new.m_TemporaryBreak => new.muted) /\ new.shown BY <1>1 DEF Plugins
  <1> HIDE DEF new, c
  <1>9. /\ a \in Plugins /\ Steady(a)
        /\ \A stopped \in BOOLEAN : Seen(a, stopped)
    BY <1>7, <1>8, ApplyBreakpointsKeeps, ApplyBreakpointsCarries, KeepsIsTyped
  <1> HIDE DEF a
  <1>10. low \in Plugins /\ Steady(low) /\ \A stopped \in BOOLEAN : Seen(low, stopped)
    BY <1>5, <1>9, QueueLowCarries DEF Carries
  <1> HIDE DEF low
  <1>11. ide'.m_IsStarted = TRUE /\ Steady(ide') /\ \A stopped \in BOOLEAN : Seen(ide', stopped)
    BY <1>3, <1>5, <1>10, NotesCarry
  <1>12. Ending(ide') BY <1>11 DEF Ending
  <1>13. Stops' \in BOOLEAN BY DEF Stops
  <1>14. Minds(ide', Stops') BY <1>11, <1>12, <1>13 DEF Minds
  <1> QED BY <1>4, <1>6, <1>14, MindNext

LEMMA ReplyMinds ==
    ASSUME OneWishEach, QueueInv, MindInv, HandleReply
    PROVE  MindInv'
  <1> DEFINE r == Head(fromGdb)
  <1>1. ide \in Plugins /\ fromGdb \in Seq(Answers) BY TypeParts DEF QueueInv
  <1>2. /\ fromGdb # <<>> /\ r \in Answers /\ r = fromGdb[1]
        /\ fromGdb' = Tail(fromGdb) /\ fromGdb' \in Seq(Answers)
        /\ Len(fromGdb') = Len(fromGdb) - 1 /\ Len(fromGdb) \in Nat
    BY <1>1, HeadTailProperties, LenProperties DEF HandleReply
  <1>3. ide.hasDriver BY <1>2 DEF QueueInv, SessionInv
  <1>4. ide' = ParseOutput(ide, r) /\ gdb' = gdb BY <1>3 DEF HandleReply
  <1> HIDE DEF r
  <1>5. ide'.hasDriver = ide.hasDriver BY <1>1, <1>2, <1>4, ParseOutputTyped DEF Typed
  <1>6. ASSUME Undisturbed' PROVE fromGdb' = <<>> /\ Minds(ide', Stops') /\ gdb.state = "prompt"
    <2>1. Undisturbed /\ ide.m_pProcess /\ Stops' = Stops
      BY <1>4, <1>5, <1>6 DEF Undisturbed, QueueInv, SessionInv, Stops
    <2>2. /\ Sound(ide, Elsewhere, gdb.refused) /\ Len(fromGdb) <= 1
          /\ gdb.state = "prompt" /\ Genuine(r, gdb.refused)
      BY <1>2, <2>1 DEF QueueInv, TalkInv
    <2>3. Sound(ide, <<r.of>>, gdb.refused) BY <1>2, <2>2 DEF Elsewhere
    <2>4. fromGdb' = <<>> BY <1>2, <2>2, EmptySeq
    <2>5. /\ Minds(ide, Stops) /\ Stops \in BOOLEAN
          /\ r.of.kind # "quit" /\ (r.of.kind = "info frame" => r.frame = Stops)
      BY <1>2, <2>1, MindNow
    <2>6. Continues(r.of) => Minds(ParseOutput(ide, r), Stops)
      BY <1>1, <1>2, <1>3, <2>1, <2>2, <2>3, <2>5, LateAnswerMinds
    <2>7. ~Continues(r.of) => Minds(ParseOutput(ide, r), Stops)
      BY <1>1, <1>2, <1>3, <2>1, <2>2, <2>3, <2>5, PlainAnswerMinds
    <2> QED BY <1>4, <2>1, <2>2, <2>4, <2>6, <2>7
  <1>7. Undisturbed' => gdb'.state = "prompt" BY <1>4, <1>6
  <1> QED BY <1>6, <1>7, MindNext

(* gdb does not touch what these are about. *)
LEMMA GdbTouches ==
    ASSUME ide \in Plugins,
           \/ ide' = ide
           \/ \E q : ide' = [ide EXCEPT !.toGdb = q]
           \/ ide' = [ide EXCEPT !.sigint = FALSE]
           \/ ide' = [ide EXCEPT !.poked = FALSE]
    PROVE  ide'.hasDriver = ide.hasDriver /\ Carries(ide, ide')
  <1>1. /\ ide'.m_DCmds = ide.m_DCmds /\ ide'.m_QueueBusy = ide.m_QueueBusy
        /\ ide'.m_ProgramIsStopped = ide.m_ProgramIsStopped /\ ide'.m_IsStarted = ide.m_IsStarted
        /\ ide'.m_TemporaryBreak = ide.m_TemporaryBreak
        /\ ide'.shown = ide.shown /\ ide'.muted = ide.muted
        /\ ide'.hasDriver = ide.hasDriver
    BY DEF Plugins
  <1> QED BY <1>1, OthersCarry

(* Every answer tells whether the program has a frame. *)
LEMMA ReplyTells ==
    ASSUME NEW c, NEW n, NEW lines
    PROVE  /\ Reply(c, n, lines).of = c
           /\ Reply(c, n, lines).frame = Stops
           /\ \A says : /\ Said(Reply(c, n, lines), says).of = c
                        /\ Said(Reply(c, n, lines), says).frame = Stops
           /\ \A hit : /\ Hits(Reply(c, n, lines), hit).of = c
                       /\ Hits(Reply(c, n, lines), hit).frame = Stops
  <1> DEFINE a == [of |-> c, no |-> n, says |-> "ok", hit |-> Unset,
                   lines |-> lines, frame |-> Stops]
  <1>1. Reply(c, n, lines) = a BY DEF Reply, Stops
  <1>2. a.of = c /\ a.frame = Stops OBVIOUS
  <1>3. \A says : [a EXCEPT !.says = says].of = c /\ [a EXCEPT !.says = says].frame = Stops
    OBVIOUS
  <1>4. \A hit : /\ [a EXCEPT !.hit = hit].of = c
                 /\ [a EXCEPT !.hit = hit].frame = Stops
    OBVIOUS
  <1> HIDE DEF a
  <1> QED BY <1>1, <1>2, <1>3, <1>4 DEF Said, Hits

LEMMA PostedFirst ==
    ASSUME fromGdb = <<>>, NEW a, fromGdb' = Append(fromGdb, a)
    PROVE  fromGdb'[1] = a
  <1>1. fromGdb' = <<a>> OBVIOUS
  <1> QED BY <1>1

(* What gdb does with a command that it neither runs the program for nor quits at. *)
LEMMA AnswersAt ==
    ASSUME GdbObeys, gdb \in Debuggers,
           ~GdbResumes(ide.toGdb[1]), ~GdbQuits(ide.toGdb[1])
    PROVE  /\ \E a : fromGdb' = Append(fromGdb, a) /\ a.of = ide.toGdb[1] /\ a.frame = Stops
           /\ ide.toGdb[1].kind # "quit"
           /\ gdb'.state = gdb.state /\ gdb'.stray = gdb.stray /\ gdb'.program = gdb.program
  <1> DEFINE c == ide.toGdb[1]
  <1>1. ASSUME NEW n, NEW lines, Answer(c, n, lines)
        PROVE  \E a : fromGdb' = Append(fromGdb, a) /\ a.of = c /\ a.frame = Stops
    BY <1>1, ReplyTells DEF Answer
  <1>2. ASSUME NEW n, NEW says, fromGdb' = Append(fromGdb, [Reply(c, n, {}) EXCEPT !.says = says])
        PROVE  \E a : fromGdb' = Append(fromGdb, a) /\ a.of = c /\ a.frame = Stops
    <2>1. fromGdb' = Append(fromGdb, Said(Reply(c, n, {}), says)) BY <1>2 DEF Said
    <2>2. Said(Reply(c, n, {}), says).of = c /\ Said(Reply(c, n, {}), says).frame = Stops
      BY ReplyTells
    <2> QED BY <2>1, <2>2
  <1>3. \/ GdbRefuses(c) \/ GdbDeletes(c) \/ GdbRefines(c) \/ GdbReports(c) \/ GdbRefusesBreak(c)
        \/ \E says \in {"ok", "pending"} : GdbSetsBreak(c, says)
        \/ \E says \in {"unconditional", "unwanted"} : GdbRejects(c, says)
    BY DEF GdbObeys
  <1> HIDE DEF c
  <1>4. CASE GdbRefuses(c)
    <2>1. c.kind # "quit" /\ \E n, lines : Answer(c, n, lines) BY <1>4 DEF GdbRefuses, Continues
    <2>2. gdb'.state = gdb.state /\ gdb'.stray = gdb.stray /\ gdb'.program = gdb.program
      BY <1>4 DEF GdbRefuses, Debuggers
    <2> QED BY <1>1, <2>1, <2>2 DEF c
  <1>5. CASE GdbDeletes(c)
    <2>1. c.kind # "quit" /\ \E n, lines : Answer(c, n, lines) BY <1>5 DEF GdbDeletes
    <2>2. gdb'.state = gdb.state /\ gdb'.stray = gdb.stray /\ gdb'.program = gdb.program
      BY <1>5 DEF GdbDeletes, Debuggers
    <2> QED BY <1>1, <2>1, <2>2 DEF c
  <1>6. CASE GdbRefines(c)
    <2>1. c.kind # "quit" /\ \E n, lines : Answer(c, n, lines) BY <1>6 DEF GdbRefines
    <2>2. gdb'.state = gdb.state /\ gdb'.stray = gdb.stray /\ gdb'.program = gdb.program
      BY <1>6 DEF GdbRefines, Debuggers
    <2> QED BY <1>1, <2>1, <2>2 DEF c
  <1>7. CASE GdbReports(c) \/ GdbRefusesBreak(c)
    <2>1. c.kind # "quit" /\ \E n, lines : Answer(c, n, lines)
      BY <1>7 DEF GdbReports, GdbRefusesBreak
    <2>2. gdb' = gdb BY <1>7 DEF GdbReports, GdbRefusesBreak
    <2> QED BY <1>1, <2>1, <2>2 DEF c
  <1>8. ASSUME NEW says, GdbSetsBreak(c, says)
        PROVE  /\ \E a : fromGdb' = Append(fromGdb, a) /\ a.of = c /\ a.frame = Stops
               /\ c.kind # "quit"
               /\ gdb'.state = gdb.state /\ gdb'.stray = gdb.stray /\ gdb'.program = gdb.program
    <2>1. c.kind # "quit" BY <1>8 DEF GdbSetsBreak
    <2>2. fromGdb' = Append(fromGdb, [Reply(c, gdb.next, {}) EXCEPT !.says = says])
      BY <1>8 DEF GdbSetsBreak
    <2>3. gdb'.state = gdb.state /\ gdb'.stray = gdb.stray /\ gdb'.program = gdb.program
      BY <1>8 DEF GdbSetsBreak, Debuggers
    <2> QED BY <1>2, <2>1, <2>2, <2>3
  <1>9. ASSUME NEW says, GdbRejects(c, says)
        PROVE  /\ \E a : fromGdb' = Append(fromGdb, a) /\ a.of = c /\ a.frame = Stops
               /\ c.kind # "quit"
               /\ gdb'.state = gdb.state /\ gdb'.stray = gdb.stray /\ gdb'.program = gdb.program
    <2>1. c.kind # "quit" /\ gdb' = gdb BY <1>9 DEF GdbRejects
    <2>2. fromGdb' = Append(fromGdb, [Reply(c, Unset, {}) EXCEPT !.says = says])
      BY <1>9 DEF GdbRejects
    <2> QED BY <1>2, <2>1, <2>2
  <1> QED BY <1>3, <1>4, <1>5, <1>6, <1>7, <1>8, <1>9 DEF c

LEMMA ObeysMinds ==
    ASSUME QueueInv, MindInv, GdbObeys
    PROVE  MindInv'
  <1> DEFINE c == ide.toGdb[1]
  <1>1. GdbReads(c)
    BY DEF GdbObeys, GdbResumes, GdbRefuses, GdbSetsBreak, GdbRefusesBreak, GdbDeletes, GdbRefines,
           GdbRejects, GdbReports, GdbQuits
  <1>2. ide \in Plugins /\ gdb \in Debuggers BY TypeParts DEF QueueInv
  <1>3. ide'.hasDriver = ide.hasDriver /\ Carries(ide, ide')
    BY <1>1, <1>2, GdbTouches DEF GdbReads
  <1>4. gdb.state = "prompt" BY <1>1 DEF GdbReads
  <1>5. Undisturbed => fromGdb = <<>> BY <1>1, GdbReadsHead
  <1>6. CASE GdbResumes(c)
    <2>1. fromGdb' = fromGdb BY <1>6 DEF GdbResumes
    <2>2. gdb' = [gdb EXCEPT !.state = "running", !.program = "running", !.last = c,
                             !.refused = FALSE]
      BY <1>6 DEF GdbResumes
    <2> HIDE DEF c
    <2>3. gdb'.state = "running" /\ gdb'.program = "running" /\ gdb'.stray = gdb.stray
      BY <1>2, <2>2 DEF Debuggers
    <2>4. Stops' = FALSE BY <2>3 DEF Stops
    <2>5. ASSUME Undisturbed' PROVE Minds(ide', Stops') /\ fromGdb' = <<>>
      <3>1. Undisturbed BY <1>3, <1>4, <2>3, <2>5 DEF Undisturbed
      <3>2. Ending(ide') /\ Steady(ide') BY <1>3, <3>1, MindNow DEF Carries, Minds
      <3>3. Seen(ide', Stops') BY <2>4 DEF Seen, Unseen
      <3> QED BY <1>5, <2>1, <3>1, <3>2, <3>3 DEF Minds
    <2> QED BY <2>3, <2>5, MindNext
  <1>7. CASE GdbQuits(c)
    <2>1. gdb' = [gdb EXCEPT !.state = "gone", !.program = "none"] BY <1>7 DEF GdbQuits
    <2>2. gdb'.state = "gone" BY <1>2, <2>1 DEF Debuggers
    <2> QED BY <2>2, MindNext DEF Undisturbed
  <1>8. CASE ~GdbResumes(c) /\ ~GdbQuits(c)
    <2>1. /\ c.kind # "quit"
          /\ \E a : fromGdb' = Append(fromGdb, a) /\ a.of = c /\ a.frame = Stops
          /\ gdb'.state = gdb.state /\ gdb'.stray = gdb.stray /\ gdb'.program = gdb.program
      BY <1>2, <1>8, AnswersAt
    <2>2. PICK a : fromGdb' = Append(fromGdb, a) /\ a.of = c /\ a.frame = Stops BY <2>1
    <2>3. gdb'.state = gdb.state /\ gdb'.stray = gdb.stray /\ gdb'.program = gdb.program BY <2>1
    <2> HIDE DEF c
    <2>4. Stops' = Stops BY <2>3 DEF Stops
    <2>5. ASSUME Undisturbed'
          PROVE  Minds(ide', Stops') /\ fromGdb'[1].of = c /\ fromGdb'[1].frame = Stops'
      <3>1. Undisturbed BY <1>3, <2>3, <2>5 DEF Undisturbed
      <3>2. Minds(ide', Stops') BY <1>3, <2>4, <3>1, MindNow DEF Carries, Minds
      <3>3. fromGdb'[1].of = c /\ fromGdb'[1].frame = Stops
        BY <1>5, <2>2, <2>4, <3>1, PostedFirst
      <3> QED BY <2>4, <3>2, <3>3
    <2>6. gdb'.state # "running" BY <1>4, <2>3
    <2> QED BY <2>1, <2>5, <2>6, MindNext
  <1> QED BY <1>6, <1>7, <1>8

LEMMA ProgramMinds ==
    ASSUME QueueInv, MindInv, ProgramStops \/ SignalArrives \/ ProgramExits
    PROVE  MindInv'
  <1>1. ide \in Plugins /\ gdb \in Debuggers BY TypeParts DEF QueueInv
  <1>2. gdb.state = "running"
    BY DEF ProgramStops, StepEnds, BreakIsHit, SignalArrives, ProgramExits
  <1>3. /\ \E a : fromGdb' = Append(fromGdb, a) /\ a.of = gdb.last
        /\ gdb'.state = "prompt" /\ gdb'.stray = gdb.stray
    <2>1. ASSUME NEW lines, Answer(gdb.last, Unset, lines)
          PROVE  \E a : fromGdb' = Append(fromGdb, a) /\ a.of = gdb.last
      BY <2>1, ReplyTells DEF Answer
    <2>2. CASE StepEnds \/ SignalArrives \/ ProgramExits
      <3>1. \E lines : Answer(gdb.last, Unset, lines)
        BY <2>2 DEF StepEnds, SignalArrives, ProgramExits
      <3>2. gdb'.state = "prompt" /\ gdb'.stray = gdb.stray
        BY <1>1, <2>2 DEF StepEnds, SignalArrives, ProgramExits, Debuggers
      <3> QED BY <2>1, <3>1, <3>2
    <2>3. ASSUME NEW k \in gdb.breaks, BreakIsHit(k)
          PROVE  /\ \E a : fromGdb' = Append(fromGdb, a) /\ a.of = gdb.last
                 /\ gdb'.state = "prompt" /\ gdb'.stray = gdb.stray
      BY <1>1, <2>3, HitType
    <2> QED BY <2>2, <2>3 DEF ProgramStops
  <1>4. PICK a : fromGdb' = Append(fromGdb, a) /\ a.of = gdb.last BY <1>3
  <1>5. gdb'.state = "prompt" /\ gdb'.stray = gdb.stray BY <1>3
  <1>6. ide'.hasDriver = ide.hasDriver /\ Carries(ide, ide')
    BY <1>1, GdbTouches DEF ProgramStops, StepEnds, BreakIsHit, SignalArrives, ProgramExits
  <1>7. ASSUME Undisturbed'
        PROVE  /\ Minds(ide', Stops') /\ fromGdb'[1].of.kind # "quit"
               /\ fromGdb'[1].of.kind # "info frame"
    <2>1. Undisturbed BY <1>2, <1>5, <1>6, <1>7 DEF Undisturbed
    <2>2. /\ Sound(ide, Elsewhere, gdb.refused) /\ Continues(gdb.last) /\ fromGdb = <<>>
      BY <1>2, <2>1 DEF QueueInv, TalkInv
    <2>3. Elsewhere = <<gdb.last>> BY <1>2, <2>2 DEF Elsewhere
    <2>4. ide.m_DCmds # <<>> /\ ~ide.m_ProgramIsStopped BY <2>2, <2>3, HeadIs
    <2>5. \A stopped \in BOOLEAN : Seen(ide, stopped) BY <2>4 DEF Seen, Seeks
    <2>6. Stops' \in BOOLEAN BY DEF Stops
    <2>7. Minds(ide', Stops') BY <1>6, <2>1, <2>5, <2>6, MindNow DEF Carries, Minds
    <2>8. fromGdb'[1].of = gdb.last BY <1>4, <2>2, PostedFirst
    <2>9. gdb.last.kind # "quit" /\ gdb.last.kind # "info frame" BY <2>2 DEF Continues
    <2> QED BY <2>7, <2>8, <2>9
  <1> QED BY <1>5, <1>7, MindNext

LEMMA TroubleMinds ==
    ASSUME QueueInv, GdbIsPoked \/ GdbCrashes \/ UserKills \/ ProcessEnds \/ OnGDBTerminated
    PROVE  MindInv'
  <1>1. ide \in Plugins /\ gdb \in Debuggers BY TypeParts DEF QueueInv
  <1>2. GdbIsPoked => gdb'.stray BY <1>1 DEF GdbIsPoked, Debuggers
  <1>3. GdbCrashes \/ UserKills \/ ProcessEnds => gdb'.state = "gone"
    BY <1>1 DEF GdbCrashes, UserKills, ProcessEnds, Debuggers
  <1>4. OnGDBTerminated => ~ide'.hasDriver BY <1>1 DEF OnGDBTerminated, Plugins
  <1> QED BY <1>2, <1>3, <1>4, MindNext DEF Undisturbed

LEMMA StepsMind ==
    ASSUME OneWishEach, QueueInv, MindInv, [Next]_vars
    PROVE  MindInv'
  <1>1. CASE UNCHANGED vars BY <1>1, MindNow, PluginMinds DEF vars
  <1>2. CASE User
    BY <1>2, DebugMinds, RunsMind, TroubleMinds, EditsMind, CloseDialogMinds DEF User
  <1>3. CASE Outside BY <1>3, ObeysMinds, ProgramMinds, TroubleMinds DEF Outside
  <1> QED BY <1>1, <1>2, <1>3, ReplyMinds, TroubleMinds DEF Next

(* A program that stays stopped was shown to the user as stopped, for any
   breakpoints and any edits, if no breakpoint has two wishes and the session did
   not begin with a temporary break left over (DebuggerGDB::DoBreak,
   OnCursorChanged, GDB_driver::ParseOutput, DebuggerDriver::RunQueue).       *)
THEOREM StopsAreShown == OneWishEach => (Spec => []StoppedIsShown)
  <1> SUFFICES ASSUME OneWishEach PROVE Spec => []StoppedIsShown OBVIOUS
  <1>1. Init => QueueInv /\ MindInv BY Initially DEF Init, MindInv, Undisturbed
  <1>2. (QueueInv /\ MindInv) /\ [Next]_vars => (QueueInv /\ MindInv)'
    BY StepsKeep, StepsMind
  <1>3. QueueInv /\ MindInv => StoppedIsShown
    <2> SUFFICES ASSUME MindInv, AtPrompt, ide.m_DCmds = <<>>, Stops
                 PROVE  ide.shown \/ ide.muted
      BY DEF StoppedIsShown, Stops
    <2>1. Seen(ide, Stops) BY MindNow DEF AtPrompt, Minds
    <2>2. ~Seeks(ide) BY DEF Seeks
    <2> QED BY <2>1, <2>2, EmptyEnds DEF Seen, Unseen
  <1> QED BY <1>1, <1>2, <1>3, PTL DEF Spec
=============================================================================
