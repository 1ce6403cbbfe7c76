---------------------------- MODULE DebuggerQueue ----------------------------
(***************************************************************************)
(* A debugging session of DebuggerGDB: the command queue of                *)
(* DebuggerDriver, the parser of gdb's answers (GDB_driver::ParseOutput),  *)
(* the list of breakpoints the user edits (DebuggerState), and gdb itself  *)
(* at the other end of two pipes.                                          *)
(*                                                                         *)
(* The plugin has one thread, the event loop: every action but those of    *)
(* gdb and of the operating system is one event handled to its end.  What  *)
(* may interleave is the user, the answers in the pipe, the program being  *)
(* debugged, the signals sent to it and the end of the process.  An answer *)
(* stands for all the output up to gdb's next prompt, which is when        *)
(* ParseOutput acts on what it has gathered.                               *)
(*                                                                         *)
(* Not in this module: threads, watches, data and temporary breakpoints,   *)
(* remote debugging, attaching, and a gdb that gives a pending breakpoint  *)
(* another number when it resolves.  The plugin is taken to know the       *)
(* process number of the program as soon as there is one.                  *)
(***************************************************************************)
EXTENDS Integers, Sequences, SequencesExt

CONSTANTS
    Breakpoints,   \* the breakpoint objects the user may make
    Wishes,        \* what the user may ask of one: sets of "condition" and "ignore"
    Requests,      \* the user's requests an instance allows
    GdbMay,        \* what gdb may answer but that all is well
    MaxRequests,   \* bound: requests made
    MaxCrashes     \* bound: times gdb dies by itself

ASSUME DebugAssumption ==
    /\ Wishes \subseteq SUBSET {"condition", "ignore"}
    /\ "none" \notin Breakpoints
    /\ GdbMay \subseteq {"pending", "refuse", "no symbol"}
    /\ MaxRequests \in Nat /\ MaxCrashes \in Nat

VARIABLES
    ide,        \* the plugin: DebuggerGDB, DebuggerState and GDB_driver
    dialog,     \* the copy of a breakpoint that an open EditBreakpointDlg edits
    gdb,        \* the debugger and the program it controls
    fromGdb,    \* its answers that are posted and not yet handled
    requests,   \* how many requests were made
    crashes,    \* how often gdb died
    abandoned   \* breakpoints removed or set anew while their number was not known

vars == <<ide, dialog, gdb, fromGdb, requests, crashes, abandoned>>

Listed == ToSet(ide.m_Breakpoints)

Unset == 0    \* DebuggerBreakpoint::index is -1: gdb has not told the number
NoBp  == [enabled |-> FALSE, wish |-> {}, index |-> Unset, wantsCondition |-> FALSE]

Cmd(kind, b, n) == [kind |-> kind, bp |-> b, no |-> n]
Plain(kind)     == Cmd(kind, "none", Unset)
NoText          == Plain("no text")    \* m_Cmd is empty
NoCmd           == Plain("no command")

\* DebuggerContinueBaseCmd: the commands after which the program runs.
Continues(c) == c.kind \in {"run", "cont", "step", "finish"}

\* "uncondition" is the command condition with no expression: it takes a condition away.
Commands == [kind : {"break", "delete", "condition", "uncondition", "ignore"}, bp : Breakpoints, no : Nat]
            \cup [kind : {"run", "cont", "step", "finish", "backtrace", "info frame", "quit",
                          "no text", "no command"}, bp : {"none"}, no : {Unset}]
\* What is left of a wish when its condition was turned down is one, too.
Wishable == {{}} \cup UNION {SUBSET wish : wish \in Wishes}
Bps == [enabled : BOOLEAN, wish : Wishable, index : Nat, wantsCondition : BOOLEAN]
Plugins == [bps : [Breakpoints -> Bps], m_Breakpoints : Seq(Breakpoints), made : SUBSET Breakpoints,
            m_pProcess : BOOLEAN, hasDriver : BOOLEAN,
            m_DCmds : Seq(Commands), m_QueueBusy : BOOLEAN, m_ProgramIsStopped : BOOLEAN,
            m_IsStarted : BOOLEAN, m_TemporaryBreak : BOOLEAN,
            toGdb : Seq(Commands), sigint : BOOLEAN, poked : BOOLEAN,
            shown : BOOLEAN, muted : BOOLEAN, turnedDown : SUBSET Breakpoints]
Debuggers == [state : {"prompt", "running", "gone"},
              program : {"none", "stopped", "running", "exited"},
              breaks : SUBSET [no : Nat, bp : Breakpoints, wish : SUBSET {"condition", "ignore"}],
              next : Nat, last : Commands, stray : BOOLEAN, refused : BOOLEAN]
Answers == [of : Commands, no : Nat, says : {"ok", "pending", "unconditional", "unwanted"},
            hit : Nat, lines : SUBSET {"signal", "cursor", "exit"}, frame : BOOLEAN]

TypeOK ==
    /\ ide \in Plugins /\ Listed \subseteq ide.made
    /\ dialog \in [bp : Breakpoints \cup {"none"}, copy : Bps]
    /\ gdb \in Debuggers /\ fromGdb \in Seq(Answers)
    /\ requests \in 0..MaxRequests /\ crashes \in 0..MaxCrashes
    /\ abandoned \subseteq Breakpoints

\* The plugin before its first session.
Init ==
    /\ ide = [bps |-> [b \in Breakpoints |-> NoBp], m_Breakpoints |-> <<>>, made |-> {},
              m_pProcess |-> FALSE, hasDriver |-> FALSE,
              m_DCmds |-> <<>>, m_QueueBusy |-> FALSE, m_ProgramIsStopped |-> TRUE,
              m_IsStarted |-> FALSE, m_TemporaryBreak |-> FALSE,
              toGdb |-> <<>>, sigint |-> FALSE, poked |-> FALSE, shown |-> TRUE, muted |-> FALSE,
              turnedDown |-> {}]
    /\ dialog = [bp |-> "none", copy |-> NoBp]
    /\ gdb = [state |-> "gone", program |-> "none", breaks |-> {}, next |-> 1, last |-> NoCmd, stray |-> FALSE, refused |-> FALSE]
    /\ fromGdb = <<>>
    /\ requests = 0 /\ crashes = 0 /\ abandoned = {}

-----------------------------------------------------------------------------
(* The queue.  The operators take the plugin's record and return it changed. *)

IsStopped(s) == ~s.hasDriver \/ s.m_ProgramIsStopped
IsBusy(s)    == s.hasDriver /\ s.m_QueueBusy

\* Faults: a command is sent while another one waits for its answer; the temporary
\* break is not over when the program goes on.
FaultRunQueueWhenBusy(s) ==
    IF ~s.m_ProgramIsStopped \/ s.m_DCmds = <<>> THEN s
    ELSE [s EXCEPT !.m_QueueBusy = TRUE, !.toGdb = Append(@, s.m_DCmds[1]),
                   !.m_ProgramIsStopped = ~Continues(s.m_DCmds[1])]
FaultRunQueueStaysTemporary(s) ==
    IF s.m_QueueBusy \/ ~s.m_ProgramIsStopped \/ s.m_DCmds = <<>> THEN s
    ELSE [s EXCEPT !.m_QueueBusy = TRUE, !.toGdb = Append(@, s.m_DCmds[1]),
                   !.m_ProgramIsStopped = ~Continues(s.m_DCmds[1]),
                   !.shown = @ /\ ~Continues(s.m_DCmds[1])]

\* RunQueue: commands without text act and leave; the first one with a text is
\* written to the pipe and stays at the head until its answer is parsed.  Without
\* a process DoSendCommand drops the text.
FirstWithText(queue) ==
    LET first == SelectInSeq(queue, LAMBDA c : c.kind # "no text")
    IN IF first = 0 THEN <<>> ELSE SubSeq(queue, first, Len(queue))

RunQueue(s) ==
    LET rest == FirstWithText(s.m_DCmds)
        head == rest[1]
    IN  IF s.m_QueueBusy \/ ~s.m_ProgramIsStopped THEN s
        ELSE IF rest = <<>> THEN [s EXCEPT !.m_DCmds = <<>>]
        ELSE [s EXCEPT !.m_DCmds = rest,
                       !.m_QueueBusy = TRUE,
                       !.toGdb = IF s.m_pProcess THEN Append(@, head) ELSE @,
                       !.m_ProgramIsStopped = ~Continues(head),
                       !.shown = @ /\ ~Continues(head),
                       !.muted = @ /\ head.kind # "cont",
                       !.m_TemporaryBreak = @ /\ head.kind # "cont"]

QueueLow(s, c)  == RunQueue([s EXCEPT !.m_DCmds = Append(@, c)])
QueueHigh(s, c) == RunQueue([s EXCEPT !.m_DCmds = <<c>> \o @])

RemoveTopCommand(s) ==
    IF s.m_QueueBusy \/ s.m_DCmds = <<>> THEN s ELSE [s EXCEPT !.m_DCmds = Tail(@)]

-----------------------------------------------------------------------------
(* Breakpoints. *)

\* The constructor of GdbCmd_AddBreakpoint forgets the number at once, before the
\* command is sent; a disabled breakpoint makes a command without text.
AddToDriver(s, b) ==
    IF ~s.hasDriver THEN s
    ELSE QueueLow([s EXCEPT !.bps[b].index = Unset],
                  IF s.bps[b].enabled THEN Cmd("break", b, Unset) ELSE NoText)

RemoveFromDriver(s, b) ==
    IF ~s.hasDriver \/ s.bps[b].index = Unset THEN s
    ELSE QueueLow(s, Cmd("delete", b, s.bps[b].index))

\* ApplyBreakpoints adds all of them to a driver with an empty queue: the first command
\* with a text is sent, the others wait behind it.  RemoveBreakpoint(NULL) does nothing.
ApplyBreakpoints(s) ==
    LET list == s.m_Breakpoints
    IN RunQueue([s EXCEPT
           !.bps = [b \in Breakpoints |-> IF b \in ToSet(list) THEN [@[b] EXCEPT !.index = Unset]
                                                                ELSE @[b]],
           !.m_DCmds = @ \o [i \in DOMAIN list |-> IF s.bps[list[i]].enabled
                                                    THEN Cmd("break", list[i], Unset) ELSE NoText]])

ResetBreakpoint(s, b) == AddToDriver(RemoveFromDriver(s, b), b)

\* Fault: nothing is queued while the program still runs.
FaultContinue(s) ==
    IF IsStopped(s) THEN QueueLow(s, Plain("cont")) ELSE s

\* Continue: the driver asks to continue, or to run a program not yet started.
DriverContinues(s) ==
    [QueueLow(s, Plain(IF s.m_IsStarted THEN "cont" ELSE "run")) EXCEPT !.m_IsStarted = TRUE]

Continue(s) == IF ~s.m_pProcess \/ ~s.hasDriver THEN s ELSE DriverContinues(s)

\* DoBreak: SIGINT to the program or, when there is no such process, to gdb.
DoBreak(s, temporary) ==
    LET interrupts == s.m_pProcess /\ ~IsStopped(s)
        alive == gdb.program \in {"running", "stopped"}
    IN [s EXCEPT !.m_TemporaryBreak = temporary,
                 !.sigint = @ \/ (interrupts /\ alive),
                 !.poked  = @ \/ (interrupts /\ ~alive)]

\* What every edit of a breakpoint does while the program runs: stop it, queue the
\* edit, queue the command that lets it go on.
Interrupted(s) == IF IsStopped(s) THEN s ELSE DoBreak(s, TRUE)
Resumed(s) == IF IsStopped(ide) THEN s ELSE Continue(s)

\* The number of b is on its way (or will be, once its "break" is sent).
NumberPending(b) == \E i \in DOMAIN ide.m_DCmds : ide.m_DCmds[i] = Cmd("break", b, Unset)
Abandon(b) == abandoned' = IF ide.hasDriver /\ ide.bps[b].index = Unset /\ NumberPending(b)
                           THEN abandoned \cup {b} ELSE abandoned

-----------------------------------------------------------------------------
(* The user.  While a dialog is open it takes all of the user's input. *)

Asks(request) ==
    /\ request \in Requests
    /\ requests < MaxRequests /\ requests' = requests + 1
    /\ dialog.bp = "none"

\* Debug, taken when the end of the last session has been handled: gdb is started,
\* the breakpoints are applied and the program is run.
Debug ==
    /\ Asks("Debug")
    /\ ~ide.m_pProcess /\ ~ide.hasDriver /\ gdb.state = "gone"
    /\ LET new == [ide EXCEPT !.m_pProcess = TRUE, !.hasDriver = TRUE, !.m_DCmds = <<>>,
                              !.m_QueueBusy = FALSE, !.m_ProgramIsStopped = TRUE,
                              !.m_IsStarted = FALSE, !.toGdb = <<>>,
                              !.sigint = FALSE, !.poked = FALSE, !.shown = TRUE,
                              !.muted = ide.m_TemporaryBreak, !.turnedDown = {}]
       IN ide' = [QueueLow(ApplyBreakpoints(new), Plain("run")) EXCEPT !.m_IsStarted = TRUE]
    /\ gdb' = [state |-> "prompt", program |-> "none", breaks |-> {}, next |-> 1, last |-> NoCmd, stray |-> FALSE, refused |-> FALSE]
    /\ abandoned' = {}
    /\ UNCHANGED <<dialog, fromGdb, crashes>>

AddBreakpoint(b) ==
    /\ Asks("AddBreakpoint")
    /\ b \notin ide.made
    /\ ide' = Resumed(AddToDriver([Interrupted(ide) EXCEPT !.bps[b].enabled = TRUE,
                                       !.made = @ \cup {b}, !.m_Breakpoints = Append(@, b)], b))
    /\ UNCHANGED <<dialog, gdb, fromGdb, crashes, abandoned>>

DeleteBreakpoint(b) ==
    /\ Asks("DeleteBreakpoint")
    /\ b \in Listed
    /\ ide' = Resumed(RemoveFromDriver([Interrupted(ide) EXCEPT !.m_Breakpoints = RemoveFirst(@, b)], b))
    /\ Abandon(b)
    /\ UNCHANGED <<dialog, gdb, fromGdb, crashes>>

EnableBreakpoint(b) ==
    /\ Asks("EnableBreakpoint")
    /\ b \in Listed
    /\ ide' = Resumed(ResetBreakpoint([Interrupted(ide) EXCEPT !.bps[b].enabled = ~@], b))
    /\ Abandon(b)
    /\ UNCHANGED <<dialog, gdb, fromGdb, crashes>>

\* UpdateBreakpoint: EditBreakpointDlg copies the breakpoint when it opens ...
OpenDialog(b) ==
    /\ Asks("UpdateBreakpoint")
    /\ b \in Listed
    /\ dialog' = [bp |-> b, copy |-> ide.bps[b]]
    /\ UNCHANGED <<ide, gdb, fromGdb, crashes, abandoned>>

\* ... and its OK writes the whole copy back, the number it had then included.
CloseDialog(wish) ==
    /\ dialog.bp # "none"
    /\ LET b == dialog.bp
           written == [Interrupted(ide) EXCEPT !.bps[b] = [dialog.copy EXCEPT !.wish = wish]]
       IN /\ ide' = Resumed(ResetBreakpoint(written, b))
          /\ abandoned' = IF ide.hasDriver /\ dialog.copy.index = Unset
                             /\ (NumberPending(b) \/ ide.bps[b].index # Unset)
                          THEN abandoned \cup {b} ELSE abandoned
    /\ dialog' = [bp |-> "none", copy |-> NoBp]
    /\ UNCHANGED <<gdb, fromGdb, requests, crashes>>

\* The menu offers these only when the program is stopped and the queue is idle.
Idle == ide.m_pProcess /\ IsStopped(ide) /\ ~IsBusy(ide)

UserContinue ==
    /\ Asks("Continue") /\ Idle
    /\ ide' = Continue(ide)
    /\ UNCHANGED <<dialog, gdb, fromGdb, crashes, abandoned>>

UserStep(kind) ==
    /\ Asks(IF kind = "step" THEN "Step" ELSE "StepOut") /\ Idle
    /\ ide' = IF ide.hasDriver THEN QueueLow(ide, Plain(kind)) ELSE ide
    /\ UNCHANGED <<dialog, gdb, fromGdb, crashes, abandoned>>

UserBreak ==
    /\ Asks("Break")
    /\ ide.m_pProcess /\ ~(IsStopped(ide) /\ ~IsBusy(ide))
    /\ ide' = DoBreak(ide, FALSE)
    /\ UNCHANGED <<dialog, gdb, fromGdb, crashes, abandoned>>

\* Stop, before there is a program: gdb itself is terminated.
UserKills ==
    /\ Asks("Stop")
    /\ ide.m_pProcess /\ ~IsStopped(ide) /\ gdb.program = "none"
    /\ gdb' = [gdb EXCEPT !.state = "gone"]
    /\ UNCHANGED <<ide, dialog, fromGdb, crashes, abandoned>>

UserStop ==
    /\ Asks("Stop")
    /\ ide.m_pProcess /\ (IsStopped(ide) \/ gdb.program # "none")
    /\ LET s == IF IsStopped(ide) THEN ide ELSE DoBreak(ide, FALSE)
       IN ide' = IF s.hasDriver
                 THEN [QueueLow(s, Plain("quit")) EXCEPT !.m_IsStarted = FALSE]
                 ELSE s
    /\ UNCHANGED <<dialog, gdb, fromGdb, crashes, abandoned>>

-----------------------------------------------------------------------------
(* The answers. *)

\* A stop that the user did not cause is shown, and the call stack asked for.
OnCursorChanged(s) ==
    IF s.m_TemporaryBreak \/ ~s.hasDriver THEN s
    ELSE LET shown == [s EXCEPT !.shown = TRUE]
         IN IF s.m_pProcess THEN QueueLow(shown, Plain("backtrace")) ELSE shown

\* GdbCmd_AddBreakpoint::ParseOutput: the number is known, and what the breakpoint asks
\* for beyond its place is queued in front of everything else.  The condition of one that
\* is pending is only noted.  Refused, the breakpoint has no number and gets none.
BreakpointSet(s, b, r) ==
    LET bp    == s.bps[b]
        noted == r.says = "pending" /\ "condition" \in bp.wish
        known == [s EXCEPT !.bps[b] = [bp EXCEPT !.index = r.no, !.wantsCondition = @ \/ noted],
                           !.turnedDown = @ \ {b}]
        conditioned == IF "condition" \in bp.wish /\ r.says # "pending"
                       THEN QueueHigh(known, Cmd("condition", b, r.no)) ELSE known
    IN IF "ignore" \in bp.wish THEN QueueHigh(conditioned, Cmd("ignore", b, r.no)) ELSE conditioned

BreakpointRefused(s, b) == [s EXCEPT !.turnedDown = @ \cup {b}]

\* GdbCmd_AddBreakpointCondition::ParseOutput, when gdb knows no such symbol: the user is
\* asked whether to make the breakpoint unconditional; the driver, not the list, drops it
\* if not, and the program goes on.
ConditionRejected(s, b, says) ==
    IF says = "unconditional"
    THEN QueueHigh([s EXCEPT !.bps[b].wish = @ \ {"condition"}, !.turnedDown = @ \cup {b}],
                   Cmd("uncondition", b, s.bps[b].index))
    ELSE DriverContinues(RemoveFromDriver([s EXCEPT !.turnedDown = @ \cup {b}], b))

CommandParses(s, c, r) ==
    CASE c.kind = "break" /\ r.no # Unset -> BreakpointSet(s, c.bp, r)
      [] c.kind = "break" /\ r.no = Unset -> BreakpointRefused(s, c.bp)
      [] c.kind = "condition" /\ r.says # "ok" -> ConditionRejected(s, c.bp, r.says)
      [] c.kind = "info frame" /\ r.frame -> OnCursorChanged(s)
      [] OTHER -> s

\* The head of the queue takes the answer, and the next command is sent.
TakeAnswer(s, r) ==
    LET idle == [s EXCEPT !.m_QueueBusy = FALSE]
    IN IF s.m_DCmds = <<>> THEN idle
       ELSE RunQueue(CommandParses(RemoveTopCommand(idle), s.m_DCmds[1], r))

\* GetBreakpointByNumber: the first of the list with this number, or none.
ByNumber(s, n) ==
    LET i == SelectInSeq(s.m_Breakpoints, LAMBDA b : s.bps[b].index = n)
    IN IF i = 0 THEN "none" ELSE s.m_Breakpoints[i]

\* Fault: the condition of a breakpoint that was pending is not sent.
FaultBreakpointHit(s, r) ==
    LET b == ByNumber(s, r.hit)
    IN IF b # "none" THEN [s EXCEPT !.bps[b].wantsCondition = FALSE] ELSE s

\* The line of a breakpoint that was hit: a condition that was noted is queued, with no
\* expression if the breakpoint has none now.
BreakpointHit(s, r) ==
    LET b == ByNumber(s, r.hit)
        c == Cmd(IF "condition" \in s.bps[b].wish THEN "condition" ELSE "uncondition", b, r.hit)
    IN IF r.hit = Unset \/ b = "none" \/ ~s.bps[b].wantsCondition THEN s
       ELSE QueueLow([s EXCEPT !.bps[b].wantsCondition = FALSE], c)

\* Fault: the end of the program does not count as a stop.
FaultReadLines(s, r) ==
    LET ended == IF "exit" \in r.lines
                 THEN [QueueLow(s, Plain("quit")) EXCEPT !.m_IsStarted = FALSE] ELSE s
    IN IF "signal" \in r.lines
       THEN [ended EXCEPT !.m_ProgramIsStopped = TRUE, !.m_QueueBusy = FALSE] ELSE ended

\* The lines of the answer that are not about the command: the program has ended,
\* was stopped by a signal, is somewhere.
ReadLines(s, r) ==
    LET ended == IF "exit" \in r.lines
                 THEN [QueueLow([s EXCEPT !.m_ProgramIsStopped = TRUE], Plain("quit"))
                         EXCEPT !.m_IsStarted = FALSE]
                 ELSE s
    IN IF "signal" \in r.lines
       THEN [ended EXCEPT !.m_ProgramIsStopped = TRUE, !.m_QueueBusy = FALSE] ELSE ended

\* A prompt with nothing recognised before it, and nothing else to send: the driver
\* asks gdb where it is.
SeekCursor(s, r) ==
    IF s.m_DCmds = <<>> /\ ~s.m_ProgramIsStopped /\ "cursor" \notin r.lines
    THEN [QueueLow(s, Plain("info frame")) EXCEPT !.m_ProgramIsStopped = TRUE] ELSE s

\* Fault: a stop that no signal caused is shown only.
FaultCursorChanges(s, r) == IF "cursor" \in r.lines THEN OnCursorChanged(s) ELSE s

CursorChanges(s, r) ==
    IF "cursor" \in r.lines
    THEN OnCursorChanged([s EXCEPT !.m_ProgramIsStopped = TRUE, !.m_QueueBusy = FALSE]) ELSE s

ParseOutput(s, r) ==
    LET read == SeekCursor(ReadLines(BreakpointHit(TakeAnswer(s, r), r), r), r)
    IN RunQueue(CursorChanges(read, r))

HandleReply ==
    /\ fromGdb # <<>>
    /\ ide' = IF ide.hasDriver THEN ParseOutput(ide, Head(fromGdb)) ELSE ide
    /\ fromGdb' = Tail(fromGdb)
    /\ UNCHANGED <<dialog, gdb, requests, crashes, abandoned>>

-----------------------------------------------------------------------------
(* gdb and the program, seen from the two pipes. *)

Reply(c, n, lines) == [of |-> c, no |-> n, says |-> "ok", hit |-> Unset,
                       lines |-> lines, frame |-> gdb.program = "stopped"]
Answer(c, n, lines) == fromGdb' = Append(fromGdb, Reply(c, n, lines))

GdbReads(c) ==
    /\ gdb.state = "prompt" /\ ide.toGdb # <<>> /\ c = ide.toGdb[1]
    /\ ide' = [ide EXCEPT !.toGdb = Tail(@)]
    /\ UNCHANGED <<dialog, requests, crashes, abandoned>>

\* A continuing command that gdb obeys: there is no prompt until the program stops.
GdbResumes(c) ==
    /\ GdbReads(c)
    /\ Continues(c) /\ (c.kind = "run" \/ gdb.program = "stopped")
    /\ gdb' = [gdb EXCEPT !.state = "running", !.program = "running", !.last = c,
                          !.refused = FALSE]
    /\ UNCHANGED fromGdb

\* One that it refuses: the program is not being run, or there is no frame to finish.
GdbRefuses(c) ==
    /\ GdbReads(c)
    /\ \/ /\ Continues(c) /\ c.kind # "run" /\ gdb.program # "stopped"
          /\ Answer(c, Unset, {"exit"})
       \/ /\ c.kind = "finish" /\ gdb.program = "stopped"
          /\ Answer(c, Unset, {})
    /\ gdb' = [gdb EXCEPT !.refused = TRUE]

\* A breakpoint is set, or noted for code that is not loaded yet, or refused.
GdbSetsBreak(c, says) ==
    /\ GdbReads(c) /\ c.kind = "break"
    /\ says = "pending" => "pending" \in GdbMay
    /\ gdb' = [gdb EXCEPT !.breaks = @ \cup {[no |-> gdb.next, bp |-> c.bp, wish |-> {}]},
                          !.next = @ + 1]
    /\ fromGdb' = Append(fromGdb, [Reply(c, gdb.next, {}) EXCEPT !.says = says])

GdbRefusesBreak(c) ==
    /\ GdbReads(c) /\ c.kind = "break" /\ "refuse" \in GdbMay
    /\ Answer(c, Unset, {})
    /\ UNCHANGED gdb

GdbDeletes(c) ==
    /\ GdbReads(c) /\ c.kind = "delete"
    /\ gdb' = [gdb EXCEPT !.breaks = {k \in @ : k.no # c.no}]
    /\ Answer(c, Unset, {})

Refined(k, c) ==
    IF k.no # c.no THEN k
    ELSE [k EXCEPT !.wish = IF c.kind = "uncondition" THEN @ \ {"condition"} ELSE @ \cup {c.kind}]

GdbRefines(c) ==
    /\ GdbReads(c) /\ c.kind \in {"condition", "uncondition", "ignore"}
    /\ gdb' = [gdb EXCEPT !.breaks = {Refined(k, c) : k \in @}]
    /\ Answer(c, Unset, {})

\* A condition with a symbol that gdb does not know leaves the breakpoint as it was; says
\* is what the user will answer to the question that follows.
GdbRejects(c, says) ==
    /\ GdbReads(c) /\ c.kind = "condition" /\ "no symbol" \in GdbMay
    /\ \E k \in gdb.breaks : k.no = c.no
    /\ fromGdb' = Append(fromGdb, [Reply(c, Unset, {}) EXCEPT !.says = says])
    /\ UNCHANGED gdb

GdbReports(c) ==
    /\ GdbReads(c) /\ c.kind \in {"backtrace", "info frame"}
    /\ Answer(c, Unset, {})
    /\ UNCHANGED gdb

GdbQuits(c) ==
    /\ GdbReads(c) /\ c.kind = "quit"
    /\ gdb' = [gdb EXCEPT !.state = "gone", !.program = "none"]
    /\ UNCHANGED fromGdb

GdbObeys ==
    /\ ide.toGdb # <<>>
    /\ LET c == ide.toGdb[1]
       IN \/ GdbResumes(c) \/ GdbRefuses(c) \/ GdbDeletes(c) \/ GdbRefines(c)
          \/ GdbReports(c) \/ GdbQuits(c) \/ GdbRefusesBreak(c)
          \/ \E says \in {"ok", "pending"} : GdbSetsBreak(c, says)
          \/ \E says \in {"unconditional", "unwanted"} : GdbRejects(c, says)

\* The program stops after a step, ...
StepEnds ==
    /\ gdb.state = "running" /\ gdb.last.kind \in {"step", "finish"}
    /\ Answer(gdb.last, Unset, {"cursor"})
    /\ gdb' = [gdb EXCEPT !.state = "prompt", !.program = "stopped"]
    /\ UNCHANGED <<ide, dialog, requests, crashes, abandoned>>

\* ... at the breakpoint k, ...
BreakIsHit(k) ==
    /\ gdb.state = "running"
    /\ fromGdb' = Append(fromGdb, [Reply(gdb.last, Unset, {"cursor"}) EXCEPT !.hit = k.no])
    /\ gdb' = [gdb EXCEPT !.state = "prompt", !.program = "stopped"]
    /\ UNCHANGED <<ide, dialog, requests, crashes, abandoned>>

\* ... or by the signal, which waits for a program that is stopped already ...
SignalArrives ==
    /\ gdb.state = "running" /\ (ide.sigint \/ ide.poked)
    /\ Answer(gdb.last, Unset, {"signal", "cursor"})
    /\ gdb' = [gdb EXCEPT !.state = "prompt", !.program = "stopped"]
    /\ ide' = IF ide.sigint THEN [ide EXCEPT !.sigint = FALSE] ELSE [ide EXCEPT !.poked = FALSE]
    /\ UNCHANGED <<dialog, requests, crashes, abandoned>>

\* ... or ends.
ProgramExits ==
    /\ gdb.state = "running"
    /\ Answer(gdb.last, Unset, {"exit"})
    /\ gdb' = [gdb EXCEPT !.state = "prompt", !.program = "exited"]
    /\ ide' = [ide EXCEPT !.sigint = FALSE]
    /\ UNCHANGED <<dialog, requests, crashes, abandoned>>

\* SIGINT at the prompt: gdb says Quit and prints a prompt nobody asked for.
GdbIsPoked ==
    /\ gdb.state = "prompt" /\ ide.poked
    /\ Answer(NoCmd, Unset, {})
    /\ gdb' = [gdb EXCEPT !.stray = TRUE]
    /\ ide' = [ide EXCEPT !.poked = FALSE]
    /\ UNCHANGED <<dialog, requests, crashes, abandoned>>

GdbCrashes ==
    /\ gdb.state # "gone" /\ crashes < MaxCrashes
    /\ crashes' = crashes + 1
    /\ gdb' = [gdb EXCEPT !.state = "gone", !.program = "none"]
    /\ UNCHANGED <<ide, dialog, fromGdb, requests, abandoned>>

\* PipedProcess::OnTerminate: the rest of the output has been posted, the pointer to
\* the process is cleared and the event of its end posted behind the output.
ProcessEnds ==
    /\ gdb.state = "gone" /\ ide.m_pProcess
    /\ ide' = [ide EXCEPT !.m_pProcess = FALSE, !.toGdb = <<>>, !.sigint = FALSE, !.poked = FALSE]
    /\ UNCHANGED <<dialog, gdb, fromGdb, requests, crashes, abandoned>>

\* OnGDBTerminated: the driver goes, with its queue.
OnGDBTerminated ==
    /\ ide.hasDriver /\ ~ide.m_pProcess /\ fromGdb = <<>>
    /\ ide' = [ide EXCEPT !.hasDriver = FALSE, !.m_DCmds = <<>>, !.m_QueueBusy = FALSE,
                          !.m_ProgramIsStopped = TRUE, !.shown = TRUE]
    /\ UNCHANGED <<dialog, gdb, fromGdb, requests, crashes, abandoned>>

User ==
    \/ Debug \/ UserContinue \/ UserBreak \/ UserStop \/ UserKills
    \/ UserStep("step") \/ UserStep("finish")
    \/ \E b \in Breakpoints : \/ AddBreakpoint(b) \/ DeleteBreakpoint(b)
                              \/ EnableBreakpoint(b) \/ OpenDialog(b)
    \/ \E wish \in Wishes : CloseDialog(wish)

ProgramStops == StepEnds \/ \E k \in gdb.breaks : BreakIsHit(k)
Outside == GdbObeys \/ ProgramStops \/ SignalArrives \/ ProgramExits \/ GdbIsPoked \/ GdbCrashes

Next == User \/ HandleReply \/ ProcessEnds \/ OnGDBTerminated \/ Outside

Spec == Init /\ [][Next]_vars

-----------------------------------------------------------------------------
(* Properties. *)

\* The commands that gdb was sent and whose answers are not handled yet.
InFlight == [i \in DOMAIN fromGdb |-> fromGdb[i].of]
            \o (IF gdb.state = "running" THEN <<gdb.last>> ELSE <<>>) \o ide.toGdb

\* The session runs and gdb has printed no prompt but in answer to a command.
Undisturbed == ide.hasDriver /\ gdb.state # "gone" /\ ~gdb.stray

\* Nothing is on its way: gdb waits for a command, or the program runs.
AtPrompt == Undisturbed /\ InFlight = <<>>
Quiet == \/ AtPrompt /\ ide.m_DCmds = <<>>
         \/ Undisturbed /\ gdb.state = "running" /\ Len(ide.m_DCmds) = 1 /\ Len(InFlight) = 1

\* The driver holds a program for running that is not, and will not hear of it.
Deaf == AtPrompt /\ ~ide.m_ProgramIsStopped

\* An answer is parsed by the command that asked for it: one command is in flight
\* when the queue is busy, and it is the head; none is when the queue is idle.
\* (RunQueue, RemoveTopCommand, ParseOutput.)
RepliesMatch ==
    Undisturbed => InFlight = IF ide.m_QueueBusy THEN <<ide.m_DCmds[1]>> ELSE <<>>

\* Whatever was edited, and however the edits met the stops of the program: when
\* nothing is on its way, gdb has every enabled breakpoint of the list, under the
\* number the list has, with what the user asked of it, but for the condition of one that
\* was pending, which the list then knows to be still owed, and but for the breakpoints
\* whose place or condition gdb has turned down since they were last set.  And gdb keeps no
\* other than those that were removed or set anew before their number was known.
WantedAreSet ==
    Quiet => \A b \in Listed \ ide.turnedDown : ide.bps[b].enabled =>
        \E k \in gdb.breaks :
            /\ k.no = ide.bps[b].index /\ k.bp = b
            /\ \/ k.wish = ide.bps[b].wish
               \/ ide.bps[b].wantsCondition /\ k.wish = ide.bps[b].wish \ {"condition"}

OnlyAbandonedRemain ==
    Quiet => \A k \in gdb.breaks :
        \/ k.bp \in Listed /\ ide.bps[k.bp].enabled /\ ide.bps[k.bp].index = k.no
        \/ k.bp \in abandoned
GdbAgrees == WantedAreSet /\ OnlyAbandonedRemain

\* A program that stays stopped was shown to the user as stopped, unless the session
\* began with a temporary break left over from the one before (DoBreak,
\* OnCursorChanged, DebuggeeContinued).
StoppedIsShown ==
    AtPrompt /\ ide.m_DCmds = <<>> /\ gdb.program = "stopped" => ide.shown \/ ide.muted

\* The driver waits for the program to stop only while it runs, unless gdb has
\* refused to resume it while other commands were queued (ParseOutput asks for the
\* cursor only when the queue is empty).
DeafOnlyAfterRefusal == Deaf => gdb.refused /\ ide.m_DCmds # <<>>

\* The type invariant, and that the driver never waits for what cannot come.
DriverInv == TypeOK /\ DeafOnlyAfterRefusal

\* What is bound to happen: the event loop handles what was posted, gdb reads its
\* pipe, a signal is delivered, the end of a process is noticed.  The user need not
\* ask, and the program need not stop by itself.  (Only HandleReply takes an answer.
\* Between two steps of the user or the program there are finitely many of the others,
\* so that one condition is fair to each of them.)
Handled == fromGdb # <<>> /\ fromGdb' = Tail(fromGdb)
Bound   == ProcessEnds \/ OnGDBTerminated \/ GdbObeys \/ SignalArrives \/ GdbIsPoked

Fairness == WF_fromGdb(Handled) /\ WF_vars(Bound)
FairSpec == Spec /\ Fairness

\* The user's Stop is next: no command queued before it lets the program go on, and
\* if the program runs it was interrupted or has stopped already.  (Pressed between
\* an edit and the command that lets the program go on, Stop waits for that program.)
QuitIsNext ==
    /\ ide.hasDriver
    /\ ide.m_ProgramIsStopped \/ ide.sigint \/ ide.poked \/ fromGdb # <<>>
    /\ \E i \in DOMAIN ide.m_DCmds :
        /\ ide.m_DCmds[i].kind = "quit"
        /\ \A j \in 1..(i - 1) : Continues(ide.m_DCmds[j]) => j = 1 /\ ide.m_QueueBusy

\* A request to stop ends the session, also when the program was running, unless gdb
\* has refused to resume it or has printed a prompt nobody asked for.
StopEnds == QuitIsNext ~> (~ide.hasDriver \/ (Deaf /\ gdb.refused) \/ gdb.stray)

\* A break that was only made to edit a breakpoint is over some time: the program
\* goes on, or the session ends.
TemporaryBreakEnds ==
    (ide.hasDriver /\ ide.m_TemporaryBreak /\ ~ide.muted)
        ~> (~ide.m_TemporaryBreak \/ ~ide.hasDriver \/ (Deaf /\ gdb.refused) \/ gdb.stray)

=============================================================================
