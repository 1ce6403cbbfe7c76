-------------------------- MODULE MCDebuggerQueue --------------------------
(* Instances of DebuggerQueue for TLC. *)
EXTENDS DebuggerQueue

AllRequests == {"Debug", "AddBreakpoint", "DeleteBreakpoint", "EnableBreakpoint",
                "UpdateBreakpoint", "Continue", "Step", "StepOut", "Break", "Stop"}

OneWish == {{}, {"condition"}}
BothWishes == {{"condition", "ignore"}}
AnyAnswer == {"pending", "refuse", "no symbol"}

\* The names of breakpoints are interchangeable: they are taken in one order (TLC
\* cannot use symmetry with liveness), and gdb answers of the first one only with
\* anything but that all is well.
NextName == CHOOSE b \in Breakpoints \ ide.made : TRUE
First == CHOOSE b \in Breakpoints : TRUE
Odd(r) == r.says # "ok" \/ (r.of.kind = "break" /\ r.no = Unset)

\* A gdb that has answered so does not die as well.
AllIsWell ==
    /\ ide.turnedDown = {} /\ \A b \in Breakpoints : ~ide.bps[b].wantsCondition
    /\ \A i \in DOMAIN fromGdb : ~Odd(fromGdb[i])

MCNext ==
    /\ Next
    /\ \A b \in ide'.made \ ide.made : b = NextName
    /\ \A i \in DOMAIN fromGdb' : Odd(fromGdb'[i]) => fromGdb'[i].of.bp = First /\ crashes = 0
    /\ crashes' # crashes => AllIsWell
MCSpec == Init /\ [][MCNext]_vars
MCFairSpec == Init /\ [][MCNext]_vars /\ Fairness
=============================================================================
