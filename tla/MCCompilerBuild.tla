--------------------------- MODULE MCCompilerBuild ---------------------------
(* Instances of CompilerBuild for TLC: t1 and t2 are targets of the project P,
   t3 is a target of the project Q.                                          *)
EXTENDS CompilerBuild, TLC
CONSTANTS t1, t2, t3, P, Q

TheProjectOf == [t \in Targets |-> IF t = t3 THEN Q ELSE P]
NoneOrThird == {<<>>, <<t3>>}
AllTargets == {<<t1, t2, t3>>}
=============================================================================
