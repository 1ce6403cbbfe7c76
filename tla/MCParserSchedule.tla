-------------------------- MODULE MCParserSchedule --------------------------
(* Instances of ParserSchedule for TLC.                                      *)
EXTENDS ParserSchedule, TLC

NoIncludes == [x \in Files |-> {}]
(* Headers that include each other.                                          *)
Cyclic == [x \in Files |-> Files \ {x}]

Symmetry == Permutations(Parsers) \cup Permutations(Files) \cup Permutations(Defs)

(* Every parser has a project: the runs of one project start here.           *)
MCInit == Init /\ m_Project = [p \in Parsers |-> CHOOSE project \in Projects : TRUE]
MCFairSpec == MCInit /\ [][Next]_vars /\ Fairness
MCSpec == MCInit /\ [][Next]_vars
=============================================================================
