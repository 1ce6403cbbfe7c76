---------------------------- MODULE MCFileLoading ----------------------------
(* Instances of FileLoading for TLC: a behaviour in which something is loaded has
   fewer edits and failures than one in which nothing is, no save of a copy and,
   after the load has begun, no crash.                                       *)
EXTENDS FileLoading

CONSTANTS EditsBesideLoads, FailuresBesideLoads

Small ==
    loads > 0 => /\ edits <= EditsBesideLoads /\ failures <= FailuresBesideLoads
                 /\ call.to = "doc" /\ crashes = 0
MCFairSpec == LoadInit /\ [][LoadNext /\ Small']_allVars /\ LoadFairness
=============================================================================
