--------------------------- MODULE MCSystemTasks ---------------------------
(* Instances of SystemTasks for TLC.                                         *)
EXTENDS SystemTasks, TLC

(* Tasks and runners are interchangeable when all or none of them may crash  *)
(* or age.                                                                   *)
Symmetry == Permutations(Tasks) \cup Permutations(Runners)
=============================================================================
