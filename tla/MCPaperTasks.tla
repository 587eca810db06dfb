---- MODULE MCPaperTasks ----
(* Instances of PaperTasks for TLC. *)
EXTENDS PaperTasks, TLC

Symmetric == Permutations(Tasks)
====
