---------------------------- MODULE MCProcesses ----------------------------
(* The instances of Processes that TLC checks. *)
EXTENDS Processes

\* Two processes with IDs of their own, and one that replaces the first.
Ids == [p \in Procs |-> IF p = "two" THEN "b" ELSE "a"]
====
