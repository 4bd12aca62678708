------------------------------- MODULE MCWeb -------------------------------
(* Two tabs of one browser and one of another.                             *)
EXTENDS Web

MCOwner == [t \in {"a1", "a2", "b1"} |-> IF t = "b1" THEN "bob" ELSE "ann"]
=============================================================================
