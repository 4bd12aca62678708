---------------------------- MODULE MCSignaling ----------------------------
(* The instances of Signaling that TLC checks. *)
EXTENDS Signaling

OneHost == [c \in Calls |-> "h1"]
AnswerOne == <<"h1">>
====
