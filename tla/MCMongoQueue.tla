---------------------------- MODULE MCMongoQueue ----------------------------
(* The instances of MongoQueue that TLC checks. *)
EXTENDS MongoQueue, TLC

Callers == [c \in Calls |-> "o1"]
AnswerersSame == [a \in Answerers |-> "o1"]
OneOfTwo == [a \in Answerers |-> IF a = "a1" THEN "o1" ELSE "o2"]
OneHost == [c \in Calls |-> "h1"]
AnswerOne == [a \in Answerers |-> {"h1"}]
Alike == Permutations(Answerers)
====
