----------------------------- MODULE CallQueue -----------------------------
(***************************************************************************)
(* What a WebRTCCallQueue (rpc/wrtc_call_queue.go) promises the two sides  *)
(* of a call, however it carries an offer from one to the other: an offer  *)
(* goes to one answerer at most, the caller learns the answerer's          *)
(* responses in the order they were given, the answerer learns the         *)
(* caller's candidates in the order they were given, and neither learns    *)
(* what was not said.                                                      *)
(***************************************************************************)
EXTENDS Naturals

CONSTANTS Calls, Answerers, None

VARIABLES
  phase,   \* of an offer: none, open, taken, or gone untaken
  holder,  \* the answerer that took it
  said,    \* responses given with AnswererRespond
  heard,   \* responses the caller has been handed
  csaid,   \* candidates given with SendOfferUpdate
  cheard   \* candidates the answerer has been handed

vars == <<phase, holder, said, heard, csaid, cheard>>

Init ==
  /\ phase = [c \in Calls |-> "none"] /\ holder = [c \in Calls |-> None]
  /\ said = [c \in Calls |-> 0] /\ heard = [c \in Calls |-> 0]
  /\ csaid = [c \in Calls |-> 0] /\ cheard = [c \in Calls |-> 0]

SendOffer(c) ==
  /\ phase[c] = "none"
  /\ phase' = [phase EXCEPT ![c] = "open"]
  /\ UNCHANGED <<holder, said, heard, csaid, cheard>>

RecvOffer(c, a) ==
  /\ phase[c] = "open"
  /\ phase' = [phase EXCEPT ![c] = "taken"] /\ holder' = [holder EXCEPT ![c] = a]
  /\ UNCHANGED <<said, heard, csaid, cheard>>

\* The deadline of an offer nobody took passes.
Expire(c) ==
  /\ phase[c] = "open"
  /\ phase' = [phase EXCEPT ![c] = "gone"]
  /\ UNCHANGED <<holder, said, heard, csaid, cheard>>

AnswererRespond(c) ==
  /\ phase[c] = "taken"
  /\ said' = [said EXCEPT ![c] = @ + 1]
  /\ UNCHANGED <<phase, holder, heard, csaid, cheard>>

CallerHears(c) ==
  /\ \E n \in heard[c] + 1 .. said[c] : heard' = [heard EXCEPT ![c] = n]
  /\ UNCHANGED <<phase, holder, said, csaid, cheard>>

\* The caller knows its offer's identifier from the first response.
SendOfferUpdate(c) ==
  /\ heard[c] > 0
  /\ csaid' = [csaid EXCEPT ![c] = @ + 1]
  /\ UNCHANGED <<phase, holder, said, heard, cheard>>

AnswererHears(c) ==
  /\ \E n \in cheard[c] + 1 .. csaid[c] : cheard' = [cheard EXCEPT ![c] = n]
  /\ UNCHANGED <<phase, holder, said, heard, csaid>>

Next ==
  \E c \in Calls :
    \/ SendOffer(c) \/ Expire(c) \/ AnswererRespond(c) \/ CallerHears(c) \/ SendOfferUpdate(c)
    \/ AnswererHears(c) \/ \E a \in Answerers : RecvOffer(c, a)

Spec == Init /\ [][Next]_vars
====
