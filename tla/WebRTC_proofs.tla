--------------------------- MODULE WebRTC_proofs ---------------------------
(***************************************************************************)
(* Proofs about a WebRTC connection.  WebRTCDial, for any number of        *)
(* candidates, tracks and failures: the answering side is told how the     *)
(* call ended at most once and after every candidate, and it is told       *)
(* unless the dial's context is over (CallInv), and dialWebRTC leaves      *)
(* nothing behind (NothingLeft), whichever of its goroutines comes first.  *)
(* BaseChannel, the channel on the connection, for any number of   *)
(* writers and closers and any threshold and message size: ChannelInv.     *)
(***************************************************************************)
EXTENDS WebRTCDial, BaseChannel, FiniteSetTheorems, TLAPS

----------------------------------------------------------------------------
(* The inductive invariant. *)

N == Cardinality(Cands)

\* The types of the records and of the sequences.
Updates == [kind : {"candidate", "done", "error"}, by : Cands \cup {"main", "last", "xch"}, uuid : BOOLEAN]
Known == 0 .. MaxTracks
Places == {"signal", "config", "offer", "waitOneHost", "call", "select", "done", "error", "cleanup", "returned"}

DataType ==
  /\ main \in [at : Places, res : {"none", "ok", "both", "error", "nosignaler"}]
  /\ neg \in [open : BOOLEAN, tracks : Known, needed : BOOLEAN, state : {"stable", "offered"},
              known : Known, offers : Seq(Known), answers : Seq(Known)]
  /\ sent \in Seq(Updates)

\* Before the offer there is no peer connection that could find candidates, and
\* before Call no exchange.
Stages ==
  /\ main.at = "signal" => sig = "none"
  /\ main.at \in {"signal", "config"} =>
       peer = "none" /\ last = "none" /\ sent = <<>> /\ \A c \in Cands : cand[c] = "none"
  /\ main.at \in {"signal", "config", "offer", "waitOneHost", "call"} => xch = "none"

\* A dial that succeeds has its channel from doCall on, and who gave up has no
\* peer connection left that could still connect.
Left ==
  /\ main.at = "done" \/ main.res \in {"ok", "both"} => peer = "ready"
  /\ main.res = "both" => main.at = "returned"
  /\ main.at = "returned" =>
       sig # "open" /\ (main.res \notin {"ok", "both"} => peer \in {"none", "closed"})

\* The final update is made in sendDoneErrorOnce, and goes out unless the
\* exchange is over: with the dial's context, as the main goroutine leaves an
\* exchange only when it is concluded, or because there was none.
Concluding ==
  /\ Finals # {} => once # "free"
  /\ once # "free" /\ Finals = {} =>
       ctx = "done" \/ (main.at \in {"cleanup", "returned"} /\ xch = "none")
  /\ \A i, j \in Finals : i = j
  /\ once = "main" => main.at \in {"done", "error"}
  /\ main.at \in {"cleanup", "returned"} /\ xch # "none" => once = "over"

\* The end of gathering comes after all candidates, and its update after theirs.
Gathered ==
  /\ last # "none" => gathered = N + 1
  /\ \A i \in DOMAIN sent : sent[i].kind = "candidate" => sent[i].uuid
  /\ \A i \in Finals : sent[i].by = "last" =>
       i = Len(sent) /\ PendingCandidates = {} /\ gathered = N + 1

Inv == TypeOK /\ DataType /\ Stages /\ Left /\ Concluding /\ Gathered
----------------------------------------------------------------------------
(* Candidates and updates. *)

\* The candidates are numbered.
LEMMA Counted == N \in Nat /\ Cands = 1 .. N
  BY WebRTCDialAssumption, FS_CardinalityType DEF N

\* What an update appends to the updates sent.
LEMMA Appended ==
  ASSUME NEW q \in Seq(Updates), NEW u \in Updates
  PROVE  /\ Append(q, u) \in Seq(Updates) /\ Len(q) \in Nat /\ DOMAIN q = 1 .. Len(q)
         /\ Len(Append(q, u)) = Len(q) + 1 /\ DOMAIN Append(q, u) = 1 .. (Len(q) + 1)
         /\ Append(q, u)[Len(q) + 1] = u /\ \A i \in 1 .. Len(q) : Append(q, u)[i] = q[i]
OBVIOUS

\* The head and the rest of a queue of descriptions.
LEMMA Popped ==
  ASSUME NEW q \in Seq(Known), q # <<>>
  PROVE  Head(q) \in Known /\ Tail(q) \in Seq(Known)
OBVIOUS

\* A description joins a queue of them.
LEMMA Pushed ==
  ASSUME NEW q \in Seq(Known), NEW x \in Known
  PROVE  Append(q, x) \in Seq(Known)
OBVIOUS

\* The update a goroutine concludes the call with.
LEMMA Entered ==
  ASSUME DataType, TypeOK, NEW g \in {"main", "last", "xch"}, NEW k \in {"done", "error"}, Enter(g, k)
  PROVE  /\ once = "free" /\ once' = g /\ sent' \in Seq(Updates) /\ Len(sent) \in Nat
         /\ ExchangeOver => sent' = sent
         /\ ~ExchangeOver =>
              /\ DOMAIN sent = 1 .. Len(sent) /\ DOMAIN sent' = 1 .. (Len(sent) + 1) /\ Len(sent') = Len(sent) + 1
              /\ sent'[Len(sent) + 1].kind = k /\ sent'[Len(sent) + 1].by = g
              /\ \A i \in 1 .. Len(sent) : sent'[i] = sent[i]
<1> DEFINE u == [kind |-> k, by |-> g, uuid |-> haveInit]
<1>1. u \in Updates /\ u.kind = k /\ u.by = g /\ sent \in Seq(Updates)
  BY DEF Updates, DataType, TypeOK
<1>2. sent' = (IF ExchangeOver THEN sent ELSE Append(sent, u)) /\ once = "free" /\ once' = g
  BY DEF Enter, CallUpdate
<1> HIDE DEF u
<1> QED
  BY <1>1, <1>2, Appended

\* The update of a candidate.
LEMMA Trickled ==
  ASSUME DataType, TypeOK, NEW c \in Cands, SendCandidate(c)
  PROVE  /\ sent' \in Seq(Updates) /\ Len(sent) \in Nat
         /\ ExchangeOver => sent' = sent
         /\ ~ExchangeOver =>
              /\ DOMAIN sent = 1 .. Len(sent) /\ DOMAIN sent' = 1 .. (Len(sent) + 1) /\ Len(sent') = Len(sent) + 1
              /\ sent'[Len(sent) + 1].kind = "candidate" /\ sent'[Len(sent) + 1].uuid
              /\ \A i \in 1 .. Len(sent) : sent'[i] = sent[i]
<1> DEFINE u == [kind |-> "candidate", by |-> c, uuid |-> haveInit]
<1>1. u \in Updates /\ u.kind = "candidate" /\ u.uuid = haveInit /\ sent \in Seq(Updates)
  BY DEF Updates, DataType, TypeOK
<1>2. sent' = (IF ExchangeOver THEN sent ELSE Append(sent, u)) /\ haveInit
  BY DEF SendCandidate, CallUpdate
<1> HIDE DEF u
<1> QED
  BY <1>1, <1>2, Appended

----------------------------------------------------------------------------
(* The types. *)

\* Every variable stays in its range; who is in sendDoneErrorOnce is sending.
LEMMA TypeStep ==
  ASSUME Inv, [Next]_vars
  PROVE  TypeOK'
<1> USE WebRTCDialAssumption DEF Inv, TypeOK, Goes, Main, Fault, FaultIf, AfterUpdate, Reports, Places, dialVars, Known, N
<1>t. /\ main.at \in Places /\ main.res \in {"none", "ok", "both", "error", "nosignaler"} /\ neg.known \in Known /\ neg.tracks \in Known
      /\ neg.state \in {"stable", "offered"} /\ neg.offers \in Seq(Known) /\ N \in Nat /\ Cands = 1 .. N
  BY Counted DEF DataType
<1>1. CASE DialSignalingServer
  BY <1>1, <1>t DEF DialSignalingServer
<1>2. CASE Configure
  BY <1>2, <1>t DEF Configure
<1>3. CASE Offer
  BY <1>3, <1>t DEF Offer
<1>4. CASE WaitOneHost
  BY <1>4, <1>t DEF WaitOneHost
<1>5. CASE Call
  BY <1>5, <1>t DEF Call, Stages
<1>6. CASE DoCall
  BY <1>6, <1>t DEF DoCall
<1>7. CASE MainConcluded
  BY <1>7, <1>t DEF MainConcluded
<1>8. CASE Cleanup
  BY <1>8, <1>t DEF Cleanup
<1>9. CASE LastSent
  BY <1>9, <1>t DEF LastSent
<1>10. CASE LastReports
  BY <1>10, <1>t DEF LastReports
<1>11. CASE LastStops
  BY <1>11, <1>t DEF LastStops
<1>12. CASE RecvInit
  BY <1>12, <1>t DEF RecvInit
<1>13. CASE RecvFails
  BY <1>13, <1>t DEF RecvFails
<1>14. CASE ExchangeSent
  BY <1>14, <1>t DEF ExchangeSent
<1>15. CASE ExchangeReports
  BY <1>15, <1>t DEF ExchangeReports
<1>16. CASE ContextOver
  BY <1>16, <1>t DEF ContextOver
<1>17. CASE OnICECandidate
  BY <1>17, <1>t, SMTT(30) DEF OnICECandidate, Gathering, Gathered
<1>18. CASE Connect
  BY <1>18, <1>t DEF Connect
<1>19. CASE AddTrack
  BY <1>19, <1>t DEF AddTrack, DataType
<1>20. CASE NegChannelOpen
  BY <1>20, <1>t DEF NegChannelOpen, DataType
<1>21. CASE OnNegotiationNeeded
  BY <1>21, <1>t DEF OnNegotiationNeeded, DataType
<1>22. CASE OnNegotiationNeededFails
  BY <1>22, <1>t DEF OnNegotiationNeededFails, DataType
<1>23. CASE ClientOnMessage
  <2>1. Head(neg.offers) \in Known
    BY <1>23, <1>t, Popped DEF ClientOnMessage
  <2> QED
    BY <1>23, <1>t, <2>1 DEF ClientOnMessage, DataType
<1>24. CASE ClientOnMessageFails
  <2>1. Head(neg.offers) \in Known
    BY <1>24, <1>t, Popped DEF ClientOnMessageFails
  <2>2. PICK k \in {neg.known, Head(neg.offers)} : neg' = [neg EXCEPT !.known = k, !.offers = Tail(neg.offers)]
    BY <1>24 DEF ClientOnMessageFails
  <2>3. neg'.known = k /\ neg'.tracks = neg.tracks /\ neg'.state = neg.state /\ k \in Known
    BY <1>t, <2>1, <2>2 DEF DataType
  <2> QED
    BY <1>24, <1>t, <2>3 DEF ClientOnMessageFails
<1>25. CASE ServerOnMessage
  BY <1>25, <1>t DEF ServerOnMessage, DataType
<1>26. CASE ServerOnMessageFails
  BY <1>26, <1>t DEF ServerOnMessageFails, DataType
<1>27. CASE MainDone
  BY <1>27, <1>t DEF MainDone, Enter
<1>28. CASE MainError
  BY <1>28, <1>t DEF MainError, Enter
<1>29. CASE LastSends
  BY <1>29, <1>t DEF LastSends, Enter
<1>30. CASE ExchangeSends
  BY <1>30, <1>t DEF ExchangeSends, Enter
<1>31. ASSUME NEW c \in Cands, CandidateSent(c) PROVE TypeOK'
  BY <1>31, <1>t DEF CandidateSent
<1>32. ASSUME NEW c \in Cands, CandidateReports(c) PROVE TypeOK'
  BY <1>32, <1>t DEF CandidateReports
<1>33. ASSUME NEW c \in Cands, CandidateStops(c) PROVE TypeOK'
  BY <1>33, <1>t DEF CandidateStops
<1>34. ASSUME NEW c \in Cands, SendCandidate(c) PROVE TypeOK'
  BY <1>34, <1>t DEF SendCandidate
<1>35. CASE UNCHANGED vars
  BY <1>35, <1>t DEF vars
<1> QED
  BY <1>1, <1>2, <1>3, <1>4, <1>5, <1>6, <1>7, <1>8, <1>9, <1>10, <1>11, <1>12, <1>13, <1>14, <1>15, <1>16, <1>17, <1>18, <1>19, <1>20, <1>21, <1>22, <1>23, <1>24, <1>25, <1>26, <1>27, <1>28, <1>29, <1>30, <1>31, <1>32, <1>33, <1>34, <1>35
  DEF Next, MainStep, LastStep, ExchangeStep, CandStep, NegStep

\* The records and the sequences keep their types.
LEMMA DataStep ==
  ASSUME Inv, [Next]_vars
  PROVE  DataType'
<1> USE WebRTCDialAssumption DEF Inv, DataType, Main, Fault, FaultIf, AfterUpdate, Reports, Places, dialVars, Goes
<1>1. CASE DialSignalingServer
  BY <1>1 DEF DialSignalingServer
<1>2. CASE Configure
  BY <1>2 DEF Configure
<1>3. CASE Offer
  BY <1>3 DEF Offer
<1>4. CASE WaitOneHost
  BY <1>4 DEF WaitOneHost
<1>5. CASE Call
  BY <1>5 DEF Call
<1>6. CASE DoCall
  BY <1>6 DEF DoCall
<1>7. CASE MainConcluded
  BY <1>7 DEF MainConcluded
<1>8. CASE Cleanup
  BY <1>8 DEF Cleanup
<1>9. CASE LastSent
  BY <1>9 DEF LastSent
<1>10. CASE LastReports
  BY <1>10 DEF LastReports
<1>11. CASE LastStops
  BY <1>11 DEF LastStops
<1>12. CASE RecvInit
  BY <1>12 DEF RecvInit
<1>13. CASE RecvFails
  BY <1>13 DEF RecvFails
<1>14. CASE ExchangeSent
  BY <1>14 DEF ExchangeSent
<1>15. CASE ExchangeReports
  BY <1>15 DEF ExchangeReports
<1>16. CASE ContextOver
  BY <1>16 DEF ContextOver
<1>17. CASE OnICECandidate
  BY <1>17 DEF OnICECandidate
<1>18. CASE Connect
  BY <1>18 DEF Connect
<1>19. CASE AddTrack
  <2>1. neg.tracks \in Known /\ neg.tracks < MaxTracks
    BY <1>19 DEF AddTrack
  <2>2. neg.tracks + 1 \in Known
    BY <2>1 DEF Known
  <2> QED
    BY <1>19, <2>2 DEF AddTrack
<1>20. CASE NegChannelOpen
  BY <1>20 DEF NegChannelOpen
<1>21. CASE OnNegotiationNeeded
  <2>1. Append(neg.offers, neg.tracks) \in Seq(Known)
    BY <1>21, Pushed DEF OnNegotiationNeeded
  <2>2. neg' \in [open : BOOLEAN, tracks : Known, needed : BOOLEAN, state : {"stable", "offered"},
                 known : Known, offers : Seq(Known), answers : Seq(Known)]
    BY <1>21, <2>1 DEF OnNegotiationNeeded
  <2> QED
    BY <1>21, <2>2 DEF OnNegotiationNeeded
<1>22. CASE OnNegotiationNeededFails
  BY <1>22 DEF OnNegotiationNeededFails
<1>23. CASE ClientOnMessage
  <2>1. Head(neg.offers) \in Known /\ Tail(neg.offers) \in Seq(Known) /\ Append(neg.answers, Head(neg.offers)) \in Seq(Known)
    BY <1>23, Popped, Pushed DEF ClientOnMessage
  <2>2. neg' \in [open : BOOLEAN, tracks : Known, needed : BOOLEAN, state : {"stable", "offered"},
                 known : Known, offers : Seq(Known), answers : Seq(Known)]
    BY <1>23, <2>1 DEF ClientOnMessage
  <2> QED
    BY <1>23, <2>2 DEF ClientOnMessage
<1>24. CASE ClientOnMessageFails
  <2>1. Head(neg.offers) \in Known /\ Tail(neg.offers) \in Seq(Known)
    BY <1>24, Popped DEF ClientOnMessageFails
  <2>2. neg' \in [open : BOOLEAN, tracks : Known, needed : BOOLEAN, state : {"stable", "offered"},
                 known : Known, offers : Seq(Known), answers : Seq(Known)]
    BY <1>24, <2>1 DEF ClientOnMessageFails
  <2> QED
    BY <1>24, <2>2 DEF ClientOnMessageFails
<1>25. CASE ServerOnMessage
  <2>1. Tail(neg.answers) \in Seq(Known)
    BY <1>25, Popped DEF ServerOnMessage
  <2>2. neg' \in [open : BOOLEAN, tracks : Known, needed : BOOLEAN, state : {"stable", "offered"},
                 known : Known, offers : Seq(Known), answers : Seq(Known)]
    BY <1>25, <2>1 DEF ServerOnMessage
  <2> QED
    BY <1>25, <2>2 DEF ServerOnMessage
<1>26. CASE ServerOnMessageFails
  <2>1. Tail(neg.answers) \in Seq(Known)
    BY <1>26, Popped DEF ServerOnMessageFails
  <2>2. neg' \in [open : BOOLEAN, tracks : Known, needed : BOOLEAN, state : {"stable", "offered"},
                 known : Known, offers : Seq(Known), answers : Seq(Known)]
    BY <1>26, <2>1 DEF ServerOnMessageFails
  <2> QED
    BY <1>26, <2>2 DEF ServerOnMessageFails
<1>27. CASE MainDone
  <2>1. main' \in [at : Places, res : {"none", "ok", "both", "error", "nosignaler"}] /\ neg' = neg
    BY <1>27 DEF MainDone
  <2>2. sent' \in Seq(Updates)
    BY <1>27, Entered DEF MainDone
  <2> QED
    BY <2>1, <2>2
<1>28. CASE MainError
  <2>1. main' \in [at : Places, res : {"none", "ok", "both", "error", "nosignaler"}] /\ neg' = neg
    BY <1>28 DEF MainError
  <2>2. sent' \in Seq(Updates)
    BY <1>28, Entered DEF MainError
  <2> QED
    BY <2>1, <2>2
<1>29. CASE LastSends
  <2>1. main' \in [at : Places, res : {"none", "ok", "both", "error", "nosignaler"}] /\ neg' = neg
    BY <1>29 DEF LastSends
  <2>2. sent' \in Seq(Updates)
    BY <1>29, Entered DEF LastSends
  <2> QED
    BY <2>1, <2>2
<1>30. CASE ExchangeSends
  <2>1. main' \in [at : Places, res : {"none", "ok", "both", "error", "nosignaler"}] /\ neg' = neg
    BY <1>30 DEF ExchangeSends
  <2>2. sent' \in Seq(Updates)
    BY <1>30, Entered DEF ExchangeSends
  <2> QED
    BY <2>1, <2>2
<1>31. ASSUME NEW c \in Cands, CandidateSent(c) PROVE DataType'
  BY <1>31 DEF CandidateSent
<1>32. ASSUME NEW c \in Cands, CandidateReports(c) PROVE DataType'
  BY <1>32 DEF CandidateReports
<1>33. ASSUME NEW c \in Cands, CandidateStops(c) PROVE DataType'
  BY <1>33 DEF CandidateStops
<1>34. ASSUME NEW c \in Cands, SendCandidate(c) PROVE DataType'
  BY <1>34, Trickled DEF SendCandidate
<1>35. CASE UNCHANGED vars
  BY <1>35 DEF vars
<1> QED
  BY <1>1, <1>2, <1>3, <1>4, <1>5, <1>6, <1>7, <1>8, <1>9, <1>10, <1>11, <1>12, <1>13, <1>14, <1>15, <1>16, <1>17, <1>18, <1>19, <1>20, <1>21, <1>22, <1>23, <1>24, <1>25, <1>26, <1>27, <1>28, <1>29, <1>30, <1>31, <1>32, <1>33, <1>34, <1>35
  DEF Next, MainStep, LastStep, ExchangeStep, CandStep, NegStep

----------------------------------------------------------------------------
(* The main goroutine. *)

\* The stages of dialWebRTC come one after the other.
LEMMA StageStep ==
  ASSUME Inv, [Next]_vars
  PROVE  Stages'
<1> USE WebRTCDialAssumption DEF Inv, Stages, Main, Fault, FaultIf, AfterUpdate, Reports, Gathering, dialVars
<1>t. main \in [at : Places, res : {"none", "ok", "both", "error", "nosignaler"}] /\ cand \in [Cands -> Goes]
  BY DEF DataType, TypeOK
<1>1. CASE DialSignalingServer
  BY <1>1, <1>t DEF DialSignalingServer
<1>2. CASE Configure
  BY <1>2, <1>t DEF Configure
<1>3. CASE Offer
  BY <1>3, <1>t DEF Offer
<1>4. CASE WaitOneHost
  BY <1>4, <1>t DEF WaitOneHost
<1>5. CASE Call
  BY <1>5, <1>t DEF Call
<1>6. CASE DoCall
  BY <1>6, <1>t DEF DoCall
<1>7. CASE MainConcluded
  BY <1>7, <1>t DEF MainConcluded
<1>8. CASE Cleanup
  BY <1>8, <1>t DEF Cleanup
<1>9. CASE LastSent
  BY <1>9, <1>t DEF LastSent
<1>10. CASE LastReports
  BY <1>10, <1>t DEF LastReports
<1>11. CASE LastStops
  BY <1>11, <1>t DEF LastStops
<1>12. CASE RecvInit
  BY <1>12, <1>t DEF RecvInit
<1>13. CASE RecvFails
  BY <1>13, <1>t DEF RecvFails
<1>14. CASE ExchangeSent
  BY <1>14, <1>t DEF ExchangeSent
<1>15. CASE ExchangeReports
  BY <1>15, <1>t DEF ExchangeReports
<1>16. CASE ContextOver
  BY <1>16, <1>t DEF ContextOver
<1>17. CASE OnICECandidate
  BY <1>17, <1>t DEF OnICECandidate
<1>18. CASE Connect
  BY <1>18, <1>t DEF Connect
<1>19. CASE AddTrack
  BY <1>19, <1>t DEF AddTrack
<1>20. CASE NegChannelOpen
  BY <1>20, <1>t DEF NegChannelOpen
<1>21. CASE OnNegotiationNeeded
  BY <1>21, <1>t DEF OnNegotiationNeeded
<1>22. CASE OnNegotiationNeededFails
  BY <1>22, <1>t DEF OnNegotiationNeededFails
<1>23. CASE ClientOnMessage
  BY <1>23, <1>t DEF ClientOnMessage
<1>24. CASE ClientOnMessageFails
  BY <1>24, <1>t DEF ClientOnMessageFails
<1>25. CASE ServerOnMessage
  BY <1>25, <1>t DEF ServerOnMessage
<1>26. CASE ServerOnMessageFails
  BY <1>26, <1>t DEF ServerOnMessageFails
<1>27. CASE MainDone
  BY <1>27, <1>t DEF MainDone, Enter
<1>28. CASE MainError
  BY <1>28, <1>t DEF MainError, Enter
<1>29. CASE LastSends
  BY <1>29, <1>t DEF LastSends, Enter
<1>30. CASE ExchangeSends
  BY <1>30, <1>t DEF ExchangeSends, Enter
<1>31. ASSUME NEW c \in Cands, CandidateSent(c) PROVE Stages'
  BY <1>31, <1>t DEF CandidateSent
<1>32. ASSUME NEW c \in Cands, CandidateReports(c) PROVE Stages'
  BY <1>32, <1>t DEF CandidateReports
<1>33. ASSUME NEW c \in Cands, CandidateStops(c) PROVE Stages'
  BY <1>33, <1>t DEF CandidateStops
<1>34. ASSUME NEW c \in Cands, SendCandidate(c) PROVE Stages'
  BY <1>34, <1>t DEF SendCandidate
<1>35. CASE UNCHANGED vars
  BY <1>35, <1>t DEF vars
<1> QED
  BY <1>1, <1>2, <1>3, <1>4, <1>5, <1>6, <1>7, <1>8, <1>9, <1>10, <1>11, <1>12, <1>13, <1>14, <1>15, <1>16, <1>17, <1>18, <1>19, <1>20, <1>21, <1>22, <1>23, <1>24, <1>25, <1>26, <1>27, <1>28, <1>29, <1>30, <1>31, <1>32, <1>33, <1>34, <1>35
  DEF Next, MainStep, LastStep, ExchangeStep, CandStep, NegStep

\* What a dial leaves behind is settled when it returns.
LEMMA LeftStep ==
  ASSUME Inv, [Next]_vars
  PROVE  Left'
<1> USE WebRTCDialAssumption DEF Inv, Left, Main, Fault, FaultIf, AfterUpdate, Reports, Gathering, dialVars
<1>t. /\ main \in [at : Places, res : {"none", "ok", "both", "error", "nosignaler"}]
      /\ peer \in {"none", "open", "ready", "closed"}
  BY DEF DataType, TypeOK
<1>1. CASE DialSignalingServer
  BY <1>1, <1>t DEF DialSignalingServer, Stages
<1>2. CASE Configure
  BY <1>2, <1>t DEF Configure, Stages
<1>3. CASE Offer
  BY <1>3, <1>t DEF Offer
<1>4. CASE WaitOneHost
  BY <1>4, <1>t DEF WaitOneHost
<1>5. CASE Call
  BY <1>5, <1>t DEF Call
<1>6. CASE DoCall
  BY <1>6, <1>t DEF DoCall
<1>7. CASE MainConcluded
  BY <1>7, <1>t DEF MainConcluded, Concluding
<1>8. CASE Cleanup
  BY <1>8, <1>t DEF Cleanup
<1>9. CASE LastSent
  BY <1>9, <1>t DEF LastSent
<1>10. CASE LastReports
  BY <1>10, <1>t DEF LastReports
<1>11. CASE LastStops
  BY <1>11, <1>t DEF LastStops
<1>12. CASE RecvInit
  BY <1>12, <1>t DEF RecvInit
<1>13. CASE RecvFails
  BY <1>13, <1>t DEF RecvFails
<1>14. CASE ExchangeSent
  BY <1>14, <1>t DEF ExchangeSent
<1>15. CASE ExchangeReports
  BY <1>15, <1>t DEF ExchangeReports
<1>16. CASE ContextOver
  BY <1>16, <1>t DEF ContextOver
<1>17. CASE OnICECandidate
  BY <1>17, <1>t DEF OnICECandidate
<1>18. CASE Connect
  BY <1>18, <1>t DEF Connect
<1>19. CASE AddTrack
  BY <1>19, <1>t DEF AddTrack
<1>20. CASE NegChannelOpen
  BY <1>20, <1>t DEF NegChannelOpen
<1>21. CASE OnNegotiationNeeded
  BY <1>21, <1>t DEF OnNegotiationNeeded
<1>22. CASE OnNegotiationNeededFails
  BY <1>22, <1>t DEF OnNegotiationNeededFails
<1>23. CASE ClientOnMessage
  BY <1>23, <1>t DEF ClientOnMessage
<1>24. CASE ClientOnMessageFails
  BY <1>24, <1>t DEF ClientOnMessageFails
<1>25. CASE ServerOnMessage
  BY <1>25, <1>t DEF ServerOnMessage
<1>26. CASE ServerOnMessageFails
  BY <1>26, <1>t DEF ServerOnMessageFails
<1>27. CASE MainDone
  BY <1>27, <1>t DEF MainDone, Enter
<1>28. CASE MainError
  BY <1>28, <1>t DEF MainError, Enter
<1>29. CASE LastSends
  BY <1>29, <1>t DEF LastSends, Enter
<1>30. CASE ExchangeSends
  BY <1>30, <1>t DEF ExchangeSends, Enter
<1>31. ASSUME NEW c \in Cands, CandidateSent(c) PROVE Left'
  BY <1>31, <1>t DEF CandidateSent
<1>32. ASSUME NEW c \in Cands, CandidateReports(c) PROVE Left'
  BY <1>32, <1>t DEF CandidateReports
<1>33. ASSUME NEW c \in Cands, CandidateStops(c) PROVE Left'
  BY <1>33, <1>t DEF CandidateStops
<1>34. ASSUME NEW c \in Cands, SendCandidate(c) PROVE Left'
  BY <1>34, <1>t DEF SendCandidate
<1>35. CASE UNCHANGED vars
  BY <1>35, <1>t DEF vars
<1> QED
  BY <1>1, <1>2, <1>3, <1>4, <1>5, <1>6, <1>7, <1>8, <1>9, <1>10, <1>11, <1>12, <1>13, <1>14, <1>15, <1>16, <1>17, <1>18, <1>19, <1>20, <1>21, <1>22, <1>23, <1>24, <1>25, <1>26, <1>27, <1>28, <1>29, <1>30, <1>31, <1>32, <1>33, <1>34, <1>35
  DEF Next, MainStep, LastStep, ExchangeStep, CandStep, NegStep

----------------------------------------------------------------------------
(* The updates. *)

\* Who enters sendDoneErrorOnce sends the first final update, or none when the
\* exchange is over.
LEMMA EnteredFinal ==
  ASSUME Inv, NEW g \in {"main", "last", "xch"}, NEW k \in {"done", "error"}, Enter(g, k)
  PROVE  /\ Finals = {} /\ once' = g
         /\ \/ ExchangeOver /\ sent' = sent /\ Finals' = {}
            \/ /\ Finals' = {Len(sent) + 1} /\ Len(sent') = Len(sent) + 1
               /\ sent'[Len(sent) + 1].by = g
         /\ (\A i \in DOMAIN sent : sent[i].kind = "candidate" => sent[i].uuid)
              => \A i \in DOMAIN sent' : sent'[i].kind = "candidate" => sent'[i].uuid
<1>0. once = "free" /\ once' = g /\ Finals = {}
  BY DEF Enter, Inv, Concluding
<1>1. CASE ExchangeOver
  <2>1. sent' = sent
    BY <1>1, Entered DEF Inv
  <2> QED
    BY <1>0, <1>1, <2>1 DEF Finals
<1>2. CASE ~ExchangeOver
  <2>1. /\ sent' \in Seq(Updates) /\ Len(sent) \in Nat
        /\ DOMAIN sent = 1 .. Len(sent) /\ DOMAIN sent' = 1 .. (Len(sent) + 1) /\ Len(sent') = Len(sent) + 1
        /\ sent'[Len(sent) + 1].kind = k /\ sent'[Len(sent) + 1].by = g
        /\ \A i \in 1 .. Len(sent) : sent'[i] = sent[i]
    BY <1>2, Entered DEF Inv
  <2>2. \A i \in DOMAIN sent : sent[i].kind = "candidate"
    BY <1>0 DEF Finals
  <2>3. \A i \in DOMAIN sent' : i \in DOMAIN sent \/ i = Len(sent) + 1
    BY <2>1
  <2>4. Finals' = {Len(sent) + 1}
    BY <2>1, <2>2, <2>3 DEF Finals
  <2> QED
    BY <1>0, <2>1, <2>3, <2>4
<1> QED
  BY <1>1, <1>2

\* The update of a candidate is not a final one.
LEMMA TrickledFinal ==
  ASSUME Inv, NEW c \in Cands, SendCandidate(c)
  PROVE  /\ Finals' = Finals /\ \A i \in Finals : sent'[i] = sent[i]
         /\ (\A i \in DOMAIN sent : sent[i].kind = "candidate" => sent[i].uuid)
              => \A i \in DOMAIN sent' : sent'[i].kind = "candidate" => sent'[i].uuid
<1>1. CASE ExchangeOver
  <2>1. sent' = sent
    BY <1>1, Trickled DEF Inv
  <2> QED
    BY <2>1 DEF Finals
<1>2. CASE ~ExchangeOver
  <2>1. /\ sent' \in Seq(Updates) /\ Len(sent) \in Nat
        /\ DOMAIN sent = 1 .. Len(sent) /\ DOMAIN sent' = 1 .. (Len(sent) + 1) /\ Len(sent') = Len(sent) + 1
        /\ sent'[Len(sent) + 1].kind = "candidate" /\ sent'[Len(sent) + 1].uuid
        /\ \A i \in 1 .. Len(sent) : sent'[i] = sent[i]
    BY <1>2, Trickled DEF Inv
  <2>2. \A i \in DOMAIN sent' : i \in DOMAIN sent \/ i = Len(sent) + 1
    BY <2>1
  <2> QED
    BY <2>1, <2>2 DEF Finals
<1> QED
  BY <1>1, <1>2

\* One final update is sent, by who enters sendDoneErrorOnce, and the main
\* goroutine gives an exchange up only after it.
LEMMA ConcludingStep ==
  ASSUME Inv, [Next]_vars
  PROVE  Concluding'
<1> USE WebRTCDialAssumption DEF Inv, Main, Fault, FaultIf, AfterUpdate, Reports, Gathering, dialVars, Concluding
<1>t. main \in [at : Places, res : {"none", "ok", "both", "error", "nosignaler"}]
  BY DEF DataType
<1>f. sent' = sent => Finals' = Finals
  BY DEF Finals
<1>1. CASE DialSignalingServer
  BY <1>1, <1>t, <1>f DEF DialSignalingServer, Stages
<1>2. CASE Configure
  BY <1>2, <1>t, <1>f DEF Configure, Stages
<1>3. CASE Offer
  BY <1>3, <1>t, <1>f DEF Offer, Stages
<1>4. CASE WaitOneHost
  BY <1>4, <1>t, <1>f DEF WaitOneHost, Stages
<1>5. CASE Call
  BY <1>5, <1>t, <1>f DEF Call, Stages
<1>6. CASE DoCall
  BY <1>6, <1>t, <1>f DEF DoCall
<1>7. CASE MainConcluded
  BY <1>7, <1>t, <1>f DEF MainConcluded
<1>8. CASE Cleanup
  BY <1>8, <1>t, <1>f DEF Cleanup
<1>9. CASE LastSent
  BY <1>9, <1>t, <1>f DEF LastSent, TypeOK
<1>10. CASE LastReports
  BY <1>10, <1>t, <1>f DEF LastReports
<1>11. CASE LastStops
  BY <1>11, <1>t, <1>f DEF LastStops
<1>12. CASE RecvInit
  BY <1>12, <1>t, <1>f DEF RecvInit
<1>13. CASE RecvFails
  BY <1>13, <1>t, <1>f DEF RecvFails
<1>14. CASE ExchangeSent
  BY <1>14, <1>t, <1>f DEF ExchangeSent, TypeOK
<1>15. CASE ExchangeReports
  BY <1>15, <1>t, <1>f DEF ExchangeReports
<1>16. CASE ContextOver
  BY <1>16, <1>t, <1>f DEF ContextOver
<1>17. CASE OnICECandidate
  BY <1>17, <1>t, <1>f DEF OnICECandidate
<1>18. CASE Connect
  BY <1>18, <1>t, <1>f DEF Connect
<1>19. CASE AddTrack
  BY <1>19, <1>t, <1>f DEF AddTrack
<1>20. CASE NegChannelOpen
  BY <1>20, <1>t, <1>f DEF NegChannelOpen
<1>21. CASE OnNegotiationNeeded
  BY <1>21, <1>t, <1>f DEF OnNegotiationNeeded
<1>22. CASE OnNegotiationNeededFails
  BY <1>22, <1>t, <1>f DEF OnNegotiationNeededFails
<1>23. CASE ClientOnMessage
  BY <1>23, <1>t, <1>f DEF ClientOnMessage
<1>24. CASE ClientOnMessageFails
  BY <1>24, <1>t, <1>f DEF ClientOnMessageFails
<1>25. CASE ServerOnMessage
  BY <1>25, <1>t, <1>f DEF ServerOnMessage
<1>26. CASE ServerOnMessageFails
  BY <1>26, <1>t, <1>f DEF ServerOnMessageFails
<1>27. CASE MainDone
  <2>1. CASE Enter("main", "done")
    <3>1. /\ once = "free" /\ once' = "main" /\ UNCHANGED <<main, ctx>>
          /\ (xch' = "none") = (xch = "none") /\ (once' = "main" => main.at \in {"done", "error"})
      BY <1>27, <2>1 DEF MainDone, Enter
    <3>2. \/ ExchangeOver /\ Finals' = {}
          \/ Finals' = {Len(sent) + 1}
      BY <2>1, EnteredFinal
    <3>3. ExchangeOver => ctx = "done" \/ (main.at \in {"cleanup", "returned"} /\ xch = "none")
      BY <3>1 DEF ExchangeOver
    <3>4. main.at \in {"cleanup", "returned"} => xch = "none"
      BY <3>1
    <3> QED
      BY <3>1, <3>2, <3>3, <3>4
  <2>2. CASE ~Enter("main", "done")
    BY <1>27, <1>t, <1>f, <2>2 DEF MainDone
  <2> QED
    BY <2>1, <2>2
<1>28. CASE MainError
  <2>1. CASE Enter("main", "error")
    <3>1. /\ once = "free" /\ once' = "main" /\ UNCHANGED <<main, ctx>>
          /\ (xch' = "none") = (xch = "none") /\ (once' = "main" => main.at \in {"done", "error"})
      BY <1>28, <2>1 DEF MainError, Enter
    <3>2. \/ ExchangeOver /\ Finals' = {}
          \/ Finals' = {Len(sent) + 1}
      BY <2>1, EnteredFinal
    <3>3. ExchangeOver => ctx = "done" \/ (main.at \in {"cleanup", "returned"} /\ xch = "none")
      BY <3>1 DEF ExchangeOver
    <3>4. main.at \in {"cleanup", "returned"} => xch = "none"
      BY <3>1
    <3> QED
      BY <3>1, <3>2, <3>3, <3>4
  <2>2. CASE ~Enter("main", "error")
    BY <1>28, <1>t, <1>f, <2>2 DEF MainError
  <2> QED
    BY <2>1, <2>2
<1>29. CASE LastSends
  <2>1. CASE Enter("last", "done")
    <3>1. /\ once = "free" /\ once' = "last" /\ UNCHANGED <<main, ctx>>
          /\ (xch' = "none") = (xch = "none") /\ (once' = "main" => main.at \in {"done", "error"})
      BY <1>29, <2>1 DEF LastSends, Enter
    <3>2. \/ ExchangeOver /\ Finals' = {}
          \/ Finals' = {Len(sent) + 1}
      BY <2>1, EnteredFinal
    <3>3. ExchangeOver => ctx = "done" \/ (main.at \in {"cleanup", "returned"} /\ xch = "none")
      BY <3>1 DEF ExchangeOver
    <3>4. main.at \in {"cleanup", "returned"} => xch = "none"
      BY <3>1
    <3> QED
      BY <3>1, <3>2, <3>3, <3>4
  <2>2. CASE ~Enter("last", "done")
    BY <1>29, <1>t, <1>f, <2>2 DEF LastSends
  <2> QED
    BY <2>1, <2>2
<1>30. CASE ExchangeSends
  <2>1. CASE Enter("xch", "done")
    <3>1. /\ once = "free" /\ once' = "xch" /\ UNCHANGED <<main, ctx>>
          /\ (xch' = "none") = (xch = "none") /\ (once' = "main" => main.at \in {"done", "error"})
      BY <1>30, <2>1 DEF ExchangeSends, Enter
    <3>2. \/ ExchangeOver /\ Finals' = {}
          \/ Finals' = {Len(sent) + 1}
      BY <2>1, EnteredFinal
    <3>3. ExchangeOver => ctx = "done" \/ (main.at \in {"cleanup", "returned"} /\ xch = "none")
      BY <3>1 DEF ExchangeOver
    <3>4. main.at \in {"cleanup", "returned"} => xch = "none"
      BY <3>1
    <3> QED
      BY <3>1, <3>2, <3>3, <3>4
  <2>2. CASE ~Enter("xch", "done")
    BY <1>30, <1>t, <1>f, <2>2 DEF ExchangeSends
  <2> QED
    BY <2>1, <2>2
<1>31. ASSUME NEW c \in Cands, CandidateSent(c) PROVE Concluding'
  BY <1>31, <1>t, <1>f DEF CandidateSent
<1>32. ASSUME NEW c \in Cands, CandidateReports(c) PROVE Concluding'
  BY <1>32, <1>t, <1>f DEF CandidateReports
<1>33. ASSUME NEW c \in Cands, CandidateStops(c) PROVE Concluding'
  BY <1>33, <1>t, <1>f DEF CandidateStops
<1>34. ASSUME NEW c \in Cands, SendCandidate(c) PROVE Concluding'
  BY <1>34, <1>t, TrickledFinal DEF SendCandidate
<1>35. CASE UNCHANGED vars
  BY <1>35, <1>t, <1>f DEF vars
<1> QED
  BY <1>1, <1>2, <1>3, <1>4, <1>5, <1>6, <1>7, <1>8, <1>9, <1>10, <1>11, <1>12, <1>13, <1>14, <1>15, <1>16, <1>17, <1>18, <1>19, <1>20, <1>21, <1>22, <1>23, <1>24, <1>25, <1>26, <1>27, <1>28, <1>29, <1>30, <1>31, <1>32, <1>33, <1>34, <1>35
  DEF Next, MainStep, LastStep, ExchangeStep, CandStep, NegStep

\* The end of gathering is found after the candidates, and its update is sent
\* when theirs have returned.
LEMMA GatheredStep ==
  ASSUME Inv, [Next]_vars
  PROVE  Gathered'
<1> USE WebRTCDialAssumption DEF Inv, Main, Fault, FaultIf, AfterUpdate, Reports, Gathering, dialVars, Gathered
<1>t. cand \in [Cands -> Goes] /\ N \in Nat /\ Cands = 1 .. N /\ gathered \in 0 .. (N + 1) /\ Cardinality(Cands) = N
  BY Counted DEF TypeOK, N
<1>f. sent' = sent => Finals' = Finals
  BY DEF Finals
<1>p. /\ cand' = cand => PendingCandidates' = PendingCandidates
      /\ (\A c \in Cands : cand'[c] \in {cand[c], "done"}) => PendingCandidates' \subseteq PendingCandidates
  BY DEF PendingCandidates
<1>1. CASE DialSignalingServer
  BY <1>1, <1>t, <1>f, <1>p DEF DialSignalingServer
<1>2. CASE Configure
  <2>1. UNCHANGED <<last, sent, cand>> /\ sent = <<>> /\ last = "none"
    BY <1>2 DEF Configure, Stages
  <2>2. DOMAIN sent = {}
    BY <2>1
  <2> QED
    BY <2>1, <2>2 DEF Finals
<1>3. CASE Offer
  BY <1>3, <1>t, <1>f, <1>p DEF Offer
<1>4. CASE WaitOneHost
  BY <1>4, <1>t, <1>f, <1>p DEF WaitOneHost
<1>5. CASE Call
  BY <1>5, <1>t, <1>f, <1>p DEF Call
<1>6. CASE DoCall
  BY <1>6, <1>t, <1>f, <1>p DEF DoCall
<1>7. CASE MainConcluded
  BY <1>7, <1>t, <1>f, <1>p DEF MainConcluded
<1>8. CASE Cleanup
  BY <1>8, <1>t, <1>f, <1>p DEF Cleanup
<1>9. CASE LastSent
  BY <1>9, <1>t, <1>f, <1>p DEF LastSent
<1>10. CASE LastReports
  BY <1>10, <1>t, <1>f, <1>p DEF LastReports
<1>11. CASE LastStops
  BY <1>11, <1>t, <1>f, <1>p DEF LastStops
<1>12. CASE RecvInit
  BY <1>12, <1>t, <1>f, <1>p DEF RecvInit
<1>13. CASE RecvFails
  BY <1>13, <1>t, <1>f, <1>p DEF RecvFails
<1>14. CASE ExchangeSent
  BY <1>14, <1>t, <1>f, <1>p DEF ExchangeSent
<1>15. CASE ExchangeReports
  BY <1>15, <1>t, <1>f, <1>p DEF ExchangeReports
<1>16. CASE ContextOver
  BY <1>16, <1>t, <1>f, <1>p DEF ContextOver
<1>17. CASE OnICECandidate
  <2>1. gathered # N + 1 /\ gathered' = gathered + 1 /\ UNCHANGED sent /\ (last' = last \/ gathered' \notin Cands)
    BY <1>17, <1>t DEF OnICECandidate
  <2>2. last = "none" /\ \A i \in Finals : sent[i].by # "last"
    BY <2>1
  <2>3. gathered' \notin Cands => gathered' = N + 1
    BY <1>t, <2>1
  <2> QED
    BY <1>f, <2>1, <2>2, <2>3
<1>18. CASE Connect
  BY <1>18, <1>t, <1>f, <1>p DEF Connect
<1>19. CASE AddTrack
  BY <1>19, <1>t, <1>f, <1>p DEF AddTrack
<1>20. CASE NegChannelOpen
  BY <1>20, <1>t, <1>f, <1>p DEF NegChannelOpen
<1>21. CASE OnNegotiationNeeded
  BY <1>21, <1>t, <1>f, <1>p DEF OnNegotiationNeeded
<1>22. CASE OnNegotiationNeededFails
  BY <1>22, <1>t, <1>f, <1>p DEF OnNegotiationNeededFails
<1>23. CASE ClientOnMessage
  BY <1>23, <1>t, <1>f, <1>p DEF ClientOnMessage
<1>24. CASE ClientOnMessageFails
  BY <1>24, <1>t, <1>f, <1>p DEF ClientOnMessageFails
<1>25. CASE ServerOnMessage
  BY <1>25, <1>t, <1>f, <1>p DEF ServerOnMessage
<1>26. CASE ServerOnMessageFails
  BY <1>26, <1>t, <1>f, <1>p DEF ServerOnMessageFails
<1>27. CASE MainDone
  <2>1. CASE Enter("main", "done")
    BY <1>27, <1>t, <1>p, <2>1, EnteredFinal DEF MainDone, Enter
  <2>2. CASE ~Enter("main", "done")
    BY <1>27, <1>t, <1>f, <1>p, <2>2 DEF MainDone
  <2> QED
    BY <2>1, <2>2
<1>28. CASE MainError
  <2>1. CASE Enter("main", "error")
    BY <1>28, <1>t, <1>p, <2>1, EnteredFinal DEF MainError, Enter
  <2>2. CASE ~Enter("main", "error")
    BY <1>28, <1>t, <1>f, <1>p, <2>2 DEF MainError
  <2> QED
    BY <2>1, <2>2
<1>29. CASE LastSends
  <2>1. CASE Enter("last", "done")
    BY <1>29, <1>t, <1>p, <2>1, EnteredFinal DEF LastSends, Enter
  <2>2. CASE ~Enter("last", "done")
    BY <1>29, <1>t, <1>f, <1>p, <2>2 DEF LastSends
  <2> QED
    BY <2>1, <2>2
<1>30. CASE ExchangeSends
  <2>1. CASE Enter("xch", "done")
    BY <1>30, <1>t, <1>p, <2>1, EnteredFinal DEF ExchangeSends, Enter
  <2>2. CASE ~Enter("xch", "done")
    BY <1>30, <1>t, <1>f, <1>p, <2>2 DEF ExchangeSends
  <2> QED
    BY <2>1, <2>2
<1>31. ASSUME NEW c \in Cands, CandidateSent(c) PROVE Gathered'
  <2>1. cand[c] \in {"sending", "report", "wait"} /\ UNCHANGED <<last, gathered, sent>>
    BY <1>31 DEF CandidateSent
  <2>2. c \in PendingCandidates
    BY <2>1 DEF PendingCandidates
  <2> QED
    BY <1>f, <2>1, <2>2
<1>32. ASSUME NEW c \in Cands, CandidateReports(c) PROVE Gathered'
  <2>1. cand[c] \in {"sending", "report", "wait"} /\ UNCHANGED <<last, gathered, sent>>
    BY <1>32 DEF CandidateReports
  <2>2. c \in PendingCandidates
    BY <2>1 DEF PendingCandidates
  <2> QED
    BY <1>f, <2>1, <2>2
<1>33. ASSUME NEW c \in Cands, CandidateStops(c) PROVE Gathered'
  <2>1. cand[c] \in {"sending", "report", "wait"} /\ UNCHANGED <<last, gathered, sent>>
    BY <1>33 DEF CandidateStops
  <2>2. c \in PendingCandidates
    BY <2>1 DEF PendingCandidates
  <2> QED
    BY <1>f, <2>1, <2>2
<1>34. ASSUME NEW c \in Cands, SendCandidate(c) PROVE Gathered'
  <2>1. c \in PendingCandidates
    BY <1>34 DEF SendCandidate, PendingCandidates
  <2>2. \A i \in Finals : sent[i].by # "last"
    BY <2>1
  <2> QED
    BY <1>34, <2>2, TrickledFinal DEF SendCandidate
<1>35. CASE UNCHANGED vars
  BY <1>35, <1>t, <1>f, <1>p DEF vars
<1> QED
  BY <1>1, <1>2, <1>3, <1>4, <1>5, <1>6, <1>7, <1>8, <1>9, <1>10, <1>11, <1>12, <1>13, <1>14, <1>15, <1>16, <1>17, <1>18, <1>19, <1>20, <1>21, <1>22, <1>23, <1>24, <1>25, <1>26, <1>27, <1>28, <1>29, <1>30, <1>31, <1>32, <1>33, <1>34, <1>35
  DEF Next, MainStep, LastStep, ExchangeStep, CandStep, NegStep

----------------------------------------------------------------------------
(* The theorems. *)

\* Inv holds initially.
LEMMA InitInv == Init => Inv
<1> SUFFICES ASSUME Init PROVE Inv
  OBVIOUS
<1> USE WebRTCDialAssumption DEF Init
<1>1. N \in Nat /\ Cardinality(Cands) = N
  BY Counted DEF N
<1>2. DOMAIN sent = {} /\ Finals = {}
  BY DEF Finals
<1>3. TypeOK
  <2>1. gathered \in 0 .. Cardinality(Cands) + 1 /\ faults \in 0 .. MaxFaults
    BY <1>1
  <2>2. neg.tracks \in 0 .. MaxTracks /\ neg.known \in 0 .. MaxTracks /\ neg.state \in {"stable", "offered"}
    OBVIOUS
  <2>3. cand \in [Cands -> Goes] /\ last \in Goes
    BY DEF Goes
  <2> QED
    BY <2>1, <2>2, <2>3 DEF TypeOK
<1>4. DataType
  BY DEF DataType, Places, Known
<1>5. Stages /\ Left /\ Concluding /\ Gathered
  BY <1>2 DEF Stages, Left, Concluding, Gathered
<1> QED
  BY <1>3, <1>4, <1>5 DEF Inv

\* Every step keeps Inv.
LEMMA NextInv == Inv /\ [Next]_vars => Inv'
  BY TypeStep, DataStep, StageStep, LeftStep, ConcludingStep, GatheredStep DEF Inv

\* One final update at most, and the last of all when the end of gathering sends it.
LEMMA InvCall == Inv => CallInv /\ NothingLeft
<1> SUFFICES ASSUME Inv PROVE CallInv /\ NothingLeft
  OBVIOUS
<1>1. Cardinality(Finals) <= 1
  <2>1. CASE Finals = {}
    BY <2>1, FS_EmptySet
  <2>2. ASSUME NEW i \in Finals PROVE Cardinality(Finals) <= 1
    <3>1. Finals = {i}
      BY <2>2 DEF Inv, Concluding
    <3>2. Cardinality({i}) = 1
      BY FS_Singleton
    <3>3. Cardinality(Finals) = 1
      BY <3>1, <3>2
    <3> QED
      BY <3>3
  <2> QED
    BY <2>1, <2>2
<1>2. main.at = "returned" /\ Begun => once = "over" /\ (Finals # {} \/ ctx = "done")
  BY DEF Inv, Concluding, Begun
<1>3. CandidatesThenDone
  <2>1. DOMAIN sent = 1 .. Len(sent) /\ Len(sent) \in Nat
    BY DEF Inv, DataType
  <2> QED
    BY <2>1 DEF Inv, Gathered, CandidatesThenDone
<1>4. NothingLeft
  BY DEF NothingLeft, Inv, Left
<1> QED
  BY <1>1, <1>2, <1>3, <1>4 DEF CallInv, ConcludedOnce, Inv

\* For any number of candidates, the answering side is told at most once how a
\* call ended, by the end of gathering only after every candidate, and it is
\* told before dialWebRTC returns unless the dial's context is over, although
\* the main goroutine, the candidates' and the reader all may conclude the call.
THEOREM CallIsConcludedOnce == Spec => []CallInv
<1>1. Inv /\ [Next]_vars => Inv'
  BY NextInv
<1>2. Inv => CallInv
  BY InvCall
<1> QED
  BY <1>1, <1>2, InitInv, PTL DEF Spec

\* A dial that fails leaves neither its peer connection, even if the peers
\* connected late, nor the connection to the signaling server behind, and one
\* that succeeds has a channel that is ready.
THEOREM DialLeavesNothing == Spec => []NothingLeft
<1>1. Inv /\ [Next]_vars => Inv'
  BY NextInv
<1>2. Inv => NothingLeft
  BY InvCall
<1> QED
  BY <1>1, <1>2, InitInv, PTL DEF Spec

----------------------------------------------------------------------------
(* The channel on the connection (BaseChannel). *)

\* Writers that have passed the test of the buffered amount.
Senders == {w \in Writers : pc[w] = "send"}

\* Every writer that may still pass the test of the buffered amount has room
\* for its message, those that passed it have theirs reserved.
Reserved ==
  buffered + MsgSize * Cardinality(Senders)
    < Threshold + MsgSize * Cardinality(Writers)

\* ch.mu is held from ch.cancel to the end of GracefulClose.
MuHeld ==
  /\ \A c \in Closers : mu = c <=> cpc[c] \in {"bcast", "graceful", "readloop"}
  /\ mu = "ice" <=> icePc \in {"graceful", "readloop"}

\* A closed channel whose closer has let go of ch.mu has no open connection
\* and nothing runs on what read from it, and who came after the first closer
\* finds it so.
ClosedIsShut ==
  /\ closed => (~open /\ ReadLoopsEnd) \/ mu \in Closers
  /\ \A c \in Closers : cpc[c] \in {"bcast", "graceful", "readloop"} => closed
  /\ \A c \in Closers : cpc[c] = "readloop" => ~open
  /\ \A c \in Closers : cpc[c] \in {"wait", "done"} => closed /\ ~open /\ ReadLoopsEnd

\* The inductive invariant of the channel.
OpenInv ==
  /\ ChannelTypeOK /\ Reserved /\ LocksHeldInLoop /\ MuHeld /\ ClosedIsShut
  /\ CloseWaitsForWorkers

----------------------------------------------------------------------------
\* The initial state satisfies the invariant.
LEMMA OpenInvInit == ChannelInit => OpenInv
<1> SUFFICES ASSUME ChannelInit PROVE OpenInv
  OBVIOUS
<1> USE BaseChannelAssumption
<1>1. ChannelTypeOK
  BY DEF ChannelInit, ChannelTypeOK, IceStates
<1>2. Reserved
  <2>1. Senders = {}
    BY DEF ChannelInit, Senders
  <2>2. Cardinality(Senders) = 0
    BY <2>1, FS_EmptySet
  <2>3. Cardinality(Writers) \in Nat
    BY FS_CardinalityType
  <2> QED
    BY <2>2, <2>3 DEF ChannelInit, Reserved
<1>3. LocksHeldInLoop /\ MuHeld /\ ClosedIsShut /\ CloseWaitsForWorkers
  BY DEF ChannelInit, LocksHeldInLoop, MuHeld, ClosedIsShut, CloseWaitsForWorkers, ReadLoopsEnd
<1> QED
  BY <1>1, <1>2, <1>3 DEF OpenInv

\* Every step keeps the types.
LEMMA ChannelTypeStep == ChannelTypeOK /\ [ChannelNext]_channelVars => ChannelTypeOK'
<1> SUFFICES ASSUME ChannelTypeOK, [ChannelNext]_channelVars PROVE ChannelTypeOK'
  OBVIOUS
<1> USE BaseChannelAssumption DEF ChannelTypeOK, writeVars, netVars, closeVars, iceVars
<1>1. ASSUME NEW w \in Writers, Write(w) PROVE ChannelTypeOK'
  BY <1>1 DEF Write, WriteLock, WriteCheck, WriteFull, WriteSend
<1>9. ASSUME NEW r \in Readers, ReadMessage(r) \/ Closed(r) PROVE ChannelTypeOK'
  BY <1>9 DEF ReadMessage, Closed
<1>2. CASE Drain \/ LowLock \/ LowBroadcast
  BY <1>2 DEF Drain, LowLock, LowBroadcast, Broadcast
<1>3. ASSUME NEW c \in Closers, CloseCall(c) \/ CloseStart(c) PROVE ChannelTypeOK'
  BY <1>3 DEF CloseCall, CloseStart, AfterClose
<1>4. ASSUME NEW c \in Closers, CloseStep(c) PROVE ChannelTypeOK'
  <2>1. CASE CloseBroadcast(c)
    BY <2>1 DEF CloseBroadcast, Broadcast
  <2>2. CASE CloseGraceful(c) \/ CloseUnlock(c) \/ CloseWait(c)
    BY <2>2 DEF CloseGraceful, CloseUnlock, CloseWait, AfterClose
  <2> QED
    BY <1>4, <2>1, <2>2 DEF CloseStep
<1>5. ASSUME NEW x \in IceStates, IceEvent(x) PROVE ChannelTypeOK'
  BY <1>5 DEF IceEvent
<1>6. ASSUME NEW x \in IceStates, IceRun(x) PROVE ChannelTypeOK'
  BY <1>6 DEF IceRun
<1>7. CASE IceGraceful \/ IceUnlock
  BY <1>7 DEF IceGraceful, IceUnlock
<1>8. CASE UNCHANGED channelVars
  BY <1>8 DEF channelVars
<1> QED
  BY <1>1, <1>2, <1>3, <1>4, <1>5, <1>6, <1>7, <1>8, <1>9 DEF ChannelNext

\* Nobody passes the test of the buffered amount without room for its message.
LEMMA ReservedStep == OpenInv /\ [ChannelNext]_channelVars => Reserved'
<1> SUFFICES ASSUME OpenInv, [ChannelNext]_channelVars PROVE Reserved'
  OBVIOUS
<1> USE BaseChannelAssumption
<1>0. /\ ChannelTypeOK /\ Reserved /\ ChannelTypeOK'
      /\ IsFiniteSet(Senders) /\ IsFiniteSet(Senders')
      /\ Cardinality(Writers) \in Nat
      /\ Cardinality(Senders) \in Nat /\ Cardinality(Senders') \in Nat
      /\ Cardinality(Senders') <= Cardinality(Writers)
  <2>1. Senders \subseteq Writers /\ Senders' \subseteq Writers
    BY DEF Senders
  <2> QED
    BY <2>1, ChannelTypeStep, FS_Subset, FS_CardinalityType DEF OpenInv
<1>1. ASSUME Senders' = Senders, buffered' <= buffered PROVE Reserved'
  BY <1>0, <1>1 DEF Reserved, ChannelTypeOK
<1>2. ASSUME NEW w \in Writers, Write(w) PROVE Reserved'
  <2>1. CASE WriteLock(w) \/ WriteCheck(w)
    <3>1. Senders' = Senders
      BY <1>0, <2>1 DEF WriteLock, WriteCheck, Senders, ChannelTypeOK
    <3> QED
      BY <1>0, <1>1, <2>1, <3>1 DEF WriteLock, WriteCheck, netVars, ChannelTypeOK
  <2>2. CASE WriteFull(w)
    <3>1. CASE buffered >= Threshold
      <4>1. Senders' = Senders
        BY <1>0, <2>2, <3>1 DEF WriteFull, Senders, ChannelTypeOK
      <4> QED
        BY <1>0, <1>1, <2>2, <4>1 DEF WriteFull, netVars, ChannelTypeOK
    <3>2. CASE buffered < Threshold
      <4>1. MsgSize * Cardinality(Senders') <= MsgSize * Cardinality(Writers)
        BY <1>0
      <4>2. /\ MsgSize * Cardinality(Senders') \in Nat
            /\ MsgSize * Cardinality(Writers) \in Nat
        BY <1>0
      <4> QED
        BY <1>0, <2>2, <3>2, <4>1, <4>2 DEF WriteFull, netVars, ChannelTypeOK, Reserved
    <3> QED
      BY <1>0, <3>1, <3>2 DEF ChannelTypeOK
  <2>3. CASE WriteSend(w)
    <3>1. Senders' = Senders \ {w} /\ w \in Senders
      BY <1>0, <2>3 DEF WriteSend, Senders, ChannelTypeOK
    <3>2. Cardinality(Senders) = Cardinality(Senders') + 1
      BY <1>0, <3>1, FS_RemoveElement
    <3>3. buffered' <= buffered + MsgSize
      BY <1>0, <2>3 DEF WriteSend, ChannelTypeOK
    <3>4. MsgSize * Cardinality(Senders) = MsgSize * Cardinality(Senders') + MsgSize
      BY <1>0, <3>2
    <3>5. /\ MsgSize * Cardinality(Senders') \in Nat
          /\ MsgSize * Cardinality(Writers) \in Nat
      BY <1>0
    <3> QED
      BY <1>0, <3>3, <3>4, <3>5 DEF Reserved, ChannelTypeOK
  <2> QED
    BY <1>2, <2>1, <2>2, <2>3 DEF Write
<1>10. ASSUME NEW r \in Readers, ReadMessage(r) \/ Closed(r) PROVE Reserved'
  <2>1. Senders' = Senders
    BY <1>0, <1>10 DEF ReadMessage, Closed, Senders, ChannelTypeOK
  <2> QED
    BY <1>0, <1>1, <1>10, <2>1 DEF ReadMessage, Closed, netVars, ChannelTypeOK
<1>3. CASE Drain
  BY <1>0, <1>1, <1>3 DEF Drain, writeVars, Senders, ChannelTypeOK
<1>4. ASSUME Broadcast PROVE Senders' = Senders
  BY <1>0, <1>4 DEF Broadcast, Senders, ChannelTypeOK
<1>5. CASE LowLock \/ LowBroadcast
  BY <1>0, <1>1, <1>4, <1>5 DEF LowLock, LowBroadcast, writeVars, Senders, ChannelTypeOK
<1>6. ASSUME NEW c \in Closers, CloseCall(c) \/ CloseStart(c) \/ CloseStep(c)
      PROVE  Reserved'
  BY <1>0, <1>1, <1>4, <1>6 DEF CloseCall, CloseStart, CloseStep, CloseBroadcast,
    CloseGraceful, CloseUnlock, CloseWait, writeVars, netVars, Senders, ChannelTypeOK
<1>7. ASSUME NEW x \in IceStates, IceEvent(x) \/ IceRun(x) PROVE Reserved'
  BY <1>0, <1>1, <1>7 DEF IceEvent, IceRun, writeVars, netVars, Senders, ChannelTypeOK
<1>8. CASE IceGraceful \/ IceUnlock
  BY <1>0, <1>1, <1>8 DEF IceGraceful, IceUnlock, writeVars, netVars, Senders, ChannelTypeOK
<1>9. CASE UNCHANGED channelVars
  BY <1>0, <1>1, <1>9 DEF channelVars, writeVars, netVars, Senders, ChannelTypeOK
<1> QED
  BY <1>2, <1>3, <1>5, <1>6, <1>7, <1>8, <1>9, <1>10 DEF ChannelNext

\* While the context lives, whoever gives up bufferWriteMu's read side leaves
\* the loop, and nobody leaves the loop with it.
LEMMA LocksStep == OpenInv /\ [ChannelNext]_channelVars => LocksHeldInLoop'
<1> SUFFICES ASSUME ChannelTypeOK, LocksHeldInLoop, [ChannelNext]_channelVars PROVE LocksHeldInLoop'
  BY DEF OpenInv
<1> USE BaseChannelAssumption
    DEF ChannelTypeOK, LocksHeldInLoop, writeVars, netVars, closeVars, iceVars
<1>1. ASSUME NEW w \in Writers, Write(w) PROVE LocksHeldInLoop'
  BY <1>1 DEF Write, WriteLock, WriteCheck, WriteFull, WriteSend
<1>6. ASSUME NEW r \in Readers, ReadMessage(r) \/ Closed(r) PROVE LocksHeldInLoop'
  BY <1>6 DEF ReadMessage, Closed
<1>2. CASE Drain \/ LowLock \/ LowBroadcast
  BY <1>2 DEF Drain, LowLock, LowBroadcast, Broadcast
<1>3. ASSUME NEW c \in Closers, CloseCall(c) \/ CloseStart(c) \/ CloseStep(c)
      PROVE  LocksHeldInLoop'
  BY <1>3 DEF CloseCall, CloseStart, CloseStep, CloseBroadcast, CloseGraceful,
    CloseUnlock, CloseWait, Broadcast
<1>4. ASSUME NEW x \in IceStates, IceEvent(x) \/ IceRun(x) PROVE LocksHeldInLoop'
  BY <1>4 DEF IceEvent, IceRun
<1>5. CASE IceGraceful \/ IceUnlock \/ UNCHANGED channelVars
  BY <1>5 DEF IceGraceful, IceUnlock, channelVars
<1> QED
  BY <1>1, <1>2, <1>3, <1>4, <1>5, <1>6 DEF ChannelNext

\* ch.mu is held by one goroutine, from ch.cancel to GracefulClose; a closed
\* channel is shut when it is free again, and no goroutine is left, or started,
\* once a Close has waited.
LEMMA CloseInvStep ==
  OpenInv /\ [ChannelNext]_channelVars => MuHeld' /\ ClosedIsShut' /\ CloseWaitsForWorkers'
<1> SUFFICES ASSUME ChannelTypeOK, MuHeld, ClosedIsShut, CloseWaitsForWorkers, [ChannelNext]_channelVars
             PROVE  MuHeld' /\ ClosedIsShut' /\ CloseWaitsForWorkers'
  BY DEF OpenInv
<1> USE BaseChannelAssumption
    DEF ChannelTypeOK, MuHeld, ClosedIsShut, CloseWaitsForWorkers, Pending, ReadLoopsEnd,
        writeVars, netVars, closeVars, iceVars
<1>1. ASSUME NEW w \in Writers, Write(w)
      PROVE  MuHeld' /\ ClosedIsShut' /\ CloseWaitsForWorkers'
  BY <1>1 DEF Write, WriteLock, WriteCheck, WriteFull, WriteSend
<1>12. ASSUME NEW r \in Readers, ReadMessage(r) \/ Closed(r)
      PROVE  MuHeld' /\ ClosedIsShut' /\ CloseWaitsForWorkers'
  BY <1>12 DEF ReadMessage, Closed
<1>2. CASE Drain \/ LowLock \/ LowBroadcast
  BY <1>2 DEF Drain, LowLock, LowBroadcast, Broadcast
<1>3. ASSUME NEW c \in Closers, CloseCall(c)
      PROVE  MuHeld' /\ ClosedIsShut' /\ CloseWaitsForWorkers'
  BY <1>3 DEF CloseCall
<1>4. ASSUME NEW c \in Closers, CloseStart(c)
      PROVE  MuHeld' /\ ClosedIsShut' /\ CloseWaitsForWorkers'
  BY <1>4 DEF CloseStart, AfterClose
<1>5. ASSUME NEW c \in Closers, CloseBroadcast(c)
      PROVE  MuHeld' /\ ClosedIsShut' /\ CloseWaitsForWorkers'
  BY <1>5 DEF CloseBroadcast, Broadcast
<1>13. ASSUME NEW c \in Closers, CloseUnlock(c)
      PROVE  MuHeld' /\ ClosedIsShut' /\ CloseWaitsForWorkers'
  BY <1>13 DEF CloseUnlock, AfterClose, IceStates
<1>6. ASSUME NEW c \in Closers, CloseGraceful(c)
      PROVE  MuHeld' /\ ClosedIsShut' /\ CloseWaitsForWorkers'
  BY <1>6 DEF CloseGraceful, AfterClose, IceStates
<1>7. ASSUME NEW c \in Closers, CloseWait(c)
      PROVE  MuHeld' /\ ClosedIsShut' /\ CloseWaitsForWorkers'
  BY <1>7 DEF CloseWait
<1>8. ASSUME NEW x \in IceStates, IceEvent(x)
      PROVE  MuHeld' /\ ClosedIsShut' /\ CloseWaitsForWorkers'
  BY <1>8 DEF IceEvent
<1>9. ASSUME NEW x \in IceStates, IceRun(x)
      PROVE  MuHeld' /\ ClosedIsShut' /\ CloseWaitsForWorkers'
  BY <1>9 DEF IceRun, IceStates
<1>10. CASE IceGraceful \/ IceUnlock
  BY <1>10 DEF IceGraceful, IceUnlock, IceStates
<1>11. CASE UNCHANGED channelVars
  BY <1>11 DEF channelVars
<1> QED
  BY <1>1, <1>2, <1>3, <1>4, <1>5, <1>6, <1>7, <1>8, <1>9, <1>10, <1>11,
     <1>12, <1>13
  DEF ChannelNext, CloseStep

\* The buffered amount, reserved messages included, stays in its bound.
LEMMA InvBound == OpenInv => BufferBound
<1> SUFFICES ASSUME OpenInv PROVE BufferBound
  OBVIOUS
<1>1. Senders \subseteq Writers
  BY DEF Senders
<1>2. Cardinality(Senders) \in Nat /\ Cardinality(Writers) \in Nat
  BY <1>1, BaseChannelAssumption, FS_Subset, FS_CardinalityType
<1>3. MsgSize * Cardinality(Senders) \in Nat
  BY <1>2, BaseChannelAssumption
<1> QED
  BY <1>2, <1>3, BaseChannelAssumption DEF OpenInv, ChannelTypeOK, Reserved, BufferBound

\* write, the callbacks and the ways of closing keep the channel consistent
\* for every number of goroutines: however many writers pass the test of
\* BufferedAmount together, the buffer stays below the threshold plus a message
\* for each; bufferWriteMu is read-locked inside the loop only while the
\* channel lives; a Close that returned left no ICE goroutine, no open
\* connection and nothing on the goroutines that read from it.
THEOREM ChannelIsConsistent == ChannelSpec => []ChannelInv
<1>1. ChannelInit => OpenInv
  BY OpenInvInit
<1>2. OpenInv /\ [ChannelNext]_channelVars => OpenInv'
  BY ChannelTypeStep, ReservedStep, LocksStep, CloseInvStep DEF OpenInv
<1>3. OpenInv => ChannelInv
  BY InvBound DEF OpenInv, ChannelInv
<1> QED
  BY <1>1, <1>2, <1>3, PTL DEF ChannelSpec

=============================================================================
