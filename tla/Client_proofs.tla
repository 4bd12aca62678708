--------------------------- MODULE Client_proofs ---------------------------
(***************************************************************************)
(* Theorems about the two parts of the client, which share no state. The   *)
(* streams of a connection (ClientStream), for any set of streams and any  *)
(* bounds: what a stream exchanges with the wire and with its user is in   *)
(* order (StreamInv), whichever of the sender, the receiver, the watcher,  *)
(* the read loop and Close gets to it first. And the connections that      *)
(* calls of Dial share through the cached dialer (Dialer), for any finite  *)
(* set of calls with any options that may share a cache: the cache and the *)
(* references to its connections agree (CacheInv), and nothing is left     *)
(* open when all callers are done (NothingLeft).                           *)
(***************************************************************************)
EXTENDS ClientStream, Dialer, FiniteSetTheorems, TLAPS


----------------------------------------------------------------------------
(* ClientStream: the inductive invariant *)

\* The types of the messages, which StreamInv does not need.
DataType ==
  /\ msgCh \in [Streams -> Seq(Nat)] /\ rcvd \in [Streams -> Seq(Nat)] /\ nmsg \in [Streams -> Nat]
  /\ wire \in [Streams -> Seq({"H", "M", "E", "R"})]

\* Somebody is between the two halves of closeWithError on s.
BeingClosed(s) ==
  \/ sndPc[s] = "wait"
  \/ watch[s] \in {"close", "closeErr"}
  \/ muW[s] = "closer"
  \/ pump = "refuse" /\ cur = s

\* closed lets one goroutine close a stream: one that is being closed was not
\* closed by its trailers, and one that these closed keeps their status.
ClosedOnce ==
  \A s \in Streams :
    /\ BeingClosed(s) => s \in closed /\ byTrailers[s] = "none"
    /\ byTrailers[s] # "none" => s \in msgChClosed /\ serr[s] = byTrailers[s]

\* msgCh is still open while the pump sends on it.
SendOpen == pump = "send" => cur \notin msgChClosed

\* Neither the caller nor the channel nor Close has given up s.
Live(s) == s \notin userDone /\ ~chCtx /\ close = "no"

\* s has not been closed, or by its trailers only.
Whole(s) == s \notin closed \/ byTrailers[s] # "none"

\* An open stream that nobody gave up has not ended for its receiver.
OpenGoesOn == \A s \in Streams : Live(s) /\ s \notin closed => s \notin cancelled /\ result[s] = "none"

\* What s received, what is in msgCh and what the pump is sending are all the
\* messages of the server so far.
Complete(s) ==
  /\ \A i \in DOMAIN rcvd[s] : rcvd[s][i] = i
  /\ msgCh[s] # <<>> => msgCh[s][1] = Len(rcvd[s]) + 1
  /\ nmsg[s] = Len(rcvd[s]) + Len(msgCh[s]) + IF pump = "send" /\ cur = s THEN 1 ELSE 0

\* Nothing is lost of a whole stream, and its receiver learns the status of the
\* trailers only when it has everything.
ResultAtEnd ==
  \A s \in Streams : Live(s) /\ Whole(s) =>
    /\ Complete(s)
    /\ byTrailers[s] # "none" /\ result[s] # "none" =>
         /\ msgCh[s] = <<>> /\ result[s] = IF byTrailers[s] = "ok" THEN "eof" ELSE "err"

\* x is not on the wire w; v is w with x appended.
Absent(w, x) == \A i \in DOMAIN w : w[i] # x
Extends(w, v, x) ==
  /\ Len(w) \in Nat /\ DOMAIN w = 1 .. Len(w)
  /\ DOMAIN v = 1 .. (Len(w) + 1) /\ v[Len(w) + 1] = x
  /\ \A i \in DOMAIN w : v[i] = w[i]

\* How far sender and watcher of s are tells what is on its wire.
Written(s) ==
  /\ sndPc[s] = "wr" => s \in muR
  /\ sndPc[s] = "none" => watch[s] = "none"
  /\ sndPc[s] \in {"none", "hdr"} =>
       Absent(wire[s], "H") /\ Absent(wire[s], "M") /\ Absent(wire[s], "E")
  /\ Absent(wire[s], "E") \/ (s \in sendClosed /\ sndPc[s] \in {"wait", "over"})
  /\ Absent(wire[s], "R") \/
       (s \in sendClosed /\ sndPc[s] # "wr" /\ watch[s] \in {"close", "closeErr", "over"})

WireInv == RequestOrder /\ \A s \in Streams : Written(s)

Inv == TypeOK /\ DataType /\ ClosedOnce /\ SendOpen /\ NoSendOnClosed /\ OpenGoesOn /\ ResultAtEnd /\ WireInv

----------------------------------------------------------------------------
(* The types. *)

\* The flags of the streams: msgCh is closed after recvClosed is set, and
\* recvClosed and closed are set together but for CloseRecv, which no client calls.
LEMMA FlagStep ==
  ASSUME Inv, [Next]_vars
  PROVE  FlagType'
<1> USE ClientStreamAssumption DEF Inv, TypeOK, FlagType, flagVars, muVars, chanVars, sndVars, rcvVars, pumpVars, closeVars, connVars, Goto, Hold,
        CloseBegin, CloseFinish, LockFree, RLockFree
<1>1. ASSUME NEW s \in Streams, WriteHeaders(s) PROVE FlagType'
  BY <1>1 DEF WriteHeaders
<1>2. ASSUME NEW s \in Streams, SendWrite(s) PROVE FlagType'
  BY <1>2 DEF SendWrite
<1>3. ASSUME NEW s \in Streams, CloseSendWrite(s) PROVE FlagType'
  BY <1>3 DEF CloseSendWrite
<1>4. ASSUME NEW s \in Streams, SenderClosed(s) PROVE FlagType'
  BY <1>4 DEF SenderClosed, ClosedOnce, BeingClosed
<1>5. ASSUME NEW s \in Streams, NewStream(s) PROVE FlagType'
  BY <1>5 DEF NewStream
<1>6. ASSUME NEW s \in Streams, SendMsg(s) PROVE FlagType'
  BY <1>6 DEF SendMsg
<1>7. ASSUME NEW s \in Streams, CloseSend(s) PROVE FlagType'
  BY <1>7 DEF CloseSend
<1>8. ASSUME NEW s \in Streams, RecvCall(s) PROVE FlagType'
  BY <1>8 DEF RecvCall
<1>9. ASSUME NEW s \in Streams, WatchWake(s) PROVE FlagType'
  BY <1>9 DEF WatchWake
<1>10. ASSUME NEW s \in Streams, WatchReset(s) PROVE FlagType'
  BY <1>10 DEF WatchReset
<1>11. ASSUME NEW s \in Streams, WatchClosed(s) PROVE FlagType'
  BY <1>11 DEF WatchClosed, ClosedOnce, BeingClosed
<1>12. ASSUME NEW s \in Streams, RecvMsg(s) PROVE FlagType'
  BY <1>12 DEF RecvMsg
<1>13. ASSUME NEW s \in Streams, CloseStream(s) PROVE FlagType'
  BY <1>13 DEF CloseStream
<1>14. ASSUME NEW s \in Streams, CloseStreamEnd(s) PROVE FlagType'
  BY <1>14 DEF CloseStreamEnd, ClosedOnce, BeingClosed, LockType
<1>15. ASSUME NEW s \in Streams, UserCancel(s) PROVE FlagType'
  BY <1>15 DEF UserCancel
<1>16. ASSUME NEW s \in Streams, NEW r \in Responses, OnChannelMessage(s, r) PROVE FlagType'
  BY <1>16 DEF OnChannelMessage
<1>17. CASE Refuse
  BY <1>17 DEF Refuse, ControlType
<1>18. CASE Refused
  BY <1>18 DEF Refused, ClosedOnce, BeingClosed, ControlType
<1>19. CASE ProcessHeaders
  BY <1>19 DEF ProcessHeaders, ControlType
<1>20. CASE ProcessMessage
  BY <1>20 DEF ProcessMessage
<1>21. CASE MessageSend
  BY <1>21 DEF MessageSend
<1>22. CASE ProcessTrailers
  BY <1>22 DEF ProcessTrailers, ControlType
<1>23. CASE CloseBase \/ CloseGraceful \/ CloseEnd \/ CloseCall \/ ChannelDone \/ LinkDown \/ UNCHANGED vars
  BY <1>23 DEF CloseBase, CloseGraceful, CloseEnd, CloseCall, ChannelDone, LinkDown, vars
<1> QED
  BY <1>1, <1>2, <1>3, <1>4, <1>5, <1>6, <1>7, <1>8, <1>9, <1>10, <1>11, <1>12, <1>13, <1>14, <1>15, <1>16, <1>17, <1>18, <1>19, <1>20, <1>21, <1>22, <1>23
  DEF Next, Goroutines, Environment, Pump, Closer, Sender, Watcher, User

\* mu is write-locked only when nobody holds it, and read-locked only when it is
\* not write-locked.
LEMMA LockStep ==
  ASSUME Inv, [Next]_vars
  PROVE  LockType'
<1> USE ClientStreamAssumption DEF Inv, TypeOK, LockType, flagVars, muVars, chanVars, sndVars, rcvVars, pumpVars, closeVars, connVars, Goto, Hold,
        CloseBegin, CloseFinish, LockFree, RLockFree
<1>1. ASSUME NEW s \in Streams, WriteHeaders(s) PROVE LockType'
  BY <1>1 DEF WriteHeaders
<1>2. ASSUME NEW s \in Streams, SendWrite(s) PROVE LockType'
  BY <1>2 DEF SendWrite
<1>3. ASSUME NEW s \in Streams, CloseSendWrite(s) PROVE LockType'
  BY <1>3 DEF CloseSendWrite
<1>4. ASSUME NEW s \in Streams, SenderClosed(s) PROVE LockType'
  BY <1>4 DEF SenderClosed
<1>5. ASSUME NEW s \in Streams, NewStream(s) PROVE LockType'
  BY <1>5 DEF NewStream
<1>6. ASSUME NEW s \in Streams, SendMsg(s) PROVE LockType'
  BY <1>6 DEF SendMsg
<1>7. ASSUME NEW s \in Streams, CloseSend(s) PROVE LockType'
  BY <1>7 DEF CloseSend
<1>8. ASSUME NEW s \in Streams, RecvCall(s) PROVE LockType'
  BY <1>8 DEF RecvCall
<1>9. ASSUME NEW s \in Streams, WatchWake(s) PROVE LockType'
  BY <1>9 DEF WatchWake
<1>10. ASSUME NEW s \in Streams, WatchReset(s) PROVE LockType'
  BY <1>10 DEF WatchReset
<1>11. ASSUME NEW s \in Streams, WatchClosed(s) PROVE LockType'
  BY <1>11 DEF WatchClosed
<1>12. ASSUME NEW s \in Streams, RecvMsg(s) PROVE LockType'
  BY <1>12 DEF RecvMsg
<1>13. ASSUME NEW s \in Streams, CloseStream(s) PROVE LockType'
  BY <1>13 DEF CloseStream
<1>14. ASSUME NEW s \in Streams, CloseStreamEnd(s) PROVE LockType'
  BY <1>14 DEF CloseStreamEnd
<1>15. ASSUME NEW s \in Streams, UserCancel(s) PROVE LockType'
  BY <1>15 DEF UserCancel
<1>16. ASSUME NEW s \in Streams, NEW r \in Responses, OnChannelMessage(s, r) PROVE LockType'
  BY <1>16 DEF OnChannelMessage
<1>17. CASE Refuse
  BY <1>17 DEF Refuse
<1>18. CASE Refused
  BY <1>18 DEF Refused
<1>19. CASE ProcessHeaders
  BY <1>19 DEF ProcessHeaders
<1>20. CASE ProcessMessage
  BY <1>20 DEF ProcessMessage
<1>21. CASE MessageSend
  BY <1>21 DEF MessageSend
<1>22. CASE ProcessTrailers
  BY <1>22 DEF ProcessTrailers
<1>23. CASE CloseBase \/ CloseGraceful \/ CloseEnd \/ CloseCall \/ ChannelDone \/ LinkDown \/ UNCHANGED vars
  BY <1>23 DEF CloseBase, CloseGraceful, CloseEnd, CloseCall, ChannelDone, LinkDown, vars
<1> QED
  BY <1>1, <1>2, <1>3, <1>4, <1>5, <1>6, <1>7, <1>8, <1>9, <1>10, <1>11, <1>12, <1>13, <1>14, <1>15, <1>16, <1>17, <1>18, <1>19, <1>20, <1>21, <1>22, <1>23
  DEF Next, Goroutines, Environment, Pump, Closer, Sender, Watcher, User

\* The goroutines stay in their code, and activeSenders counts the pump exactly
\* while it sends.
LEMMA ControlStep ==
  ASSUME Inv, [Next]_vars
  PROVE  ControlType'
<1> USE ClientStreamAssumption DEF Inv, TypeOK, ControlType, flagVars, muVars, chanVars, sndVars, rcvVars, pumpVars, closeVars, connVars, Goto, Hold,
        CloseBegin, CloseFinish, LockFree, RLockFree
<1>1. ASSUME NEW s \in Streams, WriteHeaders(s) PROVE ControlType'
  BY <1>1 DEF WriteHeaders
<1>2. ASSUME NEW s \in Streams, SendWrite(s) PROVE ControlType'
  BY <1>2 DEF SendWrite
<1>3. ASSUME NEW s \in Streams, CloseSendWrite(s) PROVE ControlType'
  BY <1>3 DEF CloseSendWrite
<1>4. ASSUME NEW s \in Streams, SenderClosed(s) PROVE ControlType'
  BY <1>4 DEF SenderClosed
<1>5. ASSUME NEW s \in Streams, NewStream(s) PROVE ControlType'
  BY <1>5 DEF NewStream
<1>6. ASSUME NEW s \in Streams, SendMsg(s) PROVE ControlType'
  BY <1>6 DEF SendMsg
<1>7. ASSUME NEW s \in Streams, CloseSend(s) PROVE ControlType'
  BY <1>7 DEF CloseSend
<1>8. ASSUME NEW s \in Streams, RecvCall(s) PROVE ControlType'
  BY <1>8 DEF RecvCall
<1>9. ASSUME NEW s \in Streams, WatchWake(s) PROVE ControlType'
  BY <1>9 DEF WatchWake
<1>10. ASSUME NEW s \in Streams, WatchReset(s) PROVE ControlType'
  BY <1>10 DEF WatchReset
<1>11. ASSUME NEW s \in Streams, WatchClosed(s) PROVE ControlType'
  BY <1>11 DEF WatchClosed
<1>12. ASSUME NEW s \in Streams, RecvMsg(s) PROVE ControlType'
  BY <1>12 DEF RecvMsg
<1>13. ASSUME NEW s \in Streams, CloseStream(s) PROVE ControlType'
  BY <1>13 DEF CloseStream
<1>14. ASSUME NEW s \in Streams, CloseStreamEnd(s) PROVE ControlType'
  BY <1>14 DEF CloseStreamEnd
<1>15. ASSUME NEW s \in Streams, UserCancel(s) PROVE ControlType'
  BY <1>15 DEF UserCancel
<1>16. ASSUME NEW s \in Streams, NEW r \in Responses, OnChannelMessage(s, r) PROVE ControlType'
  BY <1>16 DEF OnChannelMessage
<1>17. CASE Refuse
  BY <1>17 DEF Refuse, OutOfOrder
<1>18. CASE Refused
  BY <1>18 DEF Refused
<1>19. CASE ProcessHeaders
  BY <1>19 DEF ProcessHeaders
<1>20. CASE ProcessMessage
  BY <1>20 DEF ProcessMessage
<1>21. CASE MessageSend
  BY <1>21 DEF MessageSend
<1>22. CASE ProcessTrailers
  BY <1>22 DEF ProcessTrailers
<1>23. CASE CloseBase \/ CloseGraceful \/ CloseEnd \/ CloseCall \/ ChannelDone \/ LinkDown \/ UNCHANGED vars
  BY <1>23 DEF CloseBase, CloseGraceful, CloseEnd, CloseCall, ChannelDone, LinkDown, vars
<1> QED
  BY <1>1, <1>2, <1>3, <1>4, <1>5, <1>6, <1>7, <1>8, <1>9, <1>10, <1>11, <1>12, <1>13, <1>14, <1>15, <1>16, <1>17, <1>18, <1>19, <1>20, <1>21, <1>22, <1>23
  DEF Next, Goroutines, Environment, Pump, Closer, Sender, Watcher, User

\* The results and errors of the calls, the capacity of msgCh and the bounds.
LEMMA ValueStep ==
  ASSUME Inv, [Next]_vars
  PROVE  ValueType'
<1> USE ClientStreamAssumption DEF Inv, TypeOK, ValueType, flagVars, muVars, chanVars, sndVars, rcvVars, pumpVars, closeVars, connVars, Goto, Hold,
        CloseBegin, CloseFinish, LockFree, RLockFree
<1>1. ASSUME NEW s \in Streams, WriteHeaders(s) PROVE ValueType'
  BY <1>1 DEF WriteHeaders
<1>2. ASSUME NEW s \in Streams, SendWrite(s) PROVE ValueType'
  BY <1>2 DEF SendWrite, MessageResults, WriteResults, MarshalFault
<1>3. ASSUME NEW s \in Streams, CloseSendWrite(s) PROVE ValueType'
  BY <1>3 DEF CloseSendWrite, MessageResults, WriteResults, MarshalFault
<1>4. ASSUME NEW s \in Streams, SenderClosed(s) PROVE ValueType'
  BY <1>4 DEF SenderClosed
<1>5. ASSUME NEW s \in Streams, NewStream(s) PROVE ValueType'
  BY <1>5 DEF NewStream
<1>6. ASSUME NEW s \in Streams, SendMsg(s) PROVE ValueType'
  BY <1>6 DEF SendMsg
<1>7. ASSUME NEW s \in Streams, CloseSend(s) PROVE ValueType'
  BY <1>7 DEF CloseSend
<1>8. ASSUME NEW s \in Streams, RecvCall(s) PROVE ValueType'
  BY <1>8 DEF RecvCall
<1>9. ASSUME NEW s \in Streams, WatchWake(s) PROVE ValueType'
  BY <1>9 DEF WatchWake
<1>10. ASSUME NEW s \in Streams, WatchReset(s) PROVE ValueType'
  BY <1>10 DEF WatchReset
<1>11. ASSUME NEW s \in Streams, WatchClosed(s) PROVE ValueType'
  BY <1>11 DEF WatchClosed
<1>12. ASSUME NEW s \in Streams, RecvMsg(s) PROVE ValueType'
  <2>1. \A t \in Streams : msgCh'[t] = msgCh[t] \/ msgCh'[t] = <<>>
    BY <1>12 DEF RecvMsg, DataType
  <2>2. \A t \in Streams : Len(msgCh'[t]) <= 1
    BY <2>1
  <2>3. result' \in [Streams -> {"none", "eof", "err", "ctx"}]
    BY <1>12 DEF RecvMsg
  <2> QED
    BY <1>12, <2>2, <2>3 DEF RecvMsg
<1>13. ASSUME NEW s \in Streams, CloseStream(s) PROVE ValueType'
  BY <1>13 DEF CloseStream
<1>14. ASSUME NEW s \in Streams, CloseStreamEnd(s) PROVE ValueType'
  BY <1>14 DEF CloseStreamEnd
<1>15. ASSUME NEW s \in Streams, UserCancel(s) PROVE ValueType'
  BY <1>15 DEF UserCancel
<1>16. ASSUME NEW s \in Streams, NEW r \in Responses, OnChannelMessage(s, r) PROVE ValueType'
  BY <1>16 DEF OnChannelMessage
<1>17. CASE Refuse
  BY <1>17 DEF Refuse
<1>18. CASE Refused
  BY <1>18 DEF Refused
<1>19. CASE ProcessHeaders
  BY <1>19 DEF ProcessHeaders
<1>20. CASE ProcessMessage
  BY <1>20 DEF ProcessMessage
<1>21. CASE MessageSend
  <2>1. \A t \in Streams : msgCh'[t] = msgCh[t] \/ msgCh'[t] = <<nmsg[cur]>>
    BY <1>21 DEF MessageSend, DataType
  <2>2. nmsg[cur] \in Nat /\ Len(<<nmsg[cur]>>) = 1
    BY DEF ControlType, DataType
  <2>3. ASSUME NEW t \in Streams PROVE Len(msgCh'[t]) <= 1
    <3>1. CASE msgCh'[t] = msgCh[t]
      BY <3>1
    <3>2. CASE msgCh'[t] = <<nmsg[cur]>>
      <4>1. Len(msgCh'[t]) = 1
        BY <2>2, <3>2, Zenon
      <4> QED
        BY <4>1
    <3> QED
      BY <2>1, <3>1, <3>2
  <2> QED
    BY <1>21, <2>3 DEF MessageSend
<1>22. CASE ProcessTrailers
  BY <1>22 DEF ProcessTrailers
<1>23. CASE CloseBase \/ CloseGraceful \/ CloseEnd \/ CloseCall \/ ChannelDone \/ LinkDown \/ UNCHANGED vars
  BY <1>23 DEF CloseBase, CloseGraceful, CloseEnd, CloseCall, ChannelDone, LinkDown, vars
<1> QED
  BY <1>1, <1>2, <1>3, <1>4, <1>5, <1>6, <1>7, <1>8, <1>9, <1>10, <1>11, <1>12, <1>13, <1>14, <1>15, <1>16, <1>17, <1>18, <1>19, <1>20, <1>21, <1>22, <1>23
  DEF Next, Goroutines, Environment, Pump, Closer, Sender, Watcher, User

\* The messages and the wire.
LEMMA DataStep ==
  ASSUME Inv, [Next]_vars
  PROVE  DataType'
<1> USE ClientStreamAssumption DEF Inv, flagVars, muVars, chanVars, sndVars, rcvVars, pumpVars, closeVars,
      connVars, TypeOK
<1>0. cur \in Streams
  BY DEF ControlType
<1>w. ASSUME NEW s \in Streams, NEW r, NEW x \in {"H", "M", "E", "R"}, Put(s, r, x)
      PROVE  wire' \in [Streams -> Seq({"H", "M", "E", "R"})]
  <2>1. Append(wire[s], x) \in Seq({"H", "M", "E", "R"})
    BY DEF DataType
  <2> QED
    BY <1>w, <2>1 DEF DataType, Put
<1>1. ASSUME NEW s \in Streams, WriteHeaders(s) \/ SendWrite(s) \/ CloseSendWrite(s) \/ WatchReset(s)
      PROVE  DataType'
  <2>1. UNCHANGED <<msgCh, rcvd, nmsg>>
    BY <1>1 DEF WriteHeaders, SendWrite, CloseSendWrite, WatchReset
  <2>2. wire' = wire \/ \E r, x : x \in {"H", "M", "E", "R"} /\ Put(s, r, x)
    BY <1>1 DEF WriteHeaders, SendWrite, CloseSendWrite, WatchReset
  <2> QED
    BY <1>w, <2>1, <2>2 DEF DataType
<1>2. ASSUME NEW s \in Streams, RecvMsg(s) PROVE DataType'
  <2>1. msgCh[s] # <<>> => Append(rcvd[s], Head(msgCh[s])) \in Seq(Nat)
    BY DEF DataType
  <2>2. <<>> \in Seq(Nat)
    OBVIOUS
  <2>3. rcvd' \in [Streams -> Seq(Nat)]
    BY <1>2, <2>1 DEF RecvMsg, DataType
  <2>4. msgCh' \in [Streams -> Seq(Nat)]
    BY <1>2, <2>2 DEF RecvMsg, DataType
  <2> QED
    BY <1>2, <2>3, <2>4 DEF RecvMsg, DataType
<1>3. CASE MessageSend
  <2>1. <<nmsg[cur]>> \in Seq(Nat)
    BY <1>0 DEF DataType
  <2> QED
    BY <1>0, <1>3, <2>1 DEF MessageSend, DataType
<1>4. CASE ProcessMessage
  BY <1>0, <1>4 DEF ProcessMessage, DataType
<1>5. CASE \/ \E s \in Streams : \/ SenderClosed(s) \/ User(s) \/ WatchWake(s) \/ WatchClosed(s) \/ UserCancel(s)
                                 \/ \E r \in Responses : OnChannelMessage(s, r)
           \/ Refuse \/ Refused \/ ProcessHeaders \/ ProcessTrailers \/ Closer
           \/ CloseCall \/ ChannelDone \/ LinkDown \/ UNCHANGED vars
  <2>1. UNCHANGED <<msgCh, rcvd, nmsg, wire>>
    BY <1>5 DEF SenderClosed, User, NewStream, SendMsg, CloseSend, RecvCall, WatchWake, WatchClosed, UserCancel,
      OnChannelMessage, Refuse, Refused, ProcessHeaders, ProcessTrailers, Closer, CloseStream, CloseStreamEnd,
      CloseBase, CloseGraceful, CloseEnd, CloseCall, ChannelDone, LinkDown, vars
  <2> QED
    BY <2>1 DEF DataType
<1> QED
  BY <1>1, <1>2, <1>3, <1>4, <1>5 DEF Next, Goroutines, Environment, Pump, Sender, Watcher

----------------------------------------------------------------------------
(* Closing a stream. *)

\* closed is set once: whoever sets it closes the stream, and the trailers'
\* status is the last that is written to err.
LEMMA ClosedOnceStep ==
  ASSUME Inv, [Next]_vars
  PROVE  ClosedOnce'
<1> USE ClientStreamAssumption DEF Inv, TypeOK, FlagType, LockType, ControlType, flagVars, muVars, chanVars, sndVars, rcvVars, pumpVars, closeVars, connVars, Goto, Hold,
        CloseBegin, CloseFinish, LockFree, RLockFree, ValueType,
        ClosedOnce, BeingClosed
<1>1. ASSUME NEW s \in Streams, WriteHeaders(s) PROVE ClosedOnce'
  BY <1>1 DEF WriteHeaders
<1>2. ASSUME NEW s \in Streams, SendWrite(s) PROVE ClosedOnce'
  BY <1>2 DEF SendWrite
<1>3. ASSUME NEW s \in Streams, CloseSendWrite(s) PROVE ClosedOnce'
  BY <1>3 DEF CloseSendWrite
<1>4. ASSUME NEW s \in Streams, SenderClosed(s) PROVE ClosedOnce'
  BY <1>4 DEF SenderClosed
<1>5. ASSUME NEW s \in Streams, NewStream(s) PROVE ClosedOnce'
  BY <1>5 DEF NewStream
<1>6. ASSUME NEW s \in Streams, SendMsg(s) PROVE ClosedOnce'
  BY <1>6 DEF SendMsg
<1>7. ASSUME NEW s \in Streams, CloseSend(s) PROVE ClosedOnce'
  BY <1>7 DEF CloseSend
<1>8. ASSUME NEW s \in Streams, RecvCall(s) PROVE ClosedOnce'
  BY <1>8 DEF RecvCall
<1>9. ASSUME NEW s \in Streams, WatchWake(s) PROVE ClosedOnce'
  BY <1>9 DEF WatchWake
<1>10. ASSUME NEW s \in Streams, WatchReset(s) PROVE ClosedOnce'
  BY <1>10 DEF WatchReset
<1>11. ASSUME NEW s \in Streams, WatchClosed(s) PROVE ClosedOnce'
  BY <1>11 DEF WatchClosed
<1>12. ASSUME NEW s \in Streams, RecvMsg(s) PROVE ClosedOnce'
  BY <1>12 DEF RecvMsg
<1>13. ASSUME NEW s \in Streams, CloseStream(s) PROVE ClosedOnce'
  BY <1>13 DEF CloseStream
<1>14. ASSUME NEW s \in Streams, CloseStreamEnd(s) PROVE ClosedOnce'
  BY <1>14 DEF CloseStreamEnd
<1>15. ASSUME NEW s \in Streams, UserCancel(s) PROVE ClosedOnce'
  BY <1>15 DEF UserCancel
<1>16. ASSUME NEW s \in Streams, NEW r \in Responses, OnChannelMessage(s, r) PROVE ClosedOnce'
  BY <1>16 DEF OnChannelMessage
<1>17. CASE Refuse
  BY <1>17 DEF Refuse, OutOfOrder
<1>18. CASE Refused
  BY <1>18 DEF Refused
<1>19. CASE ProcessHeaders
  BY <1>19 DEF ProcessHeaders
<1>20. CASE ProcessMessage
  BY <1>20 DEF ProcessMessage
<1>21. CASE MessageSend
  BY <1>21 DEF MessageSend
<1>22. CASE ProcessTrailers
  BY <1>22 DEF ProcessTrailers
<1>23. CASE CloseBase \/ CloseGraceful \/ CloseEnd \/ CloseCall \/ ChannelDone \/ LinkDown \/ UNCHANGED vars
  BY <1>23 DEF CloseBase, CloseGraceful, CloseEnd, CloseCall, ChannelDone, LinkDown, vars
<1> QED
  BY <1>1, <1>2, <1>3, <1>4, <1>5, <1>6, <1>7, <1>8, <1>9, <1>10, <1>11, <1>12, <1>13, <1>14, <1>15, <1>16, <1>17, <1>18, <1>19, <1>20, <1>21, <1>22, <1>23
  DEF Next, Goroutines, Environment, Pump, Closer, Sender, Watcher, User

\* msgCh is closed only when the pump is not sending on it, and the pump starts
\* to send only when recvClosed, which is set first, is not.
LEMMA SendOpenStep ==
  ASSUME Inv, [Next]_vars
  PROVE  SendOpen' /\ NoSendOnClosed'
<1> USE ClientStreamAssumption DEF Inv, TypeOK, FlagType, LockType, ControlType, flagVars, muVars, chanVars, sndVars, rcvVars, pumpVars, closeVars, connVars, Goto, Hold,
        CloseBegin, CloseFinish, LockFree, RLockFree, SendOpen, NoSendOnClosed
<1>1. ASSUME NEW s \in Streams, WriteHeaders(s) PROVE SendOpen' /\ NoSendOnClosed'
  BY <1>1 DEF WriteHeaders
<1>2. ASSUME NEW s \in Streams, SendWrite(s) PROVE SendOpen' /\ NoSendOnClosed'
  BY <1>2 DEF SendWrite
<1>3. ASSUME NEW s \in Streams, CloseSendWrite(s) PROVE SendOpen' /\ NoSendOnClosed'
  BY <1>3 DEF CloseSendWrite
<1>4. ASSUME NEW s \in Streams, SenderClosed(s) PROVE SendOpen' /\ NoSendOnClosed'
  BY <1>4 DEF SenderClosed
<1>5. ASSUME NEW s \in Streams, NewStream(s) PROVE SendOpen' /\ NoSendOnClosed'
  BY <1>5 DEF NewStream
<1>6. ASSUME NEW s \in Streams, SendMsg(s) PROVE SendOpen' /\ NoSendOnClosed'
  BY <1>6 DEF SendMsg
<1>7. ASSUME NEW s \in Streams, CloseSend(s) PROVE SendOpen' /\ NoSendOnClosed'
  BY <1>7 DEF CloseSend
<1>8. ASSUME NEW s \in Streams, RecvCall(s) PROVE SendOpen' /\ NoSendOnClosed'
  BY <1>8 DEF RecvCall
<1>9. ASSUME NEW s \in Streams, WatchWake(s) PROVE SendOpen' /\ NoSendOnClosed'
  BY <1>9 DEF WatchWake
<1>10. ASSUME NEW s \in Streams, WatchReset(s) PROVE SendOpen' /\ NoSendOnClosed'
  BY <1>10 DEF WatchReset
<1>11. ASSUME NEW s \in Streams, WatchClosed(s) PROVE SendOpen' /\ NoSendOnClosed'
  BY <1>11 DEF WatchClosed
<1>12. ASSUME NEW s \in Streams, RecvMsg(s) PROVE SendOpen' /\ NoSendOnClosed'
  BY <1>12 DEF RecvMsg
<1>13. ASSUME NEW s \in Streams, CloseStream(s) PROVE SendOpen' /\ NoSendOnClosed'
  BY <1>13 DEF CloseStream
<1>14. ASSUME NEW s \in Streams, CloseStreamEnd(s) PROVE SendOpen' /\ NoSendOnClosed'
  BY <1>14 DEF CloseStreamEnd
<1>15. ASSUME NEW s \in Streams, UserCancel(s) PROVE SendOpen' /\ NoSendOnClosed'
  BY <1>15 DEF UserCancel
<1>16. ASSUME NEW s \in Streams, NEW r \in Responses, OnChannelMessage(s, r) PROVE SendOpen' /\ NoSendOnClosed'
  BY <1>16 DEF OnChannelMessage
<1>17. CASE Refuse
  BY <1>17 DEF Refuse, OutOfOrder
<1>18. CASE Refused
  BY <1>18 DEF Refused
<1>19. CASE ProcessHeaders
  BY <1>19 DEF ProcessHeaders
<1>20. CASE ProcessMessage
  BY <1>20 DEF ProcessMessage
<1>21. CASE MessageSend
  <2>1. pump = "send" /\ pump' = "idle" /\ cur \notin msgChClosed /\ ~panicked
    BY <1>21 DEF MessageSend
  <2>2. panicked' = (panicked \/ cur \in msgChClosed) \/ panicked' = panicked
    BY <1>21 DEF MessageSend
  <2>3. ~panicked'
    BY <2>1, <2>2, Zenon
  <2> QED
    BY <2>1, <2>3
<1>22. CASE ProcessTrailers
  BY <1>22 DEF ProcessTrailers
<1>23. CASE CloseBase \/ CloseGraceful \/ CloseEnd \/ CloseCall \/ ChannelDone \/ LinkDown \/ UNCHANGED vars
  BY <1>23 DEF CloseBase, CloseGraceful, CloseEnd, CloseCall, ChannelDone, LinkDown, vars
<1> QED
  BY <1>1, <1>2, <1>3, <1>4, <1>5, <1>6, <1>7, <1>8, <1>9, <1>10, <1>11, <1>12, <1>13, <1>14, <1>15, <1>16, <1>17, <1>18, <1>19, <1>20, <1>21, <1>22, <1>23
  DEF Next, Goroutines, Environment, Pump, Closer, Sender, Watcher, User

\* As long as nobody gives a stream up its receiver waits.
LEMMA OpenStep ==
  ASSUME Inv, [Next]_vars
  PROVE  OpenGoesOn'
<1> USE ClientStreamAssumption DEF Inv, TypeOK, FlagType, LockType, ControlType, flagVars, muVars, chanVars, sndVars, rcvVars, pumpVars, closeVars, connVars, Goto, Hold,
        CloseBegin, CloseFinish, LockFree, RLockFree, ValueType, OpenGoesOn, Live
<1>1. ASSUME NEW s \in Streams, WriteHeaders(s) PROVE OpenGoesOn'
  BY <1>1 DEF WriteHeaders
<1>2. ASSUME NEW s \in Streams, SendWrite(s) PROVE OpenGoesOn'
  BY <1>2 DEF SendWrite
<1>3. ASSUME NEW s \in Streams, CloseSendWrite(s) PROVE OpenGoesOn'
  BY <1>3 DEF CloseSendWrite
<1>4. ASSUME NEW s \in Streams, SenderClosed(s) PROVE OpenGoesOn'
  BY <1>4 DEF SenderClosed, ClosedOnce, BeingClosed
<1>5. ASSUME NEW s \in Streams, NewStream(s) PROVE OpenGoesOn'
  BY <1>5 DEF NewStream
<1>6. ASSUME NEW s \in Streams, SendMsg(s) PROVE OpenGoesOn'
  BY <1>6 DEF SendMsg
<1>7. ASSUME NEW s \in Streams, CloseSend(s) PROVE OpenGoesOn'
  BY <1>7 DEF CloseSend
<1>8. ASSUME NEW s \in Streams, RecvCall(s) PROVE OpenGoesOn'
  BY <1>8 DEF RecvCall
<1>9. ASSUME NEW s \in Streams, WatchWake(s) PROVE OpenGoesOn'
  BY <1>9 DEF WatchWake
<1>10. ASSUME NEW s \in Streams, WatchReset(s) PROVE OpenGoesOn'
  BY <1>10 DEF WatchReset
<1>11. ASSUME NEW s \in Streams, WatchClosed(s) PROVE OpenGoesOn'
  BY <1>11 DEF WatchClosed, ClosedOnce, BeingClosed
<1>12. ASSUME NEW s \in Streams, RecvMsg(s) PROVE OpenGoesOn'
  BY <1>12 DEF RecvMsg, CtxDone
<1>13. ASSUME NEW s \in Streams, CloseStream(s) PROVE OpenGoesOn'
  BY <1>13 DEF CloseStream
<1>14. ASSUME NEW s \in Streams, CloseStreamEnd(s) PROVE OpenGoesOn'
  BY <1>14 DEF CloseStreamEnd, ClosedOnce, BeingClosed
<1>15. ASSUME NEW s \in Streams, UserCancel(s) PROVE OpenGoesOn'
  BY <1>15 DEF UserCancel
<1>16. ASSUME NEW s \in Streams, NEW r \in Responses, OnChannelMessage(s, r) PROVE OpenGoesOn'
  BY <1>16 DEF OnChannelMessage
<1>17. CASE Refuse
  BY <1>17 DEF Refuse
<1>18. CASE Refused
  BY <1>18 DEF Refused, ClosedOnce, BeingClosed
<1>19. CASE ProcessHeaders
  BY <1>19 DEF ProcessHeaders
<1>20. CASE ProcessMessage
  BY <1>20 DEF ProcessMessage
<1>21. CASE MessageSend
  BY <1>21 DEF MessageSend
<1>22. CASE ProcessTrailers
  BY <1>22 DEF ProcessTrailers
<1>23. CASE CloseBase \/ CloseGraceful \/ CloseEnd \/ CloseCall \/ ChannelDone \/ LinkDown \/ UNCHANGED vars
  BY <1>23 DEF CloseBase, CloseGraceful, CloseEnd, CloseCall, ChannelDone, LinkDown, vars
<1> QED
  BY <1>1, <1>2, <1>3, <1>4, <1>5, <1>6, <1>7, <1>8, <1>9, <1>10, <1>11, <1>12, <1>13, <1>14, <1>15, <1>16, <1>17, <1>18, <1>19, <1>20, <1>21, <1>22, <1>23
  DEF Next, Goroutines, Environment, Pump, Closer, Sender, Watcher, User

----------------------------------------------------------------------------
(* What the receiver gets. *)

\* Once given up or closed otherwise than by its trailers, a stream stays so.
LEMMA WholeBefore ==
  ASSUME Inv, [Next]_vars, NEW t \in Streams, Live(t)', Whole(t)'
  PROVE  Live(t) /\ Whole(t)
<1> USE ClientStreamAssumption DEF Inv, flagVars, closeVars, connVars, CloseBegin
<1>1. userDone \subseteq userDone' /\ (chCtx => chCtx') /\ (close # "no" => close' # "no") /\ closed \subseteq closed'
  BY DEF Next, Goroutines, Environment, Pump, Closer, Sender, Watcher, User, WriteHeaders, SendWrite,
    CloseSendWrite, SenderClosed, NewStream, SendMsg, CloseSend, RecvCall, WatchWake, WatchReset, WatchClosed,
    UserCancel, OnChannelMessage, RecvMsg, Refuse, Refused, ProcessHeaders, ProcessMessage, MessageSend,
    ProcessTrailers, CloseStream, CloseStreamEnd, CloseBase, CloseGraceful, CloseEnd, CloseCall, ChannelDone,
    LinkDown, vars
<1>2. UNCHANGED byTrailers \/ (ProcessTrailers /\ cur \notin closed)
  BY DEF Next, Goroutines, Environment, Pump, Closer, Sender, Watcher, User, WriteHeaders, SendWrite,
    CloseSendWrite, SenderClosed, NewStream, SendMsg, CloseSend, RecvCall, WatchWake, WatchReset, WatchClosed,
    UserCancel, OnChannelMessage, RecvMsg, Refuse, Refused, ProcessHeaders, ProcessMessage, MessageSend,
    ProcessTrailers, CloseStream, CloseStreamEnd, CloseBase, CloseGraceful, CloseEnd, CloseCall, ChannelDone,
    LinkDown, vars
<1>3. Whole(t)
  BY <1>1, <1>2 DEF Whole, ProcessTrailers, TypeOK, ValueType
<1> QED
  BY <1>1, <1>3 DEF Live

\* msgCh has room for one message.
LEMMA LenOne ==
  ASSUME NEW q \in Seq(Nat), q # <<>>, Len(q) <= 1
  PROVE  Len(q) = 1
<1>1. Len(q) \in Nat
  OBVIOUS
<1>2. Len(q) # 0
  OBVIOUS
<1>3. ASSUME NEW n \in Nat, n # 0, n <= 1 PROVE n = 1
  BY <1>3
<1> QED
  BY <1>1, <1>2, <1>3

\* A stream that nobody gave up loses no message, and its receiver learns the
\* status of the trailers when it has all of them.
LEMMA ResultStep ==
  ASSUME Inv, [Next]_vars
  PROVE  ResultAtEnd'
<1> SUFFICES ASSUME NEW t \in Streams, Live(t)', Whole(t)'
             PROVE  /\ Complete(t)'
                    /\ byTrailers'[t] # "none" /\ result'[t] # "none" =>
                         msgCh'[t] = <<>> /\ result'[t] = IF byTrailers'[t] = "ok" THEN "eof" ELSE "err"
  BY DEF ResultAtEnd
<1> USE ClientStreamAssumption DEF Inv, flagVars, chanVars, sndVars, rcvVars, pumpVars, closeVars, connVars
<1>0. Live(t) /\ Whole(t) /\ cur \in Streams
  BY WholeBefore DEF TypeOK, ControlType
<1>1. /\ Complete(t)
      /\ byTrailers[t] # "none" /\ result[t] # "none" =>
           msgCh[t] = <<>> /\ result[t] = IF byTrailers[t] = "ok" THEN "eof" ELSE "err"
  BY <1>0 DEF ResultAtEnd
<1>t. /\ rcvd \in [Streams -> Seq(Nat)] /\ msgCh \in [Streams -> Seq(Nat)] /\ nmsg \in [Streams -> Nat]
      /\ rcvd[t] \in Seq(Nat) /\ msgCh[t] \in Seq(Nat) /\ Len(msgCh[t]) <= 1 /\ Len(rcvd[t]) \in Nat
      /\ Len(msgCh[t]) \in Nat
  BY DEF DataType, TypeOK, ValueType
<1>c. ~CtxDone(t) \/ t \in msgChClosed
  BY <1>0 DEF Live, Whole, CtxDone, OpenGoesOn, ClosedOnce
<1>2. CASE ProcessTrailers
  <2>1. UNCHANGED <<rcvd, msgCh, nmsg, cur, result>> /\ pump # "send" /\ pump' # "send"
    BY <1>2 DEF ProcessTrailers
  <2>2. byTrailers'[t] = byTrailers[t] \/ t \notin closed
    BY <1>2 DEF ProcessTrailers, TypeOK, ValueType
  <2>3. t \notin closed => result[t] = "none"
    BY <1>0 DEF OpenGoesOn
  <2> QED
    BY <1>1, <2>1, <2>2, <2>3 DEF Complete
<1>3. CASE ProcessMessage
  <2>1. UNCHANGED <<rcvd, msgCh, cur, result, byTrailers>> /\ pump = "M"
    BY <1>3 DEF ProcessMessage
  <2>2. \/ pump' = "idle" /\ nmsg' = nmsg
        \/ pump' = "send" /\ nmsg' = [nmsg EXCEPT ![cur] = @ + 1]
    BY <1>3 DEF ProcessMessage
  <2>3. nmsg'[t] = nmsg[t] + IF pump' = "send" /\ cur = t THEN 1 ELSE 0
    BY <1>0, <1>t, <2>2
  <2> QED
    BY <1>1, <1>t, <2>1, <2>2, <2>3 DEF Complete
<1>4. CASE MessageSend
  <2>1. /\ UNCHANGED <<rcvd, nmsg, cur, result, byTrailers>> /\ pump = "send" /\ pump' = "idle"
        /\ cur \notin msgChClosed
    BY <1>4 DEF MessageSend, SendOpen
  <2>2. CASE cur # t
    <3>1. msgCh'[t] = msgCh[t]
      BY <1>4, <1>t, <2>2 DEF MessageSend
    <3> QED
      BY <1>1, <2>1, <2>2, <3>1 DEF Complete
  <2>3. CASE cur = t
    <3>1. msgCh[t] = <<>> /\ msgCh'[t] = <<nmsg[t]>>
      BY <1>4, <1>t, <1>c, <2>1, <2>3 DEF MessageSend
    <3>a. ASSUME NEW n \in Nat PROVE Len(<<n>>) = 1 /\ <<n>>[1] = n
      OBVIOUS
    <3>b. Len(<<nmsg[t]>>) = 1 /\ <<nmsg[t]>>[1] = nmsg[t]
      BY <3>a, <1>t
    <3>c. Len(msgCh'[t]) = 1 /\ msgCh'[t][1] = nmsg[t]
      BY <3>1, <3>b, Zenon
    <3>d. Len(msgCh[t]) = 0
      BY <3>1
    <3>2. Len(msgCh[t]) = 0 /\ Len(msgCh'[t]) = 1 /\ msgCh'[t][1] = nmsg[t] /\ nmsg[t] = Len(rcvd[t]) + 1
      BY <1>1, <1>t, <2>1, <2>3, <3>c, <3>d DEF Complete
    <3>3. byTrailers[t] = "none"
      BY <2>1, <2>3 DEF ClosedOnce
    <3> QED
      BY <1>1, <1>t, <2>1, <2>3, <3>2, <3>3 DEF Complete
  <2> QED
    BY <2>2, <2>3
<1>5. ASSUME NEW s \in Streams, RecvMsg(s), s = t
      PROVE  /\ Complete(t)'
             /\ byTrailers'[t] # "none" /\ result'[t] # "none" =>
                  msgCh'[t] = <<>> /\ result'[t] = IF byTrailers'[t] = "ok" THEN "eof" ELSE "err"
  <2>1. UNCHANGED <<nmsg, cur, pump, byTrailers>>
    BY <1>5 DEF RecvMsg
  <2>2. CASE msgCh[t] # <<>>
    <3>1. /\ rcvd'[t] = Append(rcvd[t], msgCh[t][1]) /\ msgCh'[t] = <<>> /\ result' = result
      BY <1>5, <1>t, <2>2 DEF RecvMsg
    <3>a. Len(msgCh[t]) = 1
      BY <1>t, <2>2, LenOne, Zenon
    <3>b. Len(msgCh'[t]) = 0
      BY <3>1
    <3>2. Len(msgCh[t]) = 1 /\ Len(msgCh'[t]) = 0 /\ msgCh[t][1] = Len(rcvd[t]) + 1
      BY <1>1, <2>2, <3>a, <3>b DEF Complete
    <3>3. /\ DOMAIN rcvd[t] = 1 .. Len(rcvd[t]) /\ DOMAIN rcvd'[t] = 1 .. (Len(rcvd[t]) + 1)
          /\ Len(rcvd'[t]) = Len(rcvd[t]) + 1 /\ rcvd'[t][Len(rcvd[t]) + 1] = Len(rcvd[t]) + 1
          /\ \A i \in DOMAIN rcvd[t] : rcvd'[t][i] = rcvd[t][i]
      BY <1>t, <3>1, <3>2
    <3>4. Complete(t)'
      BY <1>1, <1>t, <2>1, <3>1, <3>2, <3>3 DEF Complete
    <3> QED
      BY <1>1, <2>1, <2>2, <3>1, <3>4
  <2>3. CASE msgCh[t] = <<>>
    <3>1. UNCHANGED <<rcvd, msgCh>> /\ t \in msgChClosed
      BY <1>5, <1>c, <2>3 DEF RecvMsg
    <3>2. byTrailers[t] # "none" /\ serr[t] = byTrailers[t] /\ byTrailers[t] \in {"none", "ok", "err"}
      BY <1>0, <3>1 DEF Whole, ClosedOnce, TypeOK, FlagType, ValueType
    <3>3. result'[t] = IF byTrailers[t] = "ok" THEN "eof" ELSE "err"
      BY <1>5, <2>3, <3>1, <3>2 DEF RecvMsg, TypeOK, ValueType
    <3> QED
      BY <1>1, <2>1, <2>3, <3>1, <3>3 DEF Complete
  <2> QED
    BY <2>2, <2>3
<1>6. ASSUME NEW s \in Streams, RecvMsg(s), s # t
      PROVE  /\ Complete(t)'
             /\ byTrailers'[t] # "none" /\ result'[t] # "none" =>
                  msgCh'[t] = <<>> /\ result'[t] = IF byTrailers'[t] = "ok" THEN "eof" ELSE "err"
  <2>1. /\ UNCHANGED <<nmsg, cur, pump, byTrailers>>
        /\ rcvd'[t] = rcvd[t] /\ msgCh'[t] = msgCh[t] /\ result'[t] = result[t]
    BY <1>6, <1>t DEF RecvMsg, TypeOK, ValueType
  <2> QED
    BY <1>1, <2>1 DEF Complete
<1>7. CASE ~(ProcessTrailers \/ ProcessMessage \/ MessageSend \/ \E s \in Streams : RecvMsg(s))
  <2>1. UNCHANGED <<rcvd, msgCh, nmsg, result, byTrailers>>
    BY <1>7 DEF Next, Goroutines, Environment, Pump, Closer, Sender, Watcher, User, WriteHeaders, SendWrite,
      CloseSendWrite, SenderClosed, NewStream, SendMsg, CloseSend, RecvCall, WatchWake, WatchReset, WatchClosed,
      UserCancel, OnChannelMessage, Refuse, Refused, ProcessHeaders, CloseStream, CloseStreamEnd, CloseBase,
      CloseGraceful, CloseEnd, CloseCall, ChannelDone, LinkDown, vars
  <2>2. UNCHANGED <<pump, cur>> \/ (pump # "send" /\ pump' # "send")
    BY <1>7 DEF Next, Goroutines, Environment, Pump, Closer, Sender, Watcher, User, WriteHeaders, SendWrite,
      CloseSendWrite, SenderClosed, NewStream, SendMsg, CloseSend, RecvCall, WatchWake, WatchReset, WatchClosed,
      UserCancel, OnChannelMessage, Refuse, OutOfOrder, Refused, ProcessHeaders, CloseStream, CloseStreamEnd,
      CloseBase, CloseGraceful, CloseEnd, CloseCall, ChannelDone, LinkDown, vars
  <2> QED
    BY <1>1, <2>1, <2>2 DEF Complete
<1> QED
  BY <1>2, <1>3, <1>4, <1>5, <1>6, <1>7

----------------------------------------------------------------------------
(* What is on the wire. *)

\* RequestOrder of one stream.
InOrder(w) ==
  \A i, j \in DOMAIN w : i < j =>
    /\ w[i] = w[j] => w[i] = "M"
    /\ w[i] = "E" => w[j] # "M"
    /\ w[i] = "R" => w[j] = "H"

\* What may be appended to an ordered wire.
LEMMA ExtendInOrder ==
  ASSUME NEW w, NEW v, NEW x, Extends(w, v, x), InOrder(w),
         x # "M" => Absent(w, x), x = "M" => Absent(w, "E"), x # "H" => Absent(w, "R")
  PROVE  InOrder(v)
<1> SUFFICES ASSUME NEW i \in DOMAIN v, NEW j \in DOMAIN v, i < j
             PROVE  /\ v[i] = v[j] => v[i] = "M"
                    /\ v[i] = "E" => v[j] # "M"
                    /\ v[i] = "R" => v[j] = "H"
  BY DEF InOrder
<1>1. i \in DOMAIN w /\ v[i] = w[i] /\ (j \in DOMAIN w \/ j = Len(w) + 1)
  BY DEF Extends
<1>2. CASE j \in DOMAIN w
  BY <1>1, <1>2 DEF Extends, InOrder
<1>3. CASE j = Len(w) + 1
  BY <1>1, <1>3 DEF Extends, Absent
<1> QED
  BY <1>1, <1>2, <1>3

\* What is absent stays so but for what is appended.
LEMMA ExtendAbsent ==
  ASSUME NEW w, NEW v, NEW x, NEW y, Extends(w, v, x), Absent(w, y), x # y
  PROVE  Absent(v, y)
<1> SUFFICES ASSUME NEW i \in DOMAIN v PROVE v[i] # y
  BY DEF Absent
<1>1. i \in DOMAIN w \/ i = Len(w) + 1
  BY DEF Extends
<1> QED
  BY <1>1 DEF Extends, Absent

\* What a write leaves on the wire: nothing, or one more request of its stream.
LEMMA PutEffect ==
  ASSUME DataType, NEW s \in Streams, NEW x \in {"H", "M", "E", "R"}, NEW r, Put(s, r, x)
  PROVE  \/ wire' = wire /\ r # "ok"
         \/ /\ r = "ok" /\ Extends(wire[s], wire'[s], x)
            /\ \A t \in Streams \ {s} : wire'[t] = wire[t]
<1>1. wire \in [Streams -> Seq({"H", "M", "E", "R"})] /\ wire[s] \in Seq({"H", "M", "E", "R"})
  BY DEF DataType
<1>2. CASE r = "ok"
  <2>1. wire'[s] = Append(wire[s], x) /\ \A t \in Streams \ {s} : wire'[t] = wire[t]
    BY <1>1, <1>2 DEF Put
  <2> QED
    BY <1>1, <1>2, <2>1 DEF Extends
<1>3. CASE r # "ok"
  BY <1>3 DEF Put
<1> QED
  BY <1>2, <1>3

\* A step that leaves the wire, the sender and the watcher of a stream alone, or
\* only shuts its sending side, keeps what Written says of it.
LEMMA WrittenFrame ==
  ASSUME NEW t \in Streams, Written(t), wire'[t] = wire[t], sndPc'[t] = sndPc[t], watch'[t] = watch[t],
         t \in muR => t \in muR', t \in sendClosed => t \in sendClosed'
  PROVE  Written(t)'
  BY DEF Written, Absent

\* The four writes of a stream are in order: writeHeaders is the first of its
\* sender, writeMessage holds mu and has seen sendClosed, and the reset sets it.
LEMMA WireStep ==
  ASSUME Inv, [Next]_vars
  PROVE  WireInv'
<1> USE ClientStreamAssumption DEF Goto, Hold, LockFree, RLockFree, CloseBegin, CloseFinish, flagVars, muVars,
        sndVars
<1>t. /\ DataType /\ WireInv /\ \A s \in Streams : InOrder(wire[s]) /\ Written(s)
      /\ sndPc \in [Streams -> {"none", "hdr", "ready", "wr", "eos", "wait", "over"}]
      /\ watch \in [Streams -> {"none", "wait", "lock", "close", "closeErr", "over"}]
      /\ muR \subseteq Streams /\ sendClosed \subseteq Streams /\ cur \in Streams
      /\ \A s \in muR : muW[s] = "free"
  BY DEF Inv, WireInv, RequestOrder, InOrder, TypeOK, ControlType, FlagType, LockType
<1> SUFFICES \A t \in Streams : InOrder(wire'[t]) /\ Written(t)'
  BY DEF WireInv, RequestOrder, InOrder
<1>1. ASSUME NEW s \in Streams, WriteHeaders(s) PROVE \A t \in Streams : InOrder(wire'[t]) /\ Written(t)'
  <2>1. PICK r \in WriteResults : /\ Put(s, r, "H") /\ sndPc[s] = "hdr"
                                  /\ sndPc' = [sndPc EXCEPT ![s] = IF r = "err" /\ s \notin closed THEN "wait"
                                                                   ELSE IF r = "ok" THEN "ready" ELSE "over"]
                                  /\ UNCHANGED <<sendClosed, watch, muR>>
    BY <1>1 DEF WriteHeaders
  <2>2. \/ wire' = wire /\ r # "ok"
        \/ /\ r = "ok" /\ Extends(wire[s], wire'[s], "H")
           /\ \A t \in Streams \ {s} : wire'[t] = wire[t]
    BY <1>t, <2>1, PutEffect
  <2>3. \A t \in Streams \ {s} : InOrder(wire'[t]) /\ Written(t)'
    BY <1>t, <2>1, <2>2, WrittenFrame
  <2>4. sndPc'[s] \in {"ready", "wait", "over"} /\ watch'[s] = watch[s]
    BY <1>t, <2>1
  <2>5. Absent(wire[s], "H") /\ Absent(wire[s], "E") /\ InOrder(wire[s])
    BY <1>t, <2>1 DEF Written
  <2>6. InOrder(wire'[s]) /\ Absent(wire'[s], "E") /\ (Absent(wire[s], "R") => Absent(wire'[s], "R"))
    BY <2>2, <2>5, ExtendInOrder, ExtendAbsent
  <2>7. Written(s)'
    BY <1>t, <2>1, <2>4, <2>6 DEF Written
  <2> QED
    BY <2>3, <2>6, <2>7
<1>2. ASSUME NEW s \in Streams, SendWrite(s) PROVE \A t \in Streams : InOrder(wire'[t]) /\ Written(t)'
  <2>1. PICK r \in MessageResults : /\ Put(s, r, "M") /\ sndPc[s] = "wr"
                                    /\ sndPc' = [sndPc EXCEPT ![s] = IF r = "err" /\ s \notin closed THEN "wait"
                                                                     ELSE IF r = "ok" THEN "ready" ELSE "over"]
                                    /\ UNCHANGED <<sendClosed, watch>> /\ muR \ {s} \subseteq muR'
    BY <1>2 DEF SendWrite
  <2>2. \/ wire' = wire /\ r # "ok"
        \/ /\ r = "ok" /\ Extends(wire[s], wire'[s], "M")
           /\ \A t \in Streams \ {s} : wire'[t] = wire[t]
    BY <1>t, <2>1, PutEffect
  <2>3. \A t \in Streams \ {s} : InOrder(wire'[t]) /\ Written(t)'
    BY <1>t, <2>1, <2>2, WrittenFrame
  <2>4. sndPc'[s] \in {"ready", "wait", "over"} /\ watch'[s] = watch[s]
    BY <1>t, <2>1
  <2>5. Absent(wire[s], "E") /\ Absent(wire[s], "R") /\ InOrder(wire[s])
    BY <1>t, <2>1 DEF Written
  <2>6. InOrder(wire'[s]) /\ Absent(wire'[s], "E") /\ Absent(wire'[s], "R")
    BY <2>2, <2>5, ExtendInOrder, ExtendAbsent
  <2>7. Written(s)'
    BY <2>4, <2>6 DEF Written
  <2> QED
    BY <2>3, <2>6, <2>7
<1>3. ASSUME NEW s \in Streams, CloseSendWrite(s) PROVE \A t \in Streams : InOrder(wire'[t]) /\ Written(t)'
  <2>0. /\ sndPc[s] = "eos" /\ (sndPc' = [sndPc EXCEPT ![s] = "wait"] \/ sndPc' = [sndPc EXCEPT ![s] = "over"])
        /\ UNCHANGED <<watch, muR>> /\ sendClosed' = sendClosed \cup {s}
    BY <1>3 DEF CloseSendWrite
  <2>1. wire' = wire \/ (s \notin sendClosed /\ \E r : Put(s, r, "E"))
    BY <1>3 DEF CloseSendWrite
  <2>2. \/ wire' = wire
        \/ /\ s \notin sendClosed /\ Extends(wire[s], wire'[s], "E")
           /\ \A t \in Streams \ {s} : wire'[t] = wire[t]
    BY <1>t, <2>1, PutEffect
  <2>3. \A t \in Streams \ {s} : InOrder(wire'[t]) /\ Written(t)'
    BY <1>t, <2>0, <2>2, WrittenFrame
  <2>4. sndPc'[s] \in {"wait", "over"} /\ watch'[s] = watch[s] /\ s \in sendClosed'
    BY <1>t, <2>0
  <2>5. Absent(wire[s], "E") /\ (s \notin sendClosed => Absent(wire[s], "R")) /\ InOrder(wire[s])
    BY <1>t, <2>0 DEF Written
  <2>6. InOrder(wire'[s]) /\ (Absent(wire[s], "R") => Absent(wire'[s], "R"))
    BY <2>2, <2>5, ExtendInOrder, ExtendAbsent
  <2>7. Written(s)'
    BY <1>t, <2>0, <2>4, <2>6 DEF Written
  <2> QED
    BY <2>3, <2>6, <2>7
<1>4. ASSUME NEW s \in Streams, WatchReset(s) PROVE \A t \in Streams : InOrder(wire'[t]) /\ Written(t)'
  <2>0. /\ watch[s] = "lock" /\ s \notin muR /\ UNCHANGED <<sndPc, muR>> /\ sendClosed' = sendClosed \cup {s}
    BY <1>4 DEF WatchReset
  <2>1. PICK r \in WriteResults : /\ Put(s, r, "R")
                                  /\ watch' = [watch EXCEPT ![s] = IF s \in closed THEN "over"
                                                                   ELSE IF r = "err" THEN "closeErr" ELSE "close"]
    BY <1>4 DEF WatchReset
  <2>2. \/ wire' = wire
        \/ /\ Extends(wire[s], wire'[s], "R")
           /\ \A t \in Streams \ {s} : wire'[t] = wire[t]
    BY <1>t, <2>1, PutEffect
  <2>3. \A t \in Streams \ {s} : InOrder(wire'[t]) /\ Written(t)'
    BY <1>t, <2>0, <2>1, <2>2, WrittenFrame
  <2>4. watch'[s] \in {"close", "closeErr", "over"} /\ s \in sendClosed' /\ sndPc'[s] = sndPc[s]
    BY <1>t, <2>0, <2>1
  <2>5. Absent(wire[s], "R") /\ InOrder(wire[s]) /\ sndPc[s] # "wr"
    BY <1>t, <2>0 DEF Written
  <2>6. InOrder(wire'[s]) /\ \A y \in {"H", "M", "E"} : Absent(wire[s], y) => Absent(wire'[s], y)
    BY <2>2, <2>5, ExtendInOrder, ExtendAbsent
  <2>7. Written(s)'
    BY <1>t, <2>0, <2>4, <2>5, <2>6 DEF Written
  <2> QED
    BY <2>3, <2>6, <2>7
<1>5. CASE ~\E s \in Streams : WriteHeaders(s) \/ SendWrite(s) \/ CloseSendWrite(s) \/ WatchReset(s)
  <2>1. UNCHANGED <<wire, sendClosed>>
    BY <1>5 DEF Next, Goroutines, Environment, Pump, Closer, Sender, Watcher, User, SenderClosed, NewStream, SendMsg,
    CloseSend, RecvCall, WatchWake, WatchClosed, UserCancel, OnChannelMessage, RecvMsg, Refuse, Refused,
    ProcessHeaders, ProcessMessage, MessageSend, ProcessTrailers, CloseStream, CloseStreamEnd, CloseBase,
    CloseGraceful, CloseEnd, CloseCall, ChannelDone, LinkDown, vars
  <2>2. ASSUME NEW t \in Streams PROVE Written(t)'
    <3>1. /\ (sndPc'[t] = sndPc[t] /\ (t \in muR => t \in muR'))
             \/ (sndPc[t] = "wait" /\ sndPc'[t] = "over")
             \/ (sndPc[t] = "none" /\ sndPc'[t] \in {"hdr", "over"})
             \/ (sndPc[t] = "ready" /\ sndPc'[t] \in {"eos", "over"})
             \/ (sndPc[t] = "ready" /\ sndPc'[t] = "wr" /\ t \in muR' /\ t \notin sendClosed)
      BY <1>5, <1>t DEF Next, Goroutines, Environment, Pump, Closer, Sender, Watcher, User, SenderClosed, NewStream, SendMsg,
    CloseSend, RecvCall, WatchWake, WatchClosed, UserCancel, OnChannelMessage, RecvMsg, Refuse, Refused,
    ProcessHeaders, ProcessMessage, MessageSend, ProcessTrailers, CloseStream, CloseStreamEnd, CloseBase,
    CloseGraceful, CloseEnd, CloseCall, ChannelDone, LinkDown, vars
    <3>2. \/ watch'[t] = watch[t]
          \/ watch[t] = "wait" /\ watch'[t] \in {"lock", "over"}
          \/ watch[t] \in {"close", "closeErr"} /\ watch'[t] = "over"
          \/ sndPc[t] = "none" /\ sndPc'[t] = "hdr" /\ watch'[t] = "wait"
      BY <1>5, <1>t DEF Next, Goroutines, Environment, Pump, Closer, Sender, Watcher, User, SenderClosed, NewStream, SendMsg,
    CloseSend, RecvCall, WatchWake, WatchClosed, UserCancel, OnChannelMessage, RecvMsg, Refuse, Refused,
    ProcessHeaders, ProcessMessage, MessageSend, ProcessTrailers, CloseStream, CloseStreamEnd, CloseBase,
    CloseGraceful, CloseEnd, CloseCall, ChannelDone, LinkDown, vars
    <3> QED
      BY <1>t, <2>1, <3>1, <3>2 DEF Written
  <2> QED
    BY <1>t, <2>1, <2>2
<1> QED
  BY <1>1, <1>2, <1>3, <1>4, <1>5

----------------------------------------------------------------------------
(* The theorem. *)

\* Inv holds initially.
LEMMA InitInv == Init => Inv
<1> SUFFICES ASSUME Init PROVE Inv
  OBVIOUS
<1> USE ClientStreamAssumption DEF Init
<1>1. TypeOK
  <2>1. FlagType /\ LockType /\ ControlType
    BY DEF FlagType, LockType, ControlType
  <2>2. \A s \in Streams : Len(msgCh[s]) <= 1
    OBVIOUS
  <2>3. ValueType
    BY <2>2 DEF ValueType
  <2> QED
    BY <2>1, <2>3 DEF TypeOK
<1>2. DataType
  BY DEF DataType
<1>3. ClosedOnce /\ SendOpen /\ NoSendOnClosed /\ OpenGoesOn
  BY DEF ClosedOnce, BeingClosed, SendOpen, NoSendOnClosed, OpenGoesOn
<1>4. ResultAtEnd
  BY DEF ResultAtEnd, Complete
<1>5. WireInv
  BY DEF WireInv, RequestOrder, Written, Absent
<1> QED
  BY <1>1, <1>2, <1>3, <1>4, <1>5 DEF Inv

\* Every step keeps Inv.
LEMMA NextInv == Inv /\ [Next]_vars => Inv'
<1> SUFFICES ASSUME Inv, [Next]_vars PROVE Inv'
  OBVIOUS
<1>1. TypeOK'
  BY FlagStep, LockStep, ControlStep, ValueStep DEF TypeOK
<1> QED
  BY <1>1, DataStep, ClosedOnceStep, SendOpenStep, OpenStep, ResultStep, WireStep DEF Inv

\* A whole stream whose receiver has learnt the status of the trailers has
\* received every message.
LEMMA InvStream == Inv => StreamInv
<1> SUFFICES ASSUME Inv PROVE StreamInv
  OBVIOUS
<1>1. ASSUME NEW s \in Streams, byTrailers[s] # "none", result[s] # "none", s \notin userDone, ~chCtx, close = "no"
      PROVE  /\ result[s] = IF byTrailers[s] = "ok" THEN "eof" ELSE "err"
             /\ rcvd[s] = [i \in 1..nmsg[s] |-> i]
  <2>1. /\ Complete(s) /\ msgCh[s] = <<>>
        /\ result[s] = IF byTrailers[s] = "ok" THEN "eof" ELSE "err"
    BY <1>1 DEF Inv, ResultAtEnd, Live, Whole
  <2>2. ~(pump = "send" /\ cur = s)
    BY <1>1 DEF Inv, SendOpen, ClosedOnce
  <2>3. rcvd[s] \in Seq(Nat) /\ Len(rcvd[s]) \in Nat /\ Len(msgCh[s]) = 0
    BY <2>1 DEF Inv, DataType
  <2>4. nmsg[s] = Len(rcvd[s]) /\ DOMAIN rcvd[s] = 1 .. Len(rcvd[s])
    <3>1. nmsg[s] = Len(rcvd[s]) + Len(msgCh[s]) + 0
      BY <2>1, <2>2 DEF Complete
    <3> QED
      BY <2>3, <3>1
  <2>5. rcvd[s] = [i \in 1..nmsg[s] |-> rcvd[s][i]]
    BY <2>3, <2>4
  <2>6. \A i \in 1..nmsg[s] : rcvd[s][i] = i
    BY <2>1, <2>4 DEF Complete
  <2> QED
    BY <2>1, <2>5, <2>6
<1> QED
  BY <1>1 DEF Inv, StreamInv, TrailersGiveStatus, WireInv

\* The requests of a stream are on the wire in order, the pump never sends on a
\* closed msgCh, and a receiver that learns the status of the trailers has every
\* message, for any number of streams, whatever their sender, receiver, watcher,
\* the read loop and Close do.
THEOREM StreamsAreOrdered == Spec => []StreamInv
<1>1. Inv /\ [Next]_vars => Inv'
  BY NextInv
<1> QED
  BY <1>1, InitInv, InvStream, PTL DEF Spec

----------------------------------------------------------------------------
(* Dialer: the inductive invariant *)

Top == {"webrtc", "grpc", "lwebrtc", "lgrpc"}
Ext == {"ext", "lext"}
Sig == {"sig", "lsig"}

\* The leg that makes the connections of a key, and the order in which a leg
\* makes them.
MadeBy ==
  [k \in Keys |-> IF k \in {"webrtc", "sig"} THEN "webrtc"
                  ELSE IF k \in {"multi", "grpc", "ext"} THEN "main" ELSE "mdns"]
Rank ==
  [k \in Keys |-> IF k \in Sig THEN 1 ELSE IF k \in {"webrtc", "lwebrtc"} THEN 2
                  ELSE IF k \in Ext THEN 3 ELSE IF k \in {"grpc", "lgrpc"} THEN 4 ELSE 5]

ProcType ==
  [at : Ats, key : Keys, conn : RefOrNone, aux : RefOrNone,
   res : {"none", "ok", "error", "fatal"}, ops : Ops]
EntryType ==
  [raw : {"none", "open", "closed"}, count : Nat \cup {-1}, inner : RefOrNone, aux : RefOrNone]
CloserType == [at : {"idle", "closing", "closed"}, pend : SUBSET Entries, ops : Ops]

DialerTypes ==
  /\ opts \in Options /\ ctx \in [Dials -> {"live", "found", "done"}]
  /\ proc \in [Procs -> ProcType] /\ conns \in [Keys -> RefOrNone]
  /\ entry \in [Entries -> EntryType] /\ closer \in CloserType
  /\ mu \in Procs \cup {None} /\ crashed \in BOOLEAN

\* The first rank of which a goroutine may still make a connection.
Level(at, key) ==
  CASE at \in {"idle", "query", "gather"} -> 1
    [] at \in {"lookup", "dial"} /\ key \in {"multi", "webrtc", "lwebrtc"} -> 1
    [] at \in {"lookup", "dial"} /\ key \notin {"multi", "webrtc", "lwebrtc"} -> Rank[key]
    [] at = "check" -> Rank[key]
    [] at \in {"ref", "lost"} -> Rank[key] + 1
    [] at = "exchange" -> 2
    [] at = "secure" -> 3
    [] OTHER -> 6

\* Where a goroutine is, of which key, and what it has in hand there.
At(p, r) ==
  /\ r.at \in {"lookup", "ref", "dial", "check", "lost"} => MadeBy[r.key] = p[2]
  /\ r.at = "dial" => r.key \notin {"webrtc", "lwebrtc"}
  /\ r.at = "exchange" => p[2] # "main" /\ r.key = WebRTCKey(p) /\ r.aux # None
  /\ r.at = "secure" => p[2] # "webrtc"
  /\ r.at = "query" => p[2] = "mdns"
  /\ r.at \in {"gather", "open", "failed", "closed"} => p[2] = "main"
  /\ r.at \in {"send", "done"} => p[2] # "main"
  /\ r.at = "gather" => r.key = "multi"
  /\ r.at \notin {"ref", "lost", "gather", "check", "send", "open"} => r.conn = None
  /\ r.at \in {"ref", "lost"} => r.conn # None /\ r.conn[2] = r.key
  /\ r.at = "open" => r.conn # None /\ r.conn[2] = "multi"
  /\ r.at = "check" => (r.conn # None <=> r.key = "multi")
  /\ r.at \in {"gather", "check", "send"} /\ r.conn # None => r.conn[2] \in Top
  /\ r.at = "send" => (r.conn # None <=> r.res = "ok")
  /\ r.aux # None =>
       \/ r.at \in {"lookup", "ref", "dial", "check"} /\ r.key = DirectKey(p) /\ r.aux[2] \in Ext
       \/ r.at = "exchange" /\ r.aux[2] \in Sig
  /\ r.at = "idle" => r.ops = <<>>

\* What is left to close: one reference or connection at most, and then the
\* connections to take out of the cache.
Shaped(s) == \A i \in 1 .. Len(s) : i > 1 => s[i].do = "unref"

Made(e) == entry[e].raw # "none"

\* A goroutine refers to connections that were made, and those it has yet to
\* make were not; it closes, at once, only one that nobody refers to.
ProcOK(p) ==
  /\ At(p, proc[p]) /\ Shaped(proc[p].ops)
  /\ \A k \in Keys : MadeBy[k] = p[2] /\ Rank[k] >= Level(proc[p].at, proc[p].key) => ~Made(<<p[1], k>>)
  /\ proc[p].conn # None => Made(proc[p].conn)
  /\ proc[p].at \in {"ref", "lost"} => entry[proc[p].conn].count # 0
  /\ proc[p].aux # None => Made(proc[p].aux)
  /\ \A i \in 1 .. Len(proc[p].ops) : Made(proc[p].ops[i].e)
  /\ proc[p].ops # <<>> /\ Head(proc[p].ops).do = "close" => entry[Head(proc[p].ops).e].count = 0

ProcsOK == \A p \in Procs : ProcOK(p)

\* A leg is started once.
LegsOK ==
  \A d \in Dials :
    proc[Main(d)].at = "idle" \/ (proc[Main(d)].at \in {"lookup", "dial"} /\ proc[Main(d)].key = "multi") =>
      proc[<<d, "mdns">>].at = "idle" /\ proc[<<d, "webrtc">>].at = "idle"

CloserOK ==
  /\ Shaped(closer.ops)
  /\ closer.at # "closing" => closer.ops = <<>>
  /\ \A e \in closer.pend : Made(e)
  /\ \A i \in 1 .. Len(closer.ops) : Made(closer.ops[i].e)

Closes(e) == \E p \in Procs : proc[p].ops # <<>> /\ Head(proc[p].ops) = [do |-> "close", e |-> e]

\* What a connection holds, and when it is open.
EntriesOK ==
  \A e \in Entries :
    /\ entry[e].raw = "none" => entry[e] = NoEntry
    /\ entry[e].inner # None => /\ e[2] = "multi" /\ entry[e].raw = "open"
                                /\ entry[e].inner[2] \in Top /\ Made(entry[e].inner)
    /\ entry[e].aux # None => /\ e[2] \in {"grpc", "lgrpc"} /\ entry[e].raw = "open"
                              /\ entry[e].aux[2] \in Ext /\ Made(entry[e].aux)
    /\ entry[e].raw = "open" /\ e[2] = "multi" => entry[e].inner # None
    /\ entry[e].count = -1 => entry[e].raw = "closed"
    /\ entry[e].count = 0 /\ entry[e].raw = "open" => Closes(e)
    /\ closer.at = "idle" /\ entry[e].count > 0 => entry[e].raw = "open"

ConnsOK ==
  \A k \in Keys : conns[k] # None =>
    conns[k][2] = k /\ Made(conns[k]) /\ entry[conns[k]].count # 0

\* The places that hold a reference, and what they hold.
Holders ==
  ({"conn", "aux", "op"} \X Procs) \cup ({"inner", "cred"} \X Entries) \cup {<<"closer", None>>}
HeldBy(s) == IF s # <<>> /\ Head(s).do = "deref" THEN Head(s).e ELSE None
InHand(r) == IF r.at \in {"ref", "lost"} THEN None ELSE r.conn
hold ==
  [h \in Holders |->
     IF h[1] = "conn" THEN InHand(proc[h[2]])
     ELSE IF h[1] = "aux" THEN proc[h[2]].aux
     ELSE IF h[1] = "op" THEN HeldBy(proc[h[2]].ops)
     ELSE IF h[1] = "inner" THEN entry[h[2]].inner
     ELSE IF h[1] = "cred" THEN entry[h[2]].aux
     ELSE HeldBy(closer.ops)]
Number(f, e) == Cardinality({h \in Holders : f[h] = e})

\* The count of a connection is the number of references to it; only references
\* to connections for external authentication may be dropped.
CountsOK ==
  \A e \in Entries :
    /\ entry[e].count = -1 => Number(hold, e) = 0
    /\ entry[e].count # -1 => Number(hold, e) <= entry[e].count
    /\ entry[e].count # -1 /\ e[2] \notin Ext => Number(hold, e) = entry[e].count

DialerInv ==
  /\ DialerTypes /\ ProcsOK /\ LegsOK /\ CloserOK /\ EntriesOK /\ ConnsOK /\ CountsOK
  /\ ReleasedIsRemoved

----------------------------------------------------------------------------
(* Dialer: counting references *)

One(b) == IF b THEN 1 ELSE 0

\* There are finitely many places for references.
LEMMA HoldersFinite == IsFiniteSet(Holders)
<1>1. IsFiniteSet(Legs) /\ IsFiniteSet(Keys)
  <2>1. Legs = ((({} \cup {"main"}) \cup {"mdns"}) \cup {"webrtc"})
    BY DEF Legs
  <2>2. IsFiniteSet(Legs)
    BY <2>1, FS_EmptySet, FS_AddElement
  <2>3. Keys = ((((((((({} \cup {"multi"}) \cup {"webrtc"}) \cup {"grpc"}) \cup {"sig"}) \cup {"ext"})
                 \cup {"lwebrtc"}) \cup {"lgrpc"}) \cup {"lsig"}) \cup {"lext"})
    BY DEF Keys
  <2>4. IsFiniteSet(Keys)
    BY <2>3, FS_EmptySet, FS_AddElement
  <2> QED
    BY <2>2, <2>4
<1>2. IsFiniteSet(Procs) /\ IsFiniteSet(Entries)
  BY <1>1, DialerAssumption, FS_Product DEF Procs, Entries
<1>3. {"conn", "aux", "op"} = ((({} \cup {"conn"}) \cup {"aux"}) \cup {"op"})
      /\ {"inner", "cred"} = (({} \cup {"inner"}) \cup {"cred"})
      /\ {<<"closer", None>>} = ({} \cup {<<"closer", None>>})
  OBVIOUS
<1>4. IsFiniteSet({"conn", "aux", "op"}) /\ IsFiniteSet({"inner", "cred"})
      /\ IsFiniteSet({<<"closer", None>>})
  <2>1. \A S, x : IsFiniteSet(S) => IsFiniteSet(S \cup {x})
    BY FS_AddElement
  <2>2. IsFiniteSet(({} \cup {"conn"}) \cup {"aux"}) /\ IsFiniteSet({} \cup {"inner"})
        /\ IsFiniteSet({} \cup {<<"closer", None>>})
    BY <2>1, FS_EmptySet
  <2>3. IsFiniteSet((({} \cup {"conn"}) \cup {"aux"}) \cup {"op"})
        /\ IsFiniteSet(({} \cup {"inner"}) \cup {"cred"})
    BY <2>1, <2>2
  <2> QED
    BY <1>3, <2>2, <2>3
<1>5. IsFiniteSet({"conn", "aux", "op"} \X Procs) /\ IsFiniteSet({"inner", "cred"} \X Entries)
  BY <1>2, <1>4, FS_Product
<1> QED
  BY <1>4, <1>5, FS_Union DEF Holders

\* A number of references is one.
LEMMA NumberIs == \A f, e : Number(f, e) \in Nat
<1> SUFFICES ASSUME NEW f, NEW e PROVE Number(f, e) \in Nat
  OBVIOUS
<1>1. IsFiniteSet({h \in Holders : f[h] = e})
  BY HoldersFinite, FS_Subset
<1> QED
  BY <1>1, FS_CardinalityType DEF Number

\* What is held at one place changes.
LEMMA Change ==
  ASSUME NEW f, NEW g, NEW e, NEW a \in Holders, \A h \in Holders : h # a => g[h] = f[h]
  PROVE  Number(g, e) = Number(f, e) - One(f[a] = e) + One(g[a] = e)
<1> DEFINE F == {h \in Holders : f[h] = e}
           G == {h \in Holders : g[h] = e}
<1>1. IsFiniteSet(F) /\ IsFiniteSet(G)
  BY HoldersFinite, FS_Subset
<1>2. Cardinality(F) \in Nat /\ Cardinality(G) \in Nat
  BY <1>1, FS_CardinalityType
<1>3. Number(f, e) = Cardinality(F) /\ Number(g, e) = Cardinality(G)
  BY DEF Number
<1>4. /\ f[a] = e /\ g[a] = e => F = G
      /\ f[a] # e /\ g[a] # e => F = G
      /\ f[a] = e /\ g[a] # e => a \in F /\ G = F \ {a}
      /\ f[a] # e /\ g[a] = e => a \notin F /\ G = F \cup {a}
  OBVIOUS
<1> HIDE DEF F, G
<1>5. CASE f[a] = e <=> g[a] = e
  BY <1>2, <1>3, <1>4, <1>5 DEF One
<1>6. CASE f[a] = e /\ g[a] # e
  <2>1. Cardinality(G) = Cardinality(F) - 1
    BY <1>1, <1>4, <1>6, FS_RemoveElement
  <2> QED
    BY <1>2, <1>3, <1>6, <2>1 DEF One
<1>7. CASE f[a] # e /\ g[a] = e
  <2>1. Cardinality(G) = Cardinality(F) + 1
    BY <1>1, <1>4, <1>7, FS_AddElement
  <2> QED
    BY <1>2, <1>3, <1>7, <2>1 DEF One
<1> QED
  BY <1>5, <1>6, <1>7

\* ... at three.
LEMMA Changes ==
  ASSUME NEW f, NEW g, f = [h \in Holders |-> f[h]], NEW e,
         NEW a \in Holders, NEW b \in Holders, NEW c \in Holders, a # b, a # c, b # c,
         \A h \in Holders \ {a, b, c} : g[h] = f[h]
  PROVE  Number(g, e) = Number(f, e) - One(f[a] = e) - One(f[b] = e) - One(f[c] = e)
                                     + One(g[a] = e) + One(g[b] = e) + One(g[c] = e)
<1> DEFINE f1 == [f EXCEPT ![a] = g[a]]
           f2 == [f1 EXCEPT ![b] = g[b]]
<1>0. DOMAIN f = Holders
  OBVIOUS
<1>1. /\ \A h \in Holders : h # a => f1[h] = f[h]
      /\ f1[a] = g[a] /\ f1[b] = f[b] /\ f1[c] = f[c]
  BY <1>0
<1>2. /\ \A h \in Holders : h # b => f2[h] = f1[h]
      /\ f2[b] = g[b] /\ f2[c] = f[c]
  BY <1>0, <1>1
<1>3. \A h \in Holders : h # c => g[h] = f2[h]
  BY <1>0, <1>1, <1>2
<1> HIDE DEF f1, f2
<1>4. Number(f1, e) = Number(f, e) - One(f[a] = e) + One(g[a] = e)
  BY <1>1, Change
<1>5. Number(f2, e) = Number(f1, e) - One(f[b] = e) + One(g[b] = e)
  BY <1>1, <1>2, Change
<1>6. Number(g, e) = Number(f2, e) - One(f[c] = e) + One(g[c] = e)
  BY <1>2, <1>3, Change
<1>7. /\ One(f[a] = e) \in Int /\ One(f[b] = e) \in Int /\ One(f[c] = e) \in Int
      /\ One(g[a] = e) \in Int /\ One(g[b] = e) \in Int /\ One(g[c] = e) \in Int
  BY DEF One
<1>8. Number(f, e) \in Int /\ Number(f1, e) \in Int /\ Number(f2, e) \in Int
  BY NumberIs
<1> QED
  BY <1>4, <1>5, <1>6, <1>7, <1>8

\* Somebody holds what is counted.
LEMMA SomeHolder ==
  ASSUME NEW f, NEW e, Number(f, e) > 0
  PROVE  \E h \in Holders : f[h] = e
<1>1. SUFFICES ASSUME {h \in Holders : f[h] = e} = {} PROVE FALSE
  OBVIOUS
<1> QED
  BY <1>1, FS_EmptySet DEF Number

\* What is held is counted.
LEMMA HolderCounts ==
  ASSUME NEW f, NEW e, NEW h \in Holders, f[h] = e
  PROVE  Number(f, e) > 0
<1> DEFINE F == {x \in Holders : f[x] = e}
<1>1. IsFiniteSet(F) /\ F # {}
  BY HoldersFinite, FS_Subset
<1>2. Cardinality(F) \in Nat /\ Cardinality(F) # 0
  BY <1>1, FS_CardinalityType, FS_EmptySet
<1> QED
  BY <1>2 DEF Number

----------------------------------------------------------------------------
(* Dialer: the places *)

\* Processes and connections are pairs, and the places are told apart.
LEMMA Places ==
  /\ \A p \in Procs : /\ p = <<p[1], p[2]>> /\ p[1] \in Dials /\ p[2] \in Legs
                      /\ <<"conn", p>> \in Holders /\ <<"aux", p>> \in Holders /\ <<"op", p>> \in Holders
  /\ \A e \in Entries : /\ e = <<e[1], e[2]>> /\ e[1] \in Dials /\ e[2] \in Keys
                        /\ <<"inner", e>> \in Holders /\ <<"cred", e>> \in Holders
  /\ <<"closer", None>> \in Holders
  /\ \A h \in Holders : \/ \E p \in Procs : h \in {<<"conn", p>>, <<"aux", p>>, <<"op", p>>}
                        \/ \E e \in Entries : h \in {<<"inner", e>>, <<"cred", e>>}
                        \/ h = <<"closer", None>>
BY DEF Holders, Procs, Entries

\* What is held where.
LEMMA HoldIs ==
  /\ hold = [h \in Holders |-> hold[h]]
  /\ \A p \in Procs : /\ hold[<<"conn", p>>] = InHand(proc[p]) /\ hold[<<"aux", p>>] = proc[p].aux
                      /\ hold[<<"op", p>>] = HeldBy(proc[p].ops)
  /\ \A e \in Entries : hold[<<"inner", e>>] = entry[e].inner /\ hold[<<"cred", e>>] = entry[e].aux
  /\ hold[<<"closer", None>>] = HeldBy(closer.ops)
BY Places DEF hold

\* ... after a step.
LEMMA HoldNext ==
  /\ \A p \in Procs : /\ hold'[<<"conn", p>>] = InHand(proc'[p]) /\ hold'[<<"aux", p>>] = proc'[p].aux
                      /\ hold'[<<"op", p>>] = HeldBy(proc'[p].ops)
  /\ \A e \in Entries : hold'[<<"inner", e>>] = entry'[e].inner /\ hold'[<<"cred", e>>] = entry'[e].aux
  /\ hold'[<<"closer", None>>] = HeldBy(closer'.ops)
BY Places DEF hold

\* A step changes what is held in one goroutine.
LEMMA ProcChanges ==
  ASSUME NEW p \in Procs, \A q \in Procs \ {p} : proc'[q] = proc[q],
         \A x \in Entries : entry'[x].inner = entry[x].inner /\ entry'[x].aux = entry[x].aux,
         closer' = closer, NEW e
  PROVE  Number(hold', e) = Number(hold, e)
           - One(InHand(proc[p]) = e) - One(proc[p].aux = e) - One(HeldBy(proc[p].ops) = e)
           + One(InHand(proc'[p]) = e) + One(proc'[p].aux = e) + One(HeldBy(proc'[p].ops) = e)
<1> DEFINE a == <<"conn", p>>
           b == <<"aux", p>>
           c == <<"op", p>>
<1>1. a \in Holders /\ b \in Holders /\ c \in Holders /\ a # b /\ a # c /\ b # c
  BY Places
<1>2. \A h \in Holders \ {a, b, c} : hold'[h] = hold[h]
  <2> SUFFICES ASSUME NEW h \in Holders, h \notin {a, b, c} PROVE hold'[h] = hold[h]
    OBVIOUS
  <2>1. CASE \E q \in Procs : h \in {<<"conn", q>>, <<"aux", q>>, <<"op", q>>}
    <3>1. PICK q \in Procs : h \in {<<"conn", q>>, <<"aux", q>>, <<"op", q>>}
      BY <2>1
    <3>2. q # p
      BY <3>1
    <3>3. proc'[q] = proc[q]
      BY <3>2
    <3>4. hold'[<<"conn", q>>] = hold[<<"conn", q>>] /\ hold'[<<"aux", q>>] = hold[<<"aux", q>>]
          /\ hold'[<<"op", q>>] = hold[<<"op", q>>]
      BY <3>3, HoldIs, HoldNext
    <3> QED
      BY <3>1, <3>4
  <2>2. CASE \E x \in Entries : h \in {<<"inner", x>>, <<"cred", x>>}
    <3>1. PICK x \in Entries : h \in {<<"inner", x>>, <<"cred", x>>}
      BY <2>2
    <3>2. hold'[<<"inner", x>>] = hold[<<"inner", x>>] /\ hold'[<<"cred", x>>] = hold[<<"cred", x>>]
      BY HoldIs, HoldNext
    <3> QED
      BY <3>1, <3>2
  <2>3. CASE h = <<"closer", None>>
    BY <2>3, HoldIs, HoldNext
  <2> QED
    BY <2>1, <2>2, <2>3, Places
<1> HIDE DEF a, b, c
<1>3. hold = [h \in Holders |-> hold[h]]
  BY HoldIs
<1>4. Number(hold', e) = Number(hold, e) - One(hold[a] = e) - One(hold[b] = e) - One(hold[c] = e)
                           + One(hold'[a] = e) + One(hold'[b] = e) + One(hold'[c] = e)
  BY <1>1, <1>2, <1>3, Changes
<1> QED
  BY <1>4, HoldIs, HoldNext DEF a, b, c

----------------------------------------------------------------------------
(* Dialer: steps that leave the connections and the cache alone *)

\* Ranks and levels by where a goroutine is.
LEMMA Levels ==
  ASSUME NEW k \in Keys
  PROVE  /\ Rank[k] \in 1 .. 5
         /\ \A at \in {"idle", "query", "gather"} : Level(at, k) = 1
         /\ k \in {"multi", "webrtc", "lwebrtc"} => Level("lookup", k) = 1 /\ Level("dial", k) = 1
         /\ k \notin {"multi", "webrtc", "lwebrtc"} => Level("lookup", k) = Rank[k] /\ Level("dial", k) = Rank[k]
         /\ Level("check", k) = Rank[k] /\ Level("ref", k) = Rank[k] + 1 /\ Level("lost", k) = Rank[k] + 1
         /\ Level("exchange", k) = 2 /\ Level("secure", k) = 3
         /\ \A at \in {"send", "done", "open", "failed", "closed"} : Level(at, k) = 6
         /\ \A at \in Ats : Level(at, k) \in 1 .. 6
<1>1. Rank[k] \in 1 .. 5
  BY DEF Rank
<1>2. \A at \in {"idle", "query", "gather"} : Level(at, k) = 1
  BY DEF Level
<1>3. k \in {"multi", "webrtc", "lwebrtc"} => Level("lookup", k) = 1 /\ Level("dial", k) = 1
  BY DEF Level
<1>4. k \notin {"multi", "webrtc", "lwebrtc"} => Level("lookup", k) = Rank[k] /\ Level("dial", k) = Rank[k]
  BY DEF Level
<1>5. Level("check", k) = Rank[k] /\ Level("ref", k) = Rank[k] + 1 /\ Level("lost", k) = Rank[k] + 1
  BY DEF Level
<1>6. Level("exchange", k) = 2 /\ Level("secure", k) = 3
  BY DEF Level
<1>7. \A at \in {"send", "done", "open", "failed", "closed"} : Level(at, k) = 6
  BY DEF Level
<1>8. \A at \in Ats : Level(at, k) \in 1 .. 6
  BY <1>1, <1>2, <1>3, <1>4, <1>5, <1>6, <1>7 DEF Ats
<1> QED
  BY <1>1, <1>2, <1>3, <1>4, <1>5, <1>6, <1>7, <1>8

\* The ranks of the keys.
LEMMA Ranks ==
  /\ Rank["sig"] = 1 /\ Rank["lsig"] = 1 /\ Rank["webrtc"] = 2 /\ Rank["lwebrtc"] = 2
  /\ Rank["ext"] = 3 /\ Rank["lext"] = 3 /\ Rank["grpc"] = 4 /\ Rank["lgrpc"] = 4 /\ Rank["multi"] = 5
BY DEF Rank, Keys, Sig, Ext

\* Who makes connections of which key.
LEMMA Makers ==
  /\ MadeBy["multi"] = "main" /\ MadeBy["grpc"] = "main" /\ MadeBy["ext"] = "main"
  /\ MadeBy["webrtc"] = "webrtc" /\ MadeBy["sig"] = "webrtc"
  /\ MadeBy["lwebrtc"] = "mdns" /\ MadeBy["lsig"] = "mdns" /\ MadeBy["lgrpc"] = "mdns"
  /\ MadeBy["lext"] = "mdns"
BY DEF MadeBy, Keys

\* What is left to close when one reference is given back.
LEMMA CloseRefIs ==
  ASSUME NEW x \in RefOrNone
  PROVE  /\ CloseRef(x) \in Ops /\ Shaped(CloseRef(x)) /\ HeldBy(CloseRef(x)) = x
         /\ x = None => CloseRef(x) = <<>>
         /\ \A i \in 1 .. Len(CloseRef(x)) : CloseRef(x)[i].e = x /\ x # None
         /\ CloseRef(x) # <<>> => Head(CloseRef(x)).do = "deref"
<1> DEFINE o == [do |-> "deref", e |-> x]
<1>1. CASE x = None
  <2>1. CloseRef(x) = <<>>
    BY <1>1 DEF CloseRef
  <2> QED
    BY <1>1, <2>1 DEF Ops, Shaped, HeldBy
<1>2. CASE x # None
  <2>1. CloseRef(x) = <<o>> /\ o \in [do : {"deref", "close", "unref"}, e : Entries]
        /\ o.do = "deref" /\ o.e = x
    BY <1>2 DEF CloseRef, RefOrNone
  <2> HIDE DEF o
  <2>2. <<o>> \in Ops /\ Len(<<o>>) = 1 /\ Head(<<o>>) = o /\ <<o>>[1] = o /\ <<o>> # <<>>
    BY <2>1 DEF Ops
  <2>3. Shaped(<<o>>) /\ HeldBy(<<o>>) = x
    BY <2>1, <2>2 DEF Shaped, HeldBy
  <2>4. \A i \in 1 .. Len(<<o>>) : <<o>>[i] = o
    BY <2>2
  <2> QED
    BY <1>2, <2>1, <2>2, <2>3, <2>4
<1> QED
  BY <1>1, <1>2

\* What a goroutine may have become without making or closing a connection.
Good(p, r) ==
  /\ r \in ProcType /\ At(p, r) /\ Level(r.at, r.key) >= Level(proc[p].at, proc[p].key)
  /\ \E x \in RefOrNone : r.ops = CloseRef(x) /\ (x # None => Made(x))
  /\ r.conn # None => Made(r.conn)
  /\ r.at \in {"ref", "lost"} => entry[r.conn].count # 0
  /\ r.aux # None => Made(r.aux)

\* A step that neither makes nor closes a connection, and moves references only
\* between the places of goroutines, keeps the invariant.
LEMMA CallStep ==
  ASSUME DialerInv, UNCHANGED <<opts, entry, conns, closer>>, proc' = [p \in Procs |-> proc'[p]],
         ctx' \in [Dials -> {"live", "found", "done"}], mu' \in Procs \cup {None}, crashed' \in BOOLEAN,
         \A p \in Procs : proc'[p] = proc[p] \/ (proc[p].ops = <<>> /\ Good(p, proc'[p])),
         LegsOK', \A e \in Entries : Number(hold', e) = Number(hold, e)
  PROVE  DialerInv'
<1>0. /\ DialerTypes /\ ProcsOK /\ LegsOK /\ CloserOK /\ EntriesOK /\ ConnsOK /\ CountsOK
      /\ ReleasedIsRemoved
  BY DEF DialerInv
<1>1. DialerTypes'
  <2>1. \A p \in Procs : proc'[p] \in ProcType
    BY <1>0 DEF DialerTypes, Good
  <2>2. proc' \in [Procs -> ProcType]
    BY <2>1
  <2> QED
    BY <1>0, <2>2 DEF DialerTypes
<1>2. ProcsOK'
  <2> SUFFICES ASSUME NEW p \in Procs PROVE ProcOK(p)'
    BY DEF ProcsOK
  <2>1. ProcOK(p)
    BY <1>0 DEF ProcsOK
  <2>2. CASE proc'[p] = proc[p]
    BY <2>1, <2>2 DEF ProcOK, Made
  <2>3. CASE proc[p].ops = <<>> /\ Good(p, proc'[p])
    <3>1. PICK x \in RefOrNone : proc'[p].ops = CloseRef(x) /\ (x # None => Made(x))
      BY <2>3 DEF Good
    <3>2. /\ Level(proc[p].at, proc[p].key) \in 1 .. 6 /\ Level(proc'[p].at, proc'[p].key) \in 1 .. 6
          /\ \A k \in Keys : Rank[k] \in 1 .. 5
      <4>1. proc[p] \in ProcType /\ proc'[p] \in ProcType
        BY <1>0, <2>3 DEF DialerTypes, Good
      <4> QED
        BY <4>1, Levels DEF ProcType
    <3>3. \A k \in Keys : MadeBy[k] = p[2] /\ Rank[k] >= Level(proc'[p].at, proc'[p].key) => ~Made(<<p[1], k>>)
      BY <2>1, <2>3, <3>2 DEF ProcOK, Good
    <3>4. /\ Shaped(proc'[p].ops)
          /\ \A i \in 1 .. Len(proc'[p].ops) : Made(proc'[p].ops[i].e)
          /\ proc'[p].ops # <<>> => Head(proc'[p].ops).do # "close"
      <4>1. /\ Shaped(CloseRef(x))
            /\ CloseRef(x) # <<>> => Head(CloseRef(x)).do = "deref"
            /\ \A i \in 1 .. Len(CloseRef(x)) : CloseRef(x)[i].e = x /\ x # None
        BY CloseRefIs
      <4> QED
        BY <3>1, <4>1
    <3>5. /\ At(p, proc'[p])
          /\ proc'[p].conn # None => Made(proc'[p].conn)
          /\ proc'[p].at \in {"ref", "lost"} => entry[proc'[p].conn].count # 0
          /\ proc'[p].aux # None => Made(proc'[p].aux)
      BY <2>3 DEF Good
    <3> QED
      BY <3>3, <3>4, <3>5 DEF ProcOK, Made
  <2> QED
    BY <2>2, <2>3
<1>3. CloserOK' /\ ConnsOK'
  BY <1>0 DEF CloserOK, ConnsOK, Made
<1>4. EntriesOK'
  <2>1. \A e \in Entries : Closes(e) => Closes(e)'
    BY DEF Closes
  <2> QED
    BY <1>0, <2>1 DEF EntriesOK, Made
<1>5. CountsOK'
  BY <1>0 DEF CountsOK
<1>6. ReleasedIsRemoved'
  <2>1. \A p \in Procs : proc[p].ops # <<>> => proc'[p].ops = proc[p].ops
    OBVIOUS
  <2>2. \A p \in Procs : \A i \in DOMAIN proc[p].ops : proc'[p].ops = proc[p].ops
    <3>1. \A p \in Procs : proc[p].ops = <<>> => DOMAIN proc[p].ops = {}
      OBVIOUS
    <3> QED
      BY <2>1, <3>1
  <2> QED
    BY <1>0, <2>2 DEF ReleasedIsRemoved
<1> QED
  BY <1>1, <1>2, <1>3, <1>4, <1>5, <1>6 DEF DialerInv

\* One goroutine goes on: what it holds it holds, or it gives one reference back.
LEMMA Goes ==
  ASSUME DialerInv, NEW p \in Procs, NEW r, proc' = [proc EXCEPT ![p] = r],
         UNCHANGED <<opts, entry, conns, closer>>,
         ctx' \in [Dials -> {"live", "found", "done"}], mu' \in Procs \cup {None}, crashed' \in BOOLEAN,
         proc[p].ops = <<>>, Good(p, r),
         proc[p].at = "idle" => p[2] = "main",
         r.at = "idle" \/ (r.at \in {"lookup", "dial"} /\ r.key = "multi") =>
           proc[p].at = "idle" \/ (proc[p].at \in {"lookup", "dial"} /\ proc[p].key = "multi"),
         \/ /\ InHand(r) = InHand(proc[p]) /\ r.aux = proc[p].aux /\ r.ops = <<>>
         \/ /\ InHand(r) = InHand(proc[p]) /\ r.aux = None /\ r.ops = CloseRef(proc[p].aux)
         \/ /\ InHand(r) = None /\ r.aux = proc[p].aux /\ r.ops = CloseRef(InHand(proc[p]))
  PROVE  DialerInv'
<1>0. DialerTypes /\ ProcsOK /\ LegsOK
  BY DEF DialerInv
<1>1. proc' = [q \in Procs |-> proc'[q]] /\ proc'[p] = r /\ \A q \in Procs \ {p} : proc'[q] = proc[q]
  BY <1>0 DEF DialerTypes
<1>2. \A q \in Procs : proc'[q] = proc[q] \/ (proc[q].ops = <<>> /\ Good(q, proc'[q]))
  BY <1>1
<1>3. LegsOK'
  <2> SUFFICES ASSUME NEW d \in Dials,
                      \/ proc'[Main(d)].at = "idle"
                      \/ proc'[Main(d)].at \in {"lookup", "dial"} /\ proc'[Main(d)].key = "multi"
               PROVE  proc'[<<d, "mdns">>].at = "idle" /\ proc'[<<d, "webrtc">>].at = "idle"
    BY DEF LegsOK, Main
  <2>1. Main(d) \in Procs /\ <<d, "mdns">> \in Procs /\ <<d, "webrtc">> \in Procs
    BY DEF Main, Procs, Legs
  <2>2. proc[<<d, "mdns">>].at = "idle" /\ proc[<<d, "webrtc">>].at = "idle"
    <3>1. CASE p = Main(d)
      BY <1>0, <1>1, <3>1 DEF LegsOK
    <3>2. CASE p # Main(d)
      BY <1>0, <1>1, <2>1, <3>2 DEF LegsOK
    <3> QED
      BY <3>1, <3>2
  <2>3. p # <<d, "mdns">> /\ p # <<d, "webrtc">>
    BY <2>2
  <2> QED
    BY <1>1, <2>1, <2>2, <2>3
<1>4. ASSUME NEW e \in Entries PROVE Number(hold', e) = Number(hold, e)
  <2>1. InHand(proc[p]) \in RefOrNone /\ proc[p].aux \in RefOrNone /\ e # None
    BY <1>0, DialerAssumption DEF DialerTypes, ProcType, InHand, RefOrNone
  <2>2. HeldBy(proc[p].ops) = None
    BY DEF HeldBy
  <2>3. \/ /\ InHand(r) = InHand(proc[p]) /\ r.aux = proc[p].aux /\ HeldBy(r.ops) = None
        \/ /\ InHand(r) = InHand(proc[p]) /\ r.aux = None /\ HeldBy(r.ops) = proc[p].aux
        \/ /\ InHand(r) = None /\ r.aux = proc[p].aux /\ HeldBy(r.ops) = InHand(proc[p])
    BY <2>1, CloseRefIs DEF HeldBy
  <2>4. Number(hold', e) = Number(hold, e)
           - One(InHand(proc[p]) = e) - One(proc[p].aux = e) - One(HeldBy(proc[p].ops) = e)
           + One(InHand(r) = e) + One(r.aux = e) + One(HeldBy(r.ops) = e)
    BY <1>1, ProcChanges
  <2>5. One(None = e) = 0 /\ One(InHand(proc[p]) = e) \in Nat /\ One(proc[p].aux = e) \in Nat
        /\ Number(hold, e) \in Nat
    BY <2>1, NumberIs DEF One
  <2>6. CASE /\ InHand(r) = InHand(proc[p]) /\ r.aux = proc[p].aux /\ HeldBy(r.ops) = None
    BY <2>2, <2>4, <2>5, <2>6
  <2>7. CASE /\ InHand(r) = InHand(proc[p]) /\ r.aux = None /\ HeldBy(r.ops) = proc[p].aux
    BY <2>2, <2>4, <2>5, <2>7
  <2>8. CASE /\ InHand(r) = None /\ r.aux = proc[p].aux /\ HeldBy(r.ops) = InHand(proc[p])
    BY <2>2, <2>4, <2>5, <2>8
  <2> QED
    BY <2>3, <2>6, <2>7, <2>8
<1> QED
  BY <1>1, <1>2, <1>3, <1>4, CallStep

\* What the invariant says of one goroutine, for the proofs below.
LEMMA OfProc ==
  ASSUME DialerInv, NEW p \in Procs
  PROVE  /\ proc[p] \in ProcType /\ At(p, proc[p]) /\ ProcOK(p)
         /\ proc[p].at \in Ats /\ proc[p].key \in Keys /\ proc[p].conn \in RefOrNone
         /\ proc[p].aux \in RefOrNone /\ proc[p].ops \in Ops
         /\ DOMAIN proc = Procs /\ None \notin Entries
         /\ p[2] \in Legs /\ p[1] \in Dials
BY Places, DialerAssumption DEF DialerInv, DialerTypes, ProcsOK, ProcOK, ProcType

\* A dial that fails has no connection in hand and gives back the one beside it.
LEMMA FailsIs ==
  ASSUME DialerInv, NEW p \in Procs, InHand(proc[p]) = None, NEW fatal \in BOOLEAN,
         proc[p].at \notin {"idle", "send", "done"}
  PROVE  LET r == Fails(p, proc[p], fatal) IN
         /\ Good(p, r) /\ r.at \in {"failed", "send"}
         /\ InHand(r) = None /\ r.aux = None /\ r.ops = CloseRef(proc[p].aux)
<1> DEFINE r == Fails(p, proc[p], fatal)
<1>0. /\ proc[p] \in ProcType /\ proc[p].aux \in RefOrNone
      /\ proc[p].aux # None => Made(proc[p].aux)
      /\ proc[p].at \in Ats /\ proc[p].key \in Keys /\ p[2] \in Legs
  BY OfProc DEF ProcOK
<1>1. /\ r.at = IF p[2] = "main" THEN "failed" ELSE "send"
      /\ r.key = "multi" /\ r.conn = None /\ r.aux = None /\ r.ops = CloseRef(proc[p].aux)
      /\ r.res \in {"error", "fatal"}
  BY <1>0 DEF Fails, ProcType
<1>2. r \in ProcType
  <2>1. CloseRef(proc[p].aux) \in Ops
    BY <1>0, CloseRefIs
  <2>2. r = [proc[p] EXCEPT !.at = r.at, !.key = "multi", !.conn = None, !.aux = None, !.res = r.res,
                            !.ops = CloseRef(proc[p].aux)]
    BY <1>0 DEF Fails, ProcType
  <2>3. r.at \in Ats /\ "multi" \in Keys /\ None \in RefOrNone
    BY <1>1 DEF Ats, Keys, RefOrNone
  <2> HIDE DEF r
  <2> QED
    BY <1>0, <1>1, <2>1, <2>2, <2>3 DEF ProcType
<1> HIDE DEF r
<1>3. At(p, r)
  BY <1>1 DEF At
<1>4. Level(r.at, r.key) >= Level(proc[p].at, proc[p].key)
  <2>1. Level(proc[p].at, proc[p].key) \in 1 .. 6
    BY <1>0, Levels
  <2>2. Level(r.at, r.key) = 6
    <3>1. r.key \in Keys /\ r.at \in {"send", "failed"}
      BY <1>1, <1>2 DEF ProcType
    <3> QED
      BY <3>1, Levels
  <2> QED
    BY <2>1, <2>2
<1>5. Good(p, r)
  BY <1>0, <1>1, <1>2, <1>3, <1>4 DEF Good
<1> QED
  BY <1>1, <1>5 DEF InHand, r

\* A goroutine fails.
LEMMA FailsStep ==
  ASSUME DialerInv, NEW p \in Procs, InHand(proc[p]) = None, NEW fatal \in BOOLEAN,
         proc[p].at \notin {"idle", "send", "done"}, proc[p].ops = <<>>,
         proc' = [proc EXCEPT ![p] = Fails(p, proc[p], fatal)],
         UNCHANGED <<opts, entry, conns, closer>>,
         ctx' \in [Dials -> {"live", "found", "done"}], mu' \in Procs \cup {None}, crashed' \in BOOLEAN
  PROVE  DialerInv'
<1> DEFINE r == Fails(p, proc[p], fatal)
<1>1. /\ Good(p, r) /\ r.at \in {"failed", "send"}
      /\ InHand(r) = None /\ r.aux = None /\ r.ops = CloseRef(proc[p].aux)
  BY FailsIs
<1> HIDE DEF r
<1>2. proc' = [proc EXCEPT ![p] = r]
  BY DEF r
<1> QED
  BY <1>1, <1>2, Goes

\* What stays when a goroutine goes on.
LEMMA OthersStay ==
  ASSUME DialerInv, UNCHANGED <<ctx, mu, crashed>>
  PROVE  ctx' \in [Dials -> {"live", "found", "done"}] /\ mu' \in Procs \cup {None} /\ crashed' \in BOOLEAN
BY DEF DialerInv, DialerTypes

\* A goroutine goes on to another place or key and keeps what it holds.
LEMMA MovesOn ==
  ASSUME DialerInv, NEW p \in Procs, NEW at \in Ats, NEW key \in Keys, NEW conn \in RefOrNone,
         NEW r, r = [proc[p] EXCEPT !.at = at, !.key = key, !.conn = conn],
         At(p, r), Level(at, key) >= Level(proc[p].at, proc[p].key), proc[p].ops = <<>>, InHand(r) = InHand(proc[p]),
         conn # None => Made(conn), at \in {"ref", "lost"} => entry[conn].count # 0,
         proc[p].at = "idle" => p[2] = "main",
         at = "idle" \/ (at \in {"lookup", "dial"} /\ key = "multi") =>
           proc[p].at = "idle" \/ (proc[p].at \in {"lookup", "dial"} /\ proc[p].key = "multi"),
         proc' = [proc EXCEPT ![p] = r],
         UNCHANGED <<opts, entry, conns, closer, ctx, mu, crashed>>
  PROVE  DialerInv'
<1>0. /\ proc[p] \in ProcType
      /\ proc[p].aux # None => Made(proc[p].aux)
  BY OfProc DEF ProcOK
<1>1. /\ r \in ProcType /\ r.at = at /\ r.key = key /\ r.conn = conn /\ r.aux = proc[p].aux
      /\ r.ops = <<>>
  BY <1>0 DEF ProcType
<1>2. Good(p, r)
  <2>1. None \in RefOrNone /\ CloseRef(None) = <<>>
    BY DEF RefOrNone, CloseRef
  <2> QED
    BY <1>0, <1>1, <2>1 DEF Good
<1> QED
  BY <1>1, <1>2, Goes, OthersStay

\* The first look at the cache.
LEMMA LookupKeeps ==
  ASSUME DialerInv, NEW p \in Procs, Lookup(p)
  PROVE  DialerInv'
<1> DEFINE k == proc[p].key
<1>0. /\ proc[p] \in ProcType /\ At(p, proc[p]) /\ k \in Keys /\ p[2] \in Legs /\ None \in RefOrNone
      /\ None \notin Entries
      /\ proc[p].at = "lookup" /\ proc[p].ops = <<>> /\ MadeBy[k] = p[2] /\ proc[p].conn = None
      /\ UNCHANGED <<opts, entry, conns, closer, ctx, mu, crashed>>
  BY OfProc DEF Lookup, Runs, At, RefOrNone
<1>1. CASE conns[k] # None
  <2> DEFINE r == [proc[p] EXCEPT !.at = "ref", !.key = k, !.conn = conns[k]]
  <2>1. conns[k] \in RefOrNone /\ conns[k][2] = k /\ Made(conns[k]) /\ entry[conns[k]].count # 0
    BY <1>0, <1>1 DEF DialerInv, DialerTypes, ConnsOK
  <2>2. /\ proc' = [proc EXCEPT ![p] = r]
    BY <1>0, <1>1 DEF Lookup, Set, ProcType
  <2>3. /\ r.at = "ref" /\ r.key = k /\ r.conn = conns[k] /\ r.aux = proc[p].aux /\ r.ops = proc[p].ops
    BY <1>0 DEF ProcType
  <2>4. Level("ref", k) >= Level("lookup", k)
    <3>1. /\ Level("ref", k) = Rank[k] + 1 /\ Rank[k] \in 1 .. 5
          /\ Level("lookup", k) \in {1, Rank[k]}
      BY <1>0, Levels
    <3> QED
      BY <3>1
  <2>5. At(p, r)
    BY <1>0, <1>1, <2>1, <2>3 DEF At
  <2>6. InHand(r) = InHand(proc[p])
    BY <1>0, <2>3 DEF InHand
  <2> HIDE DEF r
  <2> QED
    BY <1>0, <1>1, <2>1, <2>2, <2>4, <2>5, <2>6, MovesOn DEF r, Ats
<1>2. CASE conns[k] = None /\ k = WebRTCKey(p)
  <2> DEFINE r == [proc[p] EXCEPT !.at = "lookup", !.key = SigKey(p), !.conn = None]
  <2>1. SigKey(p) \in Keys /\ MadeBy[SigKey(p)] = p[2] /\ Rank[SigKey(p)] = 1
        /\ k \in {"webrtc", "lwebrtc"} /\ SigKey(p) \in Sig /\ k # DirectKey(p)
    BY <1>0, <1>2, Makers, Ranks DEF SigKey, WebRTCKey, Local, Keys, Legs, Sig, DirectKey
  <2>2. /\ proc' = [proc EXCEPT ![p] = r]
    BY <1>0, <1>2 DEF Lookup, Set, ProcType
  <2>3. /\ r.at = "lookup" /\ r.key = SigKey(p) /\ r.conn = None /\ r.aux = proc[p].aux /\ r.ops = proc[p].ops
    BY <1>0 DEF ProcType
  <2>4. Level("lookup", SigKey(p)) >= Level("lookup", k)
    <3>1. SigKey(p) \notin {"multi", "webrtc", "lwebrtc"}
      BY <2>1 DEF Sig
    <3>2. Level("lookup", SigKey(p)) = 1 /\ Level("lookup", k) = 1
      BY <1>0, <2>1, <3>1, Levels
    <3> QED
      BY <3>2
  <2>5. At(p, r)
    <3>1. proc[p].aux = None
      BY <1>0, <2>1 DEF At
    <3> QED
      BY <1>0, <2>1, <2>3, <3>1 DEF At
  <2>6. InHand(r) = InHand(proc[p])
    BY <1>0, <2>3 DEF InHand
  <2>7. SigKey(p) # "multi"
    BY <2>1 DEF Sig
  <2> HIDE DEF r
  <2> QED
    BY <1>0, <2>1, <2>2, <2>4, <2>5, <2>6, <2>7, MovesOn DEF r, Ats
<1>3. CASE conns[k] = None /\ k # WebRTCKey(p)
  <2> DEFINE r == [proc[p] EXCEPT !.at = "dial", !.key = k, !.conn = None]
  <2>1. k \notin {"webrtc", "lwebrtc"}
    BY <1>0, <1>3, Makers DEF WebRTCKey, Local
  <2>2. /\ proc' = [proc EXCEPT ![p] = r]
    BY <1>0, <1>3 DEF Lookup, Set, ProcType
  <2>3. /\ r.at = "dial" /\ r.key = k /\ r.conn = None /\ r.aux = proc[p].aux /\ r.ops = proc[p].ops
    BY <1>0 DEF ProcType
  <2>4. Level("dial", k) >= Level("lookup", k)
    <3>1. Level("dial", k) = Level("lookup", k) /\ Level("dial", k) \in 1 .. 6
      BY <1>0, Levels DEF Ats
    <3> QED
      BY <3>1
  <2>5. At(p, r)
    BY <1>0, <2>1, <2>3 DEF At
  <2>6. InHand(r) = InHand(proc[p])
    BY <1>0, <2>3 DEF InHand
  <2> HIDE DEF r
  <2> QED
    BY <1>0, <2>2, <2>4, <2>5, <2>6, MovesOn DEF r, Ats
<1> QED
  BY <1>1, <1>2, <1>3

\* dialDirectGRPC, before anything is dialed.
LEMMA SecureKeeps ==
  ASSUME DialerInv, NEW p \in Procs, Secure(p)
  PROVE  DialerInv'
<1>0. /\ proc[p] \in ProcType /\ At(p, proc[p]) /\ proc[p].key \in Keys /\ p[2] \in Legs /\ None \in RefOrNone
      /\ proc[p].at = "secure" /\ proc[p].ops = <<>> /\ proc[p].conn = None /\ p[2] # "webrtc"
      /\ proc[p].aux = None
      /\ UNCHANGED <<opts, entry, conns, closer, ctx, mu, crashed>>
  BY OfProc DEF Secure, Runs, At, RefOrNone
<1>1. CASE Set(p, Fails(p, proc[p], TRUE))
  BY <1>0, <1>1, FailsStep, OthersStay DEF Set, InHand
<1>2. CASE Set(p, [proc[p] EXCEPT !.at = "lookup", !.key = IF opts[p[1]].ext THEN ExtKey(p) ELSE DirectKey(p)])
  <2>1. PICK k \in {ExtKey(p), DirectKey(p)} : Set(p, [proc[p] EXCEPT !.at = "lookup", !.key = k])
    BY <1>2
  <2>2. k \in {"ext", "lext", "grpc", "lgrpc"} /\ MadeBy[k] = p[2]
    BY <1>0, Makers DEF ExtKey, DirectKey, Local, Legs
  <2> DEFINE r == [proc[p] EXCEPT !.at = "lookup", !.key = k, !.conn = None]
  <2>3. proc' = [proc EXCEPT ![p] = r]
    BY <1>0, <2>1 DEF Set, ProcType
  <2>4. r.at = "lookup" /\ r.key = k /\ r.conn = None /\ r.aux = None /\ r.ops = <<>>
    BY <1>0 DEF ProcType
  <2>5. At(p, r)
    BY <2>2, <2>4 DEF At
  <2>6. Level("lookup", k) >= Level("secure", proc[p].key)
    <3>1. Level("lookup", k) \in {3, 4} /\ Level("secure", proc[p].key) = 3
      <4>1. k \in Keys /\ k \notin {"multi", "webrtc", "lwebrtc"} /\ Rank[k] \in {3, 4}
        BY <2>2, Ranks DEF Keys
      <4> QED
        BY <1>0, <4>1, Levels
    <3> QED
      BY <3>1
  <2>7. InHand(r) = InHand(proc[p]) /\ k \in Keys /\ k # "multi" /\ "lookup" \in Ats
    BY <1>0, <2>2, <2>4 DEF InHand, Keys, Ats
  <2> HIDE DEF r
  <2> QED
    BY <1>0, <2>3, <2>5, <2>6, <2>7, MovesOn DEF r
<1> QED
  BY <1>1, <1>2 DEF Secure

\* grpc.DialContext connects, or not.
LEMMA DialGRPCKeeps ==
  ASSUME DialerInv, NEW p \in Procs, DialGRPC(p)
  PROVE  DialerInv'
<1> DEFINE k == proc[p].key
<1>0. /\ proc[p] \in ProcType /\ At(p, proc[p]) /\ k \in Keys /\ p[2] \in Legs /\ None \in RefOrNone
      /\ proc[p].at = "dial" /\ proc[p].ops = <<>> /\ proc[p].conn = None /\ k \in NetKeys
      /\ UNCHANGED <<opts, entry, conns, closer, ctx, mu, crashed>>
  BY OfProc DEF DialGRPC, Runs, At, RefOrNone
<1>1. CASE Set(p, Fails(p, proc[p], TRUE))
  BY <1>0, <1>1, FailsStep, OthersStay DEF Set, InHand
<1>2. CASE Set(p, [proc[p] EXCEPT !.at = "check"])
  <2> DEFINE r == [proc[p] EXCEPT !.at = "check", !.key = k, !.conn = None]
  <2>3. proc' = [proc EXCEPT ![p] = r]
    BY <1>0, <1>2 DEF Set, ProcType
  <2>4. r.at = "check" /\ r.key = k /\ r.conn = None /\ r.aux = proc[p].aux /\ r.ops = <<>>
    BY <1>0 DEF ProcType
  <2>2. k # "multi"
    BY <1>0 DEF NetKeys
  <2>5. At(p, r)
    BY <1>0, <2>2, <2>4 DEF At
  <2>6. Level("check", k) >= Level("dial", k)
    <3>1. Level("check", k) = Rank[k] /\ Rank[k] \in 1 .. 5 /\ Level("dial", k) \in {1, Rank[k]}
      BY <1>0, Levels
    <3> QED
      BY <3>1
  <2>7. InHand(r) = InHand(proc[p]) /\ "check" \in Ats
    BY <1>0, <2>4 DEF InHand, Ats
  <2>8. /\ r = [proc[p] EXCEPT !.at = "check", !.key = k, !.conn = None] /\ None \in RefOrNone
        /\ proc[p].at = "dial" /\ proc[p].ops = <<>> /\ k \in Keys
        /\ UNCHANGED <<opts, entry, conns, closer, ctx, mu, crashed>>
    BY <1>0
  <2> HIDE DEF r, k
  <2> QED
    BY <2>3, <2>5, <2>6, <2>7, <2>8, MovesOn DEF k
<1> QED
  BY <1>1, <1>2 DEF DialGRPC

\* dialMulticastDNS.
LEMMA MulticastDNSKeeps ==
  ASSUME DialerInv, NEW p \in Procs, MulticastDNS(p)
  PROVE  DialerInv'
<1>0. /\ proc[p] \in ProcType /\ At(p, proc[p]) /\ proc[p].key \in Keys /\ p[2] = "mdns" /\ None \in RefOrNone
      /\ proc[p].at = "query" /\ proc[p].ops = <<>> /\ proc[p].conn = None /\ proc[p].aux = None
      /\ UNCHANGED <<opts, entry, conns, closer, ctx, mu, crashed>>
  BY OfProc DEF MulticastDNS, Runs, At, RefOrNone
<1>1. CASE Set(p, Fails(p, proc[p], FALSE))
  BY <1>0, <1>1, FailsStep, OthersStay DEF Set, InHand
<1>2. ASSUME NEW at \in {"lookup", "secure"}, NEW k \in {"lwebrtc", proc[p].key},
             at = "lookup" => k = "lwebrtc",
             proc' = [proc EXCEPT ![p] = [proc[p] EXCEPT !.at = at, !.key = k, !.conn = None]]
      PROVE  DialerInv'
  <2> DEFINE r == [proc[p] EXCEPT !.at = at, !.key = k, !.conn = None]
  <2>4. r.at = at /\ r.key = k /\ r.conn = None /\ r.aux = None /\ r.ops = <<>>
    BY <1>0 DEF ProcType
  <2>5. At(p, r)
    BY <1>0, <1>2, <2>4, Makers DEF At
  <2>6. Level(at, k) >= Level("query", proc[p].key)
    <3>1. Level(at, k) \in {1, 3} /\ Level("query", proc[p].key) = 1
      BY <1>0, <1>2, Levels DEF Keys
    <3> QED
      BY <3>1
  <2>7. InHand(r) = InHand(proc[p]) /\ at \in Ats /\ k \in Keys
    BY <1>0, <2>4 DEF InHand, Ats, Keys
  <2> HIDE DEF r
  <2>8. at = "idle" \/ (at \in {"lookup", "dial"} /\ k = "multi") =>
          proc[p].at = "idle" \/ (proc[p].at \in {"lookup", "dial"} /\ proc[p].key = "multi")
    BY <1>2
  <2> QED
    BY <1>0, <1>2, <2>5, <2>6, <2>7, <2>8, MovesOn DEF r
<1>3. CASE Set(p, [proc[p] EXCEPT !.at = "lookup", !.key = "lwebrtc"])
  <2>1. proc' = [proc EXCEPT ![p] = [proc[p] EXCEPT !.at = "lookup", !.key = "lwebrtc", !.conn = None]]
    BY <1>0, <1>3 DEF Set, ProcType
  <2> QED
    BY <1>2, <2>1
<1>4. CASE Set(p, [proc[p] EXCEPT !.at = "secure"])
  <2>1. proc' = [proc EXCEPT ![p] = [proc[p] EXCEPT !.at = "secure", !.key = proc[p].key, !.conn = None]]
    BY <1>0, <1>4 DEF Set, ProcType
  <2> QED
    BY <1>2, <2>1
<1> QED
  BY <1>1, <1>3, <1>4 DEF MulticastDNS

\* The rest of dialWebRTC.
LEMMA ExchangeKeeps ==
  ASSUME DialerInv, NEW p \in Procs, Exchange(p)
  PROVE  DialerInv'
<1> DEFINE done == [proc[p] EXCEPT !.aux = None, !.ops = CloseRef(proc[p].aux)]
<1>0. /\ proc[p] \in ProcType /\ At(p, proc[p]) /\ proc[p].key = WebRTCKey(p) /\ p[2] \in {"mdns", "webrtc"}
      /\ proc[p].key \in Keys /\ proc[p].aux \in RefOrNone
      /\ proc[p].aux # None => Made(proc[p].aux)
      /\ proc[p].at = "exchange" /\ proc[p].ops = <<>> /\ proc[p].conn = None
      /\ UNCHANGED <<opts, entry, conns, closer, ctx, mu, crashed>>
  BY OfProc DEF Exchange, Runs, At, ProcOK, Legs
<1>1. CASE \E fatal \in BOOLEAN : Set(p, Fails(p, proc[p], fatal))
  BY <1>0, <1>1, FailsStep, OthersStay DEF Set, InHand
<1>2. ASSUME NEW at \in {"check", "secure"}, at = "secure" => p[2] = "mdns",
             Set(p, [done EXCEPT !.at = at])
      PROVE  DialerInv'
  <2> DEFINE r == [done EXCEPT !.at = at]
  <2>1. r.at = at /\ r.key = proc[p].key /\ r.conn = None /\ r.aux = None /\ r.ops = CloseRef(proc[p].aux)
    BY <1>0 DEF ProcType
  <2>2. r \in ProcType
    <3>1. CloseRef(proc[p].aux) \in Ops
      BY <1>0, CloseRefIs
    <3> QED
      BY <1>0, <3>1 DEF ProcType, Ats, RefOrNone
  <2>3. proc' = [proc EXCEPT ![p] = r]
    BY <1>2 DEF Set
  <2>4. WebRTCKey(p) \in {"webrtc", "lwebrtc"} /\ MadeBy[WebRTCKey(p)] = p[2]
    BY <1>0, Makers DEF WebRTCKey, Local
  <2> HIDE DEF r
  <2>5. At(p, r)
    BY <1>0, <1>2, <2>1, <2>4 DEF At
  <2>6. Level(r.at, r.key) >= Level(proc[p].at, proc[p].key)
    <3>1. Level(at, proc[p].key) \in {2, 3} /\ Level("exchange", proc[p].key) = 2
      <4>1. Rank[proc[p].key] = 2
        BY <1>0, <2>4, Ranks
      <4> QED
        BY <1>0, <4>1, Levels
    <3> QED
      BY <1>0, <2>1, <3>1
  <2>7. Good(p, r)
    BY <1>0, <2>1, <2>2, <2>5, <2>6 DEF Good
  <2>8. InHand(r) = InHand(proc[p])
    BY <1>0, <2>1 DEF InHand
  <2> QED
    BY <1>0, <2>1, <2>3, <2>7, <2>8, Goes, OthersStay
<1> QED
  BY <1>1, <1>2 DEF Exchange, Local

\* The redundant connection could not be closed.
LEMMA LostFailsKeeps ==
  ASSUME DialerInv, NEW p \in Procs, LostFails(p)
  PROVE  DialerInv'
<1>1. /\ proc[p].at = "lost" /\ proc[p].ops = <<>> /\ mu' = None
      /\ UNCHANGED <<opts, entry, conns, closer, ctx, crashed>>
      /\ proc' = [proc EXCEPT ![p] = Fails(p, proc[p], TRUE)]
  BY DEF LostFails, Runs, Set
<1>2. ctx' \in [Dials -> {"live", "found", "done"}] /\ mu' \in Procs \cup {None} /\ crashed' \in BOOLEAN
  BY <1>1 DEF DialerInv, DialerTypes
<1>3. InHand(proc[p]) = None
  BY <1>1 DEF InHand
<1> QED
  BY <1>1, <1>2, <1>3, FailsStep

\* The goroutines of a Dial.
LEMMA LegsOf ==
  ASSUME NEW d \in Dials
  PROVE  /\ Main(d) \in Procs /\ Main(d)[1] = d /\ Main(d)[2] = "main"
         /\ \A l \in {"mdns", "webrtc"} :
              /\ <<d, l>> \in Procs /\ <<d, l>>[1] = d /\ <<d, l>>[2] = l /\ <<d, l>> # Main(d)
         /\ <<d, "mdns">> # <<d, "webrtc">>
BY DEF Main, Procs, Legs

\* Dial is called.
LEMMA DialKeeps ==
  ASSUME DialerInv, NEW d \in Dials, Dial(d)
  PROVE  DialerInv'
<1> DEFINE p == Main(d)
           r == [NoProc EXCEPT !.at = "lookup"]
<1>1. p \in Procs /\ p[2] = "main"
  BY LegsOf
<1> HIDE DEF p
<1>2. /\ proc[p] \in ProcType /\ proc[p].at = "idle" /\ proc[p].ops = <<>> /\ proc[p].conn = None
      /\ proc[p].aux = None /\ proc[p].key \in Keys
      /\ UNCHANGED <<opts, entry, conns, closer, ctx, mu, crashed>>
      /\ proc' = [proc EXCEPT ![p] = r]
  BY <1>1, OfProc DEF Dial, Runs, Set, At, p
<1>3. /\ r.at = "lookup" /\ r.key = "multi" /\ r.conn = None /\ r.aux = None /\ r.ops = <<>>
      /\ r.res = "none" /\ r \in ProcType
  <2>1. <<>> \in Ops
    BY DEF Ops
  <2> QED
    BY <2>1 DEF NoProc, ProcType, Ats, Keys, RefOrNone
<1> HIDE DEF r
<1>4. At(p, r)
  BY <1>1, <1>3, Makers DEF At
<1>5. Level(r.at, r.key) >= Level(proc[p].at, proc[p].key)
  <2>1. Level("lookup", "multi") = 1 /\ Level("idle", proc[p].key) = 1
    BY <1>2, Levels DEF Keys
  <2> QED
    BY <1>2, <1>3, <2>1
<1>6. Good(p, r)
  <2>1. None \in RefOrNone /\ CloseRef(None) = <<>>
    BY DEF RefOrNone, CloseRef
  <2> QED
    BY <1>3, <1>4, <1>5, <2>1 DEF Good
<1>7. InHand(r) = InHand(proc[p])
  BY <1>2, <1>3 DEF InHand
<1> QED
  BY <1>1, <1>2, <1>3, <1>6, <1>7, Goes, OthersStay

\* The caller closes its connection.
LEMMA CloseConnKeeps ==
  ASSUME DialerInv, NEW d \in Dials, CloseConn(d)
  PROVE  DialerInv'
<1> DEFINE p == Main(d)
           r == [proc[p] EXCEPT !.at = "closed", !.conn = None, !.ops = CloseRef(proc[p].conn)]
<1>1. p \in Procs /\ p[2] = "main"
  BY LegsOf
<1> HIDE DEF p
<1>2. /\ proc[p] \in ProcType /\ proc[p].at = "open" /\ proc[p].ops = <<>> /\ proc[p].conn \in RefOrNone
      /\ Made(proc[p].conn) /\ proc[p].conn # None
      /\ proc[p].aux = None /\ proc[p].key \in Keys
      /\ UNCHANGED <<opts, entry, conns, closer, ctx, mu, crashed>>
      /\ proc' = [proc EXCEPT ![p] = r]
  BY <1>1, OfProc DEF CloseConn, Runs, Set, At, ProcOK, p
<1>3. /\ r.at = "closed" /\ r.key = proc[p].key /\ r.conn = None /\ r.aux = None
      /\ r.ops = CloseRef(proc[p].conn)
  BY <1>2 DEF ProcType
<1>4. r \in ProcType
  <2>1. CloseRef(proc[p].conn) \in Ops
    BY <1>2, CloseRefIs
  <2> QED
    BY <1>2, <2>1 DEF ProcType, Ats, RefOrNone
<1> HIDE DEF r
<1>5. At(p, r)
  BY <1>1, <1>3 DEF At
<1>6. Level(r.at, r.key) >= Level(proc[p].at, proc[p].key)
  <2>1. Level("closed", proc[p].key) = 6 /\ Level("open", proc[p].key) = 6
    BY <1>2, Levels
  <2> QED
    BY <1>2, <1>3, <2>1
<1>7. Good(p, r)
  BY <1>2, <1>3, <1>4, <1>5, <1>6 DEF Good
<1>8. InHand(r) = None /\ InHand(proc[p]) = proc[p].conn
  BY <1>2, <1>3 DEF InHand
<1> QED
  BY <1>1, <1>2, <1>3, <1>7, <1>8, Goes, OthersStay

\* Every leg has reported.
LEMMA GatheredKeeps ==
  ASSUME DialerInv, NEW d \in Dials, Gathered(d)
  PROVE  DialerInv'
<1> DEFINE p == Main(d)
<1>1. p \in Procs /\ p[2] = "main"
  BY LegsOf
<1>2. /\ proc[p] \in ProcType /\ proc[p].at = "gather" /\ proc[p].ops = <<>> /\ proc[p].conn \in RefOrNone
      /\ proc[p].conn # None => Made(proc[p].conn) /\ proc[p].conn[2] \in Top
      /\ proc[p].aux = None /\ proc[p].key = "multi"
      /\ UNCHANGED <<opts, entry, conns, closer, mu, crashed>>
  BY <1>1, OfProc DEF Gathered, Runs, At, ProcOK
<1>3. ctx' \in [Dials -> {"live", "found", "done"}] /\ mu' \in Procs \cup {None} /\ crashed' \in BOOLEAN
  BY <1>2 DEF Gathered, DialerInv, DialerTypes
<1>4. CASE proc[p].conn = None /\ Set(p, Fails(p, proc[p], TRUE))
  BY <1>1, <1>2, <1>3, <1>4, FailsStep DEF Set, InHand
<1>5. ASSUME NEW at \in {"check", "secure"}, NEW res \in {"none", proc[p].res},
             at = "check" <=> proc[p].conn # None,
             Set(p, [proc[p] EXCEPT !.at = at, !.res = res])
      PROVE  DialerInv'
  <2> HIDE DEF p
  <2> DEFINE r == [proc[p] EXCEPT !.at = at, !.res = res]
  <2>1. r.at = at /\ r.key = "multi" /\ r.conn = proc[p].conn /\ r.aux = None /\ r.ops = <<>>
    BY <1>2 DEF ProcType
  <2>2. r \in ProcType
    BY <1>2 DEF ProcType, Ats
  <2>3. proc' = [proc EXCEPT ![p] = r]
    BY <1>5 DEF Set
  <2> HIDE DEF r
  <2>4. At(p, r)
    BY <1>1, <1>2, <1>5, <2>1, Makers DEF At
  <2>5. Level(r.at, r.key) >= Level(proc[p].at, proc[p].key)
    <3>1. Level("check", "multi") = 5 /\ Level("secure", "multi") = 3 /\ Level("gather", "multi") = 1
      BY Levels, Ranks DEF Keys
    <3> QED
      BY <1>2, <2>1, <3>1
  <2>6. Good(p, r)
    <3>1. None \in RefOrNone /\ CloseRef(None) = <<>>
      BY DEF RefOrNone, CloseRef
    <3> QED
      BY <1>2, <2>1, <2>2, <2>4, <2>5, <3>1 DEF Good
  <2>7. InHand(r) = InHand(proc[p])
    BY <1>2, <2>1 DEF InHand
  <2> QED
    BY <1>1, <1>2, <1>3, <2>1, <2>3, <2>6, <2>7, Goes
<1>6. CASE proc[p].conn # None
  <2>1. Set(p, [proc[p] EXCEPT !.at = "check", !.res = "none"])
    BY <1>6 DEF Gathered
  <2> QED
    BY <1>5, <1>6, <2>1
<1>7. CASE proc[p].conn = None
  <2>1. \/ Set(p, Fails(p, proc[p], TRUE)) \/ Set(p, [proc[p] EXCEPT !.at = "secure"])
    BY <1>7 DEF Gathered
  <2>2. [proc[p] EXCEPT !.at = "secure"] = [proc[p] EXCEPT !.at = "secure", !.res = proc[p].res]
    BY <1>2 DEF ProcType
  <2> QED
    BY <1>4, <1>5, <1>7, <2>1, <2>2
<1> QED
  BY <1>6, <1>7

\* The context of a Dial ends.
LEMMA CancelKeeps ==
  ASSUME DialerInv, NEW d \in Dials, Cancel(d)
  PROVE  DialerInv'
<1>1. UNCHANGED <<opts, proc, conns, entry, mu, closer, crashed>>
      /\ ctx' = [ctx EXCEPT ![d] = "done"]
  BY DEF Cancel
<1>2. DialerTypes'
  BY <1>1 DEF DialerInv, DialerTypes
<1>3. hold' = hold
  BY <1>1 DEF hold
<1>4. CountsOK'
  BY <1>1, <1>3 DEF DialerInv, CountsOK
<1>5. ProcsOK' /\ LegsOK' /\ CloserOK' /\ ConnsOK' /\ ReleasedIsRemoved'
  BY <1>1 DEF DialerInv, ProcsOK, ProcOK, LegsOK, CloserOK, ConnsOK, ReleasedIsRemoved, Made
<1>6. EntriesOK'
  BY <1>1 DEF DialerInv, EntriesOK, Made, Closes
<1> QED
  BY <1>2, <1>4, <1>5, <1>6 DEF DialerInv

\* dial starts its legs: what they hold and make, and main, are three goroutines
\* that change at once.
LEMMA StartLegsKeeps ==
  ASSUME DialerInv, NEW d \in Dials, StartLegs(d)
  PROVE  DialerInv'
<1> DEFINE p == Main(d)
           m == <<d, "mdns">>
           w == <<d, "webrtc">>
<1>1. /\ p \in Procs /\ m \in Procs /\ w \in Procs /\ p # m /\ p # w /\ m # w
      /\ p[2] = "main" /\ m[2] = "mdns" /\ w[2] = "webrtc"
  BY LegsOf
<1>2. /\ proc[p].at = "dial" /\ proc[p].ops = <<>> /\ proc[p].key = "multi"
      /\ UNCHANGED <<opts, entry, conns, closer, ctx, mu, crashed>>
      /\ DOMAIN proc = Procs
  BY <1>1, OfProc DEF StartLegs, Runs
<1>3. CASE ctx[d] = "done"
  <2>1. proc' = [proc EXCEPT ![p] = Fails(p, proc[p], TRUE)]
    BY <1>1, <1>2, <1>3 DEF StartLegs
  <2>2. InHand(proc[p]) = None
    BY <1>1, <1>2, OfProc DEF InHand, At
  <2> QED
    BY <1>1, <1>2, <2>1, <2>2, FailsStep, OthersStay
<1>4. CASE ctx[d] # "done"
  <2>1. /\ proc' = [q \in Procs |-> proc'[q]] /\ \A q \in Procs \ {p, m, w} : proc'[q] = proc[q]
        /\ proc'[p] = [proc[p] EXCEPT !.at = "gather"]
        /\ proc'[m] = [proc[m] EXCEPT !.at = IF TriesMDNS(opts[d]) THEN "query" ELSE "idle"]
        /\ proc'[w] = IF TriesWebRTC(opts[d]) THEN [proc[w] EXCEPT !.at = "lookup", !.key = "webrtc"]
                      ELSE proc[w]
    BY <1>1, <1>2, <1>4 DEF StartLegs
  <2>2. proc[m].at = "idle" /\ proc[w].at = "idle"
    BY <1>2 DEF DialerInv, LegsOK
  <2>3. \A q \in {p, m, w} : /\ proc[q] \in ProcType /\ proc[q].ops = <<>> /\ proc[q].conn = None
                             /\ proc[q].aux = None \/ q = p
                             /\ proc[q].key \in Keys
    BY <1>1, <1>2, <2>2, OfProc DEF At
  <2>4. proc[p].aux = None
    <3>1. DirectKey(p) # "multi"
      BY DEF DirectKey
    <3> QED
      BY <1>1, <1>2, <3>1, OfProc DEF At
  <2>5. None \in RefOrNone /\ CloseRef(None) = <<>>
    BY DEF RefOrNone, CloseRef
  <2>6. ASSUME NEW q \in {p, m, w} PROVE
          \/ proc'[q] = proc[q]
          \/ /\ Good(q, proc'[q]) /\ proc'[q].ops = <<>> /\ proc'[q].conn = None /\ proc'[q].aux = None
             /\ proc'[q].at \in {"gather", "query", "idle", "lookup"}
    <3>1. PICK at \in {"gather", "query", "idle", "lookup"}, k \in {proc[q].key, "webrtc"} :
            /\ proc'[q] = proc[q] \/ proc'[q] = [proc[q] EXCEPT !.at = at, !.key = k]
            /\ at = "gather" => q = p /\ k = "multi"
            /\ at = "query" => q = m
            /\ at = "idle" => q = m
            /\ at = "lookup" => q = w /\ k = "webrtc"
      <4>1. CASE q = p
        <5>1. proc'[q] = [proc[q] EXCEPT !.at = "gather", !.key = proc[q].key]
          BY <2>1, <2>3, <4>1 DEF ProcType
        <5> QED
          BY <1>2, <4>1, <5>1
      <4>2. CASE q = m
        <5>1. \E at \in {"query", "idle"} : proc'[q] = [proc[q] EXCEPT !.at = at, !.key = proc[q].key]
          <6>1. PICK at \in {"query", "idle"} : proc'[q] = [proc[q] EXCEPT !.at = at]
            BY <2>1, <4>2
          <6>2. [proc[q] EXCEPT !.at = at] = [proc[q] EXCEPT !.at = at, !.key = proc[q].key]
            BY <2>3 DEF ProcType
          <6> QED
            BY <6>1, <6>2
        <5> QED
          BY <4>2, <5>1
      <4>3. CASE q = w
        BY <2>1, <4>3
      <4> QED
        BY <4>1, <4>2, <4>3
    <3>2. CASE proc'[q] = [proc[q] EXCEPT !.at = at, !.key = k]
      <4> DEFINE r == [proc[q] EXCEPT !.at = at, !.key = k]
      <4>1. proc[q].aux = None
        BY <2>3, <2>4
      <4>2. r.at = at /\ r.key = k /\ r.conn = None /\ r.aux = None /\ r.ops = <<>>
        BY <2>3, <4>1 DEF ProcType
      <4>3. r \in ProcType
        <5>1. at \in Ats /\ k \in Keys
          BY <2>3 DEF Ats, Keys
        <5>2. proc[q] \in ProcType
          BY <2>3
        <5> HIDE DEF r
        <5> QED
          BY <5>1, <5>2 DEF ProcType, r
      <4> HIDE DEF r
      <4>4. At(q, r)
        BY <1>1, <3>1, <4>2, Makers DEF At
      <4>5. Level(r.at, r.key) >= Level(proc[q].at, proc[q].key)
        <5>1. Level(at, k) = 1 /\ Level(proc[q].at, proc[q].key) = 1
          <6>1. k \in Keys /\ proc[q].key \in Keys
            BY <2>3 DEF Keys
          <6>2. Level(at, k) = 1
            BY <3>1, <6>1, Levels
          <6>3. Level(proc[q].at, proc[q].key) = 1
            BY <1>2, <2>2, <6>1, Levels
          <6> QED
            BY <6>2, <6>3
        <5> QED
          BY <4>2, <5>1
      <4>6. Good(q, r)
        BY <2>5, <4>2, <4>3, <4>4, <4>5 DEF Good
      <4> QED
        BY <3>2, <4>2, <4>6 DEF r
    <3> QED
      BY <3>1, <3>2
  <2>7. \A q \in Procs : proc'[q] = proc[q] \/ (proc[q].ops = <<>> /\ Good(q, proc'[q]))
    BY <2>1, <2>3, <2>6
  <2>8. LegsOK'
    <3> SUFFICES ASSUME NEW f \in Dials,
                        \/ proc'[Main(f)].at = "idle"
                        \/ proc'[Main(f)].at \in {"lookup", "dial"} /\ proc'[Main(f)].key = "multi"
                 PROVE  proc'[<<f, "mdns">>].at = "idle" /\ proc'[<<f, "webrtc">>].at = "idle"
      BY DEF LegsOK, Main
    <3>1. f # d
      <4>1. proc'[p].at = "gather"
        BY <2>1, <2>3 DEF ProcType
      <4> QED
        BY <4>1
    <3>2. /\ Main(f) \in Procs \ {p, m, w} /\ <<f, "mdns">> \in Procs \ {p, m, w}
          /\ <<f, "webrtc">> \in Procs \ {p, m, w}
      BY <3>1, LegsOf DEF Main
    <3> QED
      BY <2>1, <3>2 DEF DialerInv, LegsOK
  <2>9. ASSUME NEW e \in Entries PROVE Number(hold', e) = Number(hold, e)
    <3>1. \A q \in Procs : /\ InHand(proc'[q]) = InHand(proc[q]) /\ proc'[q].aux = proc[q].aux
                           /\ proc'[q].ops = proc[q].ops
      <4> SUFFICES ASSUME NEW q \in Procs
                   PROVE  /\ InHand(proc'[q]) = InHand(proc[q]) /\ proc'[q].aux = proc[q].aux
                          /\ proc'[q].ops = proc[q].ops
        OBVIOUS
      <4>1. CASE proc'[q] = proc[q]
        BY <4>1
      <4>2. CASE q \in {p, m, w} /\ proc'[q] # proc[q]
        BY <2>3, <2>4, <2>6, <4>2 DEF InHand
      <4> QED
        BY <2>1, <4>1, <4>2
    <3>2. ASSUME NEW h \in Holders PROVE hold'[h] = hold[h]
      <4>1. CASE \E q \in Procs : h \in {<<"conn", q>>, <<"aux", q>>, <<"op", q>>}
        <5>1. PICK q \in Procs : h \in {<<"conn", q>>, <<"aux", q>>, <<"op", q>>}
          BY <4>1
        <5>2. /\ InHand(proc'[q]) = InHand(proc[q]) /\ proc'[q].aux = proc[q].aux
              /\ HeldBy(proc'[q].ops) = HeldBy(proc[q].ops)
          BY <3>1
        <5>3. hold'[<<"conn", q>>] = hold[<<"conn", q>>] /\ hold'[<<"aux", q>>] = hold[<<"aux", q>>]
              /\ hold'[<<"op", q>>] = hold[<<"op", q>>]
          BY <5>2, HoldIs, HoldNext
        <5> QED
          BY <5>1, <5>3
      <4>2. CASE \E y \in Entries : h \in {<<"inner", y>>, <<"cred", y>>}
        <5>1. PICK y \in Entries : h \in {<<"inner", y>>, <<"cred", y>>}
          BY <4>2
        <5>2. hold'[<<"inner", y>>] = hold[<<"inner", y>>] /\ hold'[<<"cred", y>>] = hold[<<"cred", y>>]
          BY <1>2, HoldIs, HoldNext
        <5> QED
          BY <5>1, <5>2
      <4>3. CASE h = <<"closer", None>>
        BY <1>2, <4>3, HoldIs, HoldNext
      <4> QED
        BY <4>1, <4>2, <4>3, Places
    <3> QED
      BY <3>2 DEF Number
  <2> QED
    BY <1>2, <2>1, <2>7, <2>8, <2>9, CallStep, OthersStay
<1> QED
  BY <1>3, <1>4

\* A leg hands its connection over to main.
LEMMA GatherKeeps ==
  ASSUME DialerInv, NEW d \in Dials, NEW l \in {"mdns", "webrtc"}, Gather(d, l)
  PROVE  DialerInv'
<1> DEFINE p == Main(d)
           q == <<d, l>>
           leg == proc[q]
           x == leg.conn
<1>1. p \in Procs /\ q \in Procs /\ p # q /\ p[2] = "main" /\ q[2] = l
  BY LegsOf
<1>2. /\ proc[p] \in ProcType /\ proc[q] \in ProcType /\ At(p, proc[p]) /\ At(q, proc[q])
      /\ proc[p].at = "gather" /\ proc[p].ops = <<>> /\ leg.at = "send" /\ leg.ops = <<>>
      /\ proc[p].aux = None /\ leg.aux = None /\ proc[p].key = "multi"
      /\ proc[p].conn \in RefOrNone /\ x \in RefOrNone /\ leg.key \in Keys
      /\ x # None => Made(x) /\ x[2] \in Top
      /\ proc[p].conn # None => Made(proc[p].conn) /\ proc[p].conn[2] \in Top
      /\ x # None <=> leg.res = "ok"
      /\ UNCHANGED <<opts, entry, conns, closer, mu, crashed>>
      /\ DOMAIN proc = Procs
  BY <1>1, OfProc DEF Gather, Runs, At, ProcOK
<1>3. ctx' \in [Dials -> {"live", "found", "done"}] /\ mu' \in Procs \cup {None} /\ crashed' \in BOOLEAN
  BY <1>2 DEF Gather, DialerInv, DialerTypes
<1>4. /\ proc' = [u \in Procs |-> proc'[u]] /\ \A u \in Procs \ {p, q} : proc'[u] = proc[u]
      /\ proc'[q] = [NoProc EXCEPT !.at = "done"]
      /\ proc'[p] = IF leg.res = "ok" THEN [proc[p] EXCEPT !.conn = x, !.ops = CloseRef(proc[p].conn)]
                    ELSE [proc[p] EXCEPT !.res = IF leg.res = "fatal" THEN "fatal" ELSE @]
  BY <1>1, <1>2 DEF Gather
<1>5. None \in RefOrNone /\ CloseRef(None) = <<>>
  BY DEF RefOrNone, CloseRef
<1>6. /\ Good(q, proc'[q]) /\ proc'[q].conn = None /\ proc'[q].aux = None /\ proc'[q].ops = <<>>
      /\ proc'[q].at = "done"
  <2> DEFINE r == [NoProc EXCEPT !.at = "done"]
  <2>1. /\ r.at = "done" /\ r.key = "multi" /\ r.conn = None /\ r.aux = None /\ r.ops = <<>> /\ r \in ProcType
    <3>1. <<>> \in Ops
      BY DEF Ops
    <3> QED
      BY <3>1 DEF NoProc, ProcType, Ats, Keys, RefOrNone
  <2> HIDE DEF r
  <2>2. At(q, r)
    BY <1>1, <2>1 DEF At
  <2>3. Level(r.at, r.key) >= Level(leg.at, leg.key)
    <3>1. Level("done", "multi") = 6 /\ Level("send", leg.key) = 6
      BY <1>2, Levels DEF Keys
    <3> QED
      BY <1>2, <2>1, <3>1
  <2>4. Good(q, r)
    BY <1>5, <2>1, <2>2, <2>3 DEF Good
  <2> QED
    BY <1>4, <2>1, <2>4 DEF r
<1>7. /\ Good(p, proc'[p]) /\ proc'[p].aux = None /\ proc'[p].at = "gather"
      /\ x # None => proc'[p].conn = x /\ proc'[p].ops = CloseRef(proc[p].conn)
      /\ x = None => proc'[p].conn = proc[p].conn /\ proc'[p].ops = <<>>
  <2> DEFINE r == proc'[p]
  <2>1. /\ r.at = "gather" /\ r.key = "multi" /\ r.aux = None /\ r \in ProcType
        /\ x # None => r.conn = x /\ r.ops = CloseRef(proc[p].conn)
        /\ x = None => r.conn = proc[p].conn /\ r.ops = <<>>
    <3>1. CASE leg.res = "ok"
      <4>1. CloseRef(proc[p].conn) \in Ops
        BY <1>2, CloseRefIs
      <4> QED
        BY <1>2, <1>4, <3>1, <4>1 DEF ProcType
    <3>2. CASE leg.res # "ok"
      BY <1>2, <1>4, <3>2 DEF ProcType
    <3> QED
      BY <3>1, <3>2
  <2> HIDE DEF r
  <2>2. At(p, r)
    BY <1>1, <1>2, <2>1 DEF At
  <2>3. Level(r.at, r.key) >= Level(proc[p].at, proc[p].key)
    <3>1. Level("gather", "multi") = 1
      BY Levels DEF Keys
    <3> QED
      BY <1>2, <2>1, <3>1
  <2>4. Good(p, r)
    BY <1>2, <1>5, <2>1, <2>2, <2>3 DEF Good
  <2> QED
    BY <2>1, <2>4 DEF r
<1>8. \A u \in Procs : proc'[u] = proc[u] \/ (proc[u].ops = <<>> /\ Good(u, proc'[u]))
  BY <1>2, <1>4, <1>6, <1>7
<1>9. LegsOK'
  <2> SUFFICES ASSUME NEW f \in Dials,
                      \/ proc'[Main(f)].at = "idle"
                      \/ proc'[Main(f)].at \in {"lookup", "dial"} /\ proc'[Main(f)].key = "multi"
               PROVE  proc'[<<f, "mdns">>].at = "idle" /\ proc'[<<f, "webrtc">>].at = "idle"
    BY DEF LegsOK, Main
  <2>1. f # d
    BY <1>7
  <2>2. /\ Main(f) \in Procs \ {p, q} /\ <<f, "mdns">> \in Procs \ {p, q}
        /\ <<f, "webrtc">> \in Procs \ {p, q}
    BY <2>1, LegsOf DEF Main
  <2> QED
    BY <1>4, <2>2 DEF DialerInv, LegsOK
<1>10. ASSUME NEW e \in Entries PROVE Number(hold', e) = Number(hold, e)
  <2> DEFINE a == <<"conn", q>>
             b == <<"conn", p>>
             c == <<"op", p>>
  <2>1. a \in Holders /\ b \in Holders /\ c \in Holders /\ a # b /\ a # c /\ b # c
    BY <1>1, Places
  <2>2. /\ hold[a] = x /\ hold[b] = proc[p].conn /\ hold[c] = None
        /\ hold'[a] = None
        /\ x # None => hold'[b] = x /\ hold'[c] = proc[p].conn
        /\ x = None => hold'[b] = proc[p].conn /\ hold'[c] = None
    <3>1. HeldBy(<<>>) = None /\ HeldBy(CloseRef(proc[p].conn)) = proc[p].conn
      BY <1>2, CloseRefIs DEF HeldBy
    <3>2. InHand(proc[q]) = x /\ InHand(proc[p]) = proc[p].conn /\ InHand(proc'[q]) = None
          /\ InHand(proc'[p]) = proc'[p].conn
      BY <1>2, <1>6, <1>7 DEF InHand
    <3>3. /\ hold[a] = InHand(proc[q]) /\ hold[b] = InHand(proc[p]) /\ hold[c] = HeldBy(proc[p].ops)
          /\ hold'[a] = InHand(proc'[q]) /\ hold'[b] = InHand(proc'[p]) /\ hold'[c] = HeldBy(proc'[p].ops)
      BY <1>1, HoldIs, HoldNext
    <3> QED
      BY <1>2, <1>7, <3>1, <3>2, <3>3
  <2>3. \A h \in Holders \ {a, b, c} : hold'[h] = hold[h]
    <3> SUFFICES ASSUME NEW h \in Holders, h \notin {a, b, c} PROVE hold'[h] = hold[h]
      OBVIOUS
    <3>1. CASE \E u \in Procs : h \in {<<"conn", u>>, <<"aux", u>>, <<"op", u>>}
      <4>1. PICK u \in Procs : h \in {<<"conn", u>>, <<"aux", u>>, <<"op", u>>}
        BY <3>1
      <4>2. CASE u \notin {p, q}
        <5>1. proc'[u] = proc[u]
          BY <1>4, <4>2
        <5>2. hold'[<<"conn", u>>] = hold[<<"conn", u>>] /\ hold'[<<"aux", u>>] = hold[<<"aux", u>>]
              /\ hold'[<<"op", u>>] = hold[<<"op", u>>]
          BY <5>1, HoldIs, HoldNext
        <5> QED
          BY <4>1, <5>2
      <4>3. CASE u = p
        <5>1. h = <<"aux", p>>
          BY <4>1, <4>3
        <5> QED
          BY <1>1, <1>2, <1>7, <5>1, HoldIs, HoldNext
      <4>4. CASE u = q
        <5>1. h \in {<<"aux", q>>, <<"op", q>>}
          BY <4>1, <4>4
        <5>2. hold'[<<"aux", q>>] = None /\ hold[<<"aux", q>>] = None
              /\ hold'[<<"op", q>>] = HeldBy(<<>>) /\ hold[<<"op", q>>] = HeldBy(<<>>)
          BY <1>1, <1>2, <1>6, HoldIs, HoldNext
        <5> QED
          BY <5>1, <5>2
      <4> QED
        BY <4>2, <4>3, <4>4
    <3>2. CASE \E y \in Entries : h \in {<<"inner", y>>, <<"cred", y>>}
      <4>1. PICK y \in Entries : h \in {<<"inner", y>>, <<"cred", y>>}
        BY <3>2
      <4>2. hold'[<<"inner", y>>] = hold[<<"inner", y>>] /\ hold'[<<"cred", y>>] = hold[<<"cred", y>>]
        BY <1>2, HoldIs, HoldNext
      <4> QED
        BY <4>1, <4>2
    <3>3. CASE h = <<"closer", None>>
      BY <1>2, <3>3, HoldIs, HoldNext
    <3> QED
      BY <3>1, <3>2, <3>3, Places
  <2> HIDE DEF a, b, c
  <2>4. hold = [h \in Holders |-> hold[h]]
    BY HoldIs
  <2>5. Number(hold', e) = Number(hold, e) - One(hold[a] = e) - One(hold[b] = e) - One(hold[c] = e)
                             + One(hold'[a] = e) + One(hold'[b] = e) + One(hold'[c] = e)
    BY <2>1, <2>3, <2>4, Changes
  <2>6. One(None = e) = 0 /\ One(x = e) \in Nat /\ One(proc[p].conn = e) \in Nat /\ Number(hold, e) \in Nat
    BY DialerAssumption, NumberIs DEF One
  <2>7. CASE x # None
    BY <2>2, <2>5, <2>6, <2>7
  <2>8. CASE x = None
    BY <2>2, <2>5, <2>6, <2>8
  <2> QED
    BY <2>7, <2>8
<1> QED
  BY <1>2, <1>3, <1>4, <1>8, <1>9, <1>10, CallStep

----------------------------------------------------------------------------
(* Dialer: closing *)

Unref(e) == [do |-> "unref", e |-> e]

\* What is left to close when a reference is given back before connections are
\* taken out of the cache.
LEMMA ThenUnrefs ==
  ASSUME NEW u \in RefOrNone, NEW t \in Ops, \A i \in 1 .. Len(t) : t[i].do = "unref"
  PROVE  /\ CloseRef(u) \o t \in Ops /\ Shaped(CloseRef(u) \o t) /\ HeldBy(CloseRef(u) \o t) = u
         /\ CloseRef(u) \o t # <<>> => Head(CloseRef(u) \o t).do # "close"
         /\ \A i \in 1 .. Len(CloseRef(u) \o t) :
              \/ u # None /\ (CloseRef(u) \o t)[i].e = u
              \/ \E j \in 1 .. Len(t) : (CloseRef(u) \o t)[i] = t[j]
         /\ \A j \in 1 .. Len(t) : \E i \in 1 .. Len(CloseRef(u) \o t) : (CloseRef(u) \o t)[i] = t[j]
<1> DEFINE o == [do |-> "deref", e |-> u]
           s == CloseRef(u) \o t
<1>1. CASE u = None
  <2>1. s = t
    BY <1>1 DEF CloseRef, Ops
  <2> HIDE DEF s
  <2>2. t # <<>> => Head(t) = t[1] /\ 1 \in 1 .. Len(t)
    BY DEF Ops
  <2>3. HeldBy(t) = None
    BY <2>2 DEF HeldBy
  <2> QED
    BY <1>1, <2>1, <2>2, <2>3 DEF Shaped, s
<1>2. CASE u # None
  <2>1. CloseRef(u) = <<o>> /\ o \in [do : {"deref", "close", "unref"}, e : Entries]
        /\ o.do = "deref" /\ o.e = u
    BY <1>2 DEF CloseRef, RefOrNone
  <2> HIDE DEF o
  <2>2. /\ s \in Ops /\ Len(s) = 1 + Len(t) /\ s[1] = o /\ s # <<>> /\ Head(s) = o
        /\ \A i \in 2 .. Len(s) : s[i] = t[i - 1]
        /\ Len(t) \in Nat
    BY <2>1 DEF Ops
  <2> HIDE DEF s
  <2>3. \A i \in 2 .. Len(s) : i - 1 \in 1 .. Len(t) /\ s[i].do = "unref"
    BY <2>2
  <2>4. Shaped(s) /\ HeldBy(s) = u
    BY <2>1, <2>2, <2>3 DEF Shaped, HeldBy
  <2>5. \A i \in 1 .. Len(s) : s[i].e = u \/ \E j \in 1 .. Len(t) : s[i] = t[j]
    <3> SUFFICES ASSUME NEW i \in 1 .. Len(s) PROVE s[i].e = u \/ \E j \in 1 .. Len(t) : s[i] = t[j]
      OBVIOUS
    <3>1. CASE i = 1
      BY <2>1, <2>2, <3>1
    <3>2. CASE i # 1
      <4>1. i \in 2 .. Len(s)
        BY <2>2, <3>2
      <4> QED
        BY <2>2, <2>3, <4>1
    <3> QED
      BY <3>1, <3>2
  <2>6. \A j \in 1 .. Len(t) : \E i \in 1 .. Len(s) : s[i] = t[j]
    <3> SUFFICES ASSUME NEW j \in 1 .. Len(t) PROVE \E i \in 1 .. Len(s) : s[i] = t[j]
      OBVIOUS
    <3>1. j + 1 \in 2 .. Len(s) /\ j + 1 - 1 = j /\ j + 1 \in 1 .. Len(s)
      BY <2>2
    <3>2. s[j + 1] = t[j + 1 - 1]
      BY <2>2, <3>1
    <3> QED
      BY <3>1, <3>2
  <2> QED
    BY <1>2, <2>1, <2>2, <2>4, <2>5, <2>6 DEF s
<1> QED
  BY <1>1, <1>2

\* What follows the first thing to close.
LEMMA TailIs ==
  ASSUME NEW s \in Ops, s # <<>>, Shaped(s)
  PROVE  /\ Head(s) \in [do : {"deref", "close", "unref"}, e : Entries] /\ Head(s) = s[1] /\ 1 \in 1 .. Len(s)
         /\ Tail(s) \in Ops /\ \A i \in 1 .. Len(Tail(s)) : Tail(s)[i].do = "unref"
         /\ \A i \in 1 .. Len(Tail(s)) : i + 1 \in 1 .. Len(s) /\ Tail(s)[i] = s[i + 1]
         /\ \A i \in 1 .. Len(s) : s[i] = Head(s) \/ \E j \in 1 .. Len(Tail(s)) : s[i] = Tail(s)[j]
         /\ DOMAIN s = 1 .. Len(s)
<1> DEFINE t == Tail(s)
<1>1. /\ Head(s) \in [do : {"deref", "close", "unref"}, e : Entries] /\ Head(s) = s[1] /\ 1 \in 1 .. Len(s)
      /\ DOMAIN s = 1 .. Len(s)
  <2> DEFINE O == [do : {"deref", "close", "unref"}, e : Entries]
  <2>1. s \in Seq(O)
    BY DEF Ops
  <2> HIDE DEF O
  <2>2. Head(s) \in O /\ Head(s) = s[1] /\ 1 \in 1 .. Len(s) /\ DOMAIN s = 1 .. Len(s)
    BY <2>1
  <2> QED
    BY <2>2 DEF O
<1>2. /\ t \in Ops /\ Len(t) = Len(s) - 1 /\ Len(s) \in Nat /\ Len(s) > 0
      /\ \A i \in 1 .. Len(t) : t[i] = s[i + 1]
  BY DEF Ops
<1> HIDE DEF t
<1>3. \A i \in 1 .. Len(t) : i + 1 \in 1 .. Len(s) /\ i + 1 > 1
  BY <1>2
<1>4. \A i \in 1 .. Len(t) : t[i].do = "unref"
  BY <1>2, <1>3 DEF Shaped
<1>5. ASSUME NEW i \in 1 .. Len(s) PROVE s[i] = Head(s) \/ \E j \in 1 .. Len(t) : s[i] = t[j]
  <2>1. CASE i = 1
    BY <1>1, <2>1
  <2>2. CASE i # 1
    <3>1. i - 1 \in 1 .. Len(t) /\ i - 1 + 1 = i
      BY <1>2, <2>2
    <3> QED
      BY <1>2, <3>1
  <2> QED
    BY <2>1, <2>2
<1> QED
  BY <1>1, <1>2, <1>3, <1>4, <1>5 DEF t

\* One more connection to take out of the cache.
LEMMA OneMoreUnref ==
  ASSUME NEW e \in Entries, NEW t \in Ops, \A i \in 1 .. Len(t) : t[i].do = "unref"
  PROVE  /\ <<Unref(e)>> \o t \in Ops
         /\ \A i \in 1 .. Len(<<Unref(e)>> \o t) : (<<Unref(e)>> \o t)[i].do = "unref"
         /\ \A i \in 1 .. Len(<<Unref(e)>> \o t) :
              (<<Unref(e)>> \o t)[i] = Unref(e) \/ \E j \in 1 .. Len(t) : (<<Unref(e)>> \o t)[i] = t[j]
         /\ \A j \in 1 .. Len(t) : \E i \in 1 .. Len(<<Unref(e)>> \o t) : (<<Unref(e)>> \o t)[i] = t[j]
         /\ \E i \in 1 .. Len(<<Unref(e)>> \o t) : (<<Unref(e)>> \o t)[i] = Unref(e)
<1> DEFINE o == Unref(e)
           s == <<o>> \o t
<1>1. o \in [do : {"deref", "close", "unref"}, e : Entries] /\ o.do = "unref"
  BY DEF Unref
<1> HIDE DEF o
<1>2. /\ s \in Ops /\ Len(s) = 1 + Len(t) /\ s[1] = o
      /\ \A i \in 2 .. Len(s) : s[i] = t[i - 1]
      /\ Len(t) \in Nat
  BY <1>1 DEF Ops
<1> HIDE DEF s
<1>3. ASSUME NEW i \in 1 .. Len(s) PROVE s[i] = o \/ \E j \in 1 .. Len(t) : s[i] = t[j]
  <2>1. CASE i = 1
    BY <1>2, <2>1
  <2>2. CASE i # 1
    <3>1. i \in 2 .. Len(s) /\ i - 1 \in 1 .. Len(t)
      BY <1>2, <2>2
    <3> QED
      BY <1>2, <3>1
  <2> QED
    BY <2>1, <2>2
<1>4. \A i \in 1 .. Len(s) : s[i].do = "unref"
  BY <1>1, <1>3
<1>5. \A j \in 1 .. Len(t) : \E i \in 1 .. Len(s) : s[i] = t[j]
  <2> SUFFICES ASSUME NEW j \in 1 .. Len(t) PROVE \E i \in 1 .. Len(s) : s[i] = t[j]
    OBVIOUS
  <2>1. j + 1 \in 2 .. Len(s) /\ j + 1 - 1 = j /\ j + 1 \in 1 .. Len(s)
    BY <1>2
  <2>2. s[j + 1] = t[j + 1 - 1]
    BY <1>2, <2>1
  <2> QED
    BY <2>1, <2>2
<1>6. 1 \in 1 .. Len(s)
  BY <1>2
<1> QED
  BY <1>2, <1>3, <1>4, <1>5, <1>6 DEF s, o
\* What a step of closing does to the connection e it is about, to the cache and
\* to what is left to close.
Outcome(e, ops, rest) ==
  /\ entry' \in [Entries -> EntryType] /\ conns' \in [Keys -> RefOrNone]
  /\ \A x \in Entries \ {e} : entry'[x] = entry[x]
  /\ \/ entry'[e].raw = entry[e].raw /\ entry'[e].inner = entry[e].inner /\ entry'[e].aux = entry[e].aux
     \/ entry'[e].raw = "closed" /\ entry'[e].inner = None /\ entry'[e].aux = None
  /\ HeldBy(ops) = (IF Head(ops).do = "deref" THEN e ELSE None)
  /\ IF Head(ops).do = "deref"
     THEN entry'[e].count = (IF entry[e].count = 1 THEN -1 ELSE entry[e].count - 1)
     ELSE entry'[e].count = entry[e].count
  /\ entry'[e].count = -1 => entry'[e].raw = "closed"
  /\ Head(ops).do # "close" /\ entry'[e].count > 0 => entry'[e].raw = entry[e].raw
  /\ Head(ops).do = "close" => entry'[e].raw = "closed"
  /\ \A k \in Keys : conns'[k] \in {conns[k], None}
  /\ \A x \in Entries :
       One(HeldBy(rest) = x) + One(entry'[e].inner = x) + One(entry'[e].aux = x)
         = One(entry[e].inner = x) + One(entry[e].aux = x)
  /\ rest \in Ops /\ Shaped(rest) /\ (rest # <<>> => Head(rest).do # "close")
  /\ \A i \in 1 .. Len(rest) : Made(rest[i].e)
  /\ \A k \in Keys : conns'[k] # None /\ entry'[conns'[k]].count = -1 =>
       \/ \E i \in DOMAIN rest : rest[i] = Unref(conns'[k])
       \/ entry[conns[k]].count = -1 /\ \A i \in DOMAIN ops : ops[i] # Unref(conns[k])

\* What a connection that is closed held: one reference at most.
LEMMA UndoIs ==
  ASSUME DialerInv, NEW e \in Entries
  PROVE  \E u \in RefOrNone :
           /\ Undo(e) = CloseRef(u) /\ (u # None => Made(u))
           /\ \A x \in Entries : One(u = x) = One(entry[e].inner = x) + One(entry[e].aux = x)
<1>1. /\ entry[e] \in EntryType /\ entry[e].inner \in RefOrNone /\ entry[e].aux \in RefOrNone
      /\ None \notin Entries
      /\ entry[e].inner # None => Made(entry[e].inner) /\ e[2] = "multi"
      /\ entry[e].aux # None => Made(entry[e].aux) /\ e[2] \in {"grpc", "lgrpc"}
  BY DialerAssumption DEF DialerInv, DialerTypes, EntryType, EntriesOK
<1>2. \A x \in Entries : One(None = x) = 0
  BY <1>1 DEF One
<1>3. CASE entry[e].inner = None
  <2>1. Undo(e) = CloseRef(entry[e].aux)
    <3>1. CloseRef(entry[e].inner) = <<>> /\ CloseRef(entry[e].aux) \in Ops
      BY <1>1, <1>3, CloseRefIs
    <3>2. \A s \in Ops : <<>> \o s = s
      BY DEF Ops
    <3> QED
      BY <3>1, <3>2 DEF Undo
  <2>2. \A x \in Entries : One(entry[e].aux = x) = One(entry[e].inner = x) + One(entry[e].aux = x)
    BY <1>1, <1>2, <1>3 DEF One
  <2> QED
    BY <1>1, <2>1, <2>2
<1>4. CASE entry[e].inner # None
  <2>0. entry[e].aux = None
    BY <1>1, <1>4
  <2>1. Undo(e) = CloseRef(entry[e].inner)
    <3>1. CloseRef(entry[e].aux) = <<>> /\ CloseRef(entry[e].inner) \in Ops
      BY <1>1, <2>0, CloseRefIs
    <3>2. \A s \in Ops : s \o <<>> = s
      BY DEF Ops
    <3> QED
      BY <3>1, <3>2 DEF Undo
  <2>2. \A x \in Entries : One(entry[e].inner = x) = One(entry[e].inner = x) + One(entry[e].aux = x)
    BY <1>1, <1>2, <2>0 DEF One
  <2> QED
    BY <1>1, <2>1, <2>2
<1> QED
  BY <1>3, <1>4

\* The steps of closing have that outcome.
LEMMA CloseStepIs ==
  ASSUME DialerInv, NEW ops \in Ops, ops # <<>>, Shaped(ops), \A i \in 1 .. Len(ops) : Made(ops[i].e),
         NEW e, e = Head(ops).e, ops[1].do = "deref" => entry[e].count >= 1,
         NEW rest, CloseStep(ops, rest)
  PROVE  Outcome(e, ops, rest)
<1> DEFINE t == Tail(ops)
<1>1. /\ Head(ops) = ops[1] /\ e \in Entries /\ Made(e) /\ t \in Ops
      /\ Head(ops).do \in {"deref", "close", "unref"}
      /\ \A i \in 1 .. Len(t) : t[i].do = "unref" /\ Made(t[i].e)
      /\ \A i \in 1 .. Len(ops) : ops[i] = Head(ops) \/ \E j \in 1 .. Len(t) : ops[i] = t[j]
      /\ DOMAIN ops = 1 .. Len(ops)
  BY TailIs
<1>2. /\ entry \in [Entries -> EntryType] /\ entry[e] \in EntryType /\ conns \in [Keys -> RefOrNone]
      /\ None \notin Entries /\ entry[e].count \in Nat \cup {-1} /\ None \in RefOrNone
      /\ entry[e].count = -1 => entry[e].raw = "closed"
      /\ \A k \in Keys : conns[k] # None => conns[k] \in Entries /\ conns[k][2] = k
  BY <1>1, DialerAssumption DEF DialerInv, DialerTypes, EntryType, EntriesOK, ConnsOK, RefOrNone
<1>3. PICK u \in RefOrNone :
           /\ Undo(e) = CloseRef(u) /\ (u # None => Made(u))
           /\ \A x \in Entries : One(u = x) = One(entry[e].inner = x) + One(entry[e].aux = x)
  BY <1>1, UndoIs
<1>4. /\ HeldBy(ops) = (IF Head(ops).do = "deref" THEN e ELSE None)
      /\ HeldBy(t) = None /\ (t # <<>> => Head(t).do = "unref") /\ Shaped(t)
      /\ DOMAIN t = 1 .. Len(t)
  <2>1. t # <<>> => Head(t) = t[1] /\ 1 \in 1 .. Len(t)
    BY <1>1 DEF Ops
  <2>2. DOMAIN t = 1 .. Len(t)
    BY <1>1 DEF Ops
  <2> QED
    BY <1>1, <2>1, <2>2 DEF HeldBy, Shaped
<1>5. \A x \in Entries : /\ One(None = x) = 0 /\ One(u = x) \in Int
                         /\ One(entry[e].inner = x) \in Int /\ One(entry[e].aux = x) \in Int
  BY <1>2 DEF One
<1> HIDE DEF t
\* the order of what is left: all of it stays but the first
<1>6. ASSUME NEW k \in Keys, conns[k] # None, entry[conns[k]].count = -1, Head(ops) # Unref(conns[k])
      PROVE  \/ \E j \in 1 .. Len(t) : t[j] = Unref(conns[k])
             \/ \A i \in DOMAIN ops : ops[i] # Unref(conns[k])
  BY <1>1, <1>6
<1>7. CASE Deref(ops, rest) /\ entry[e].count = 1
  <2> DEFINE v == <<Unref(e)>> \o t
  <2>1. /\ Head(ops).do = "deref" /\ conns' = conns
        /\ entry' = [Shut(e) EXCEPT ![e].count = -1]
        /\ rest = Undo(e) \o <<Unref(e)>> \o t
    BY <1>7 DEF Deref, Unref, t
  <2>2. /\ v \in Ops /\ \A i \in 1 .. Len(v) : v[i].do = "unref"
        /\ \A i \in 1 .. Len(v) : v[i] = Unref(e) \/ \E j \in 1 .. Len(t) : v[i] = t[j]
        /\ \A j \in 1 .. Len(t) : \E i \in 1 .. Len(v) : v[i] = t[j]
        /\ \E i \in 1 .. Len(v) : v[i] = Unref(e)
    BY <1>1, OneMoreUnref
  <2>3. rest = CloseRef(u) \o v
    <3>1. Unref(e) \in [do : {"deref", "close", "unref"}, e : Entries]
      BY <1>1 DEF Unref
    <3>2. CloseRef(u) \in Ops /\ <<Unref(e)>> \in Ops
      BY <3>1, CloseRefIs DEF Ops
    <3>3. \A a, b, c \in Ops : (a \o b) \o c = a \o (b \o c)
      BY DEF Ops
    <3>4. rest = (CloseRef(u) \o <<Unref(e)>>) \o t /\ t \in Ops
      BY <1>1, <1>3, <2>1
    <3> QED
      BY <3>2, <3>3, <3>4
  <2> HIDE DEF v
  <2>4. /\ rest \in Ops /\ Shaped(rest) /\ HeldBy(rest) = u
        /\ rest # <<>> => Head(rest).do # "close"
        /\ \A i \in 1 .. Len(rest) : \/ u # None /\ rest[i].e = u
                                     \/ \E j \in 1 .. Len(v) : rest[i] = v[j]
        /\ \A j \in 1 .. Len(v) : \E i \in 1 .. Len(rest) : rest[i] = v[j]
    BY <2>2, <2>3, ThenUnrefs
  <2>5. DOMAIN rest = 1 .. Len(rest)
    BY <2>4 DEF Ops
  <2>6. Unref(e).e = e
    BY DEF Unref
  <2>7. \A i \in 1 .. Len(rest) : Made(rest[i].e)
    <3> SUFFICES ASSUME NEW i \in 1 .. Len(rest), ~(u # None /\ rest[i].e = u) PROVE Made(rest[i].e)
      BY <1>3
    <3>1. PICK j \in 1 .. Len(v) : rest[i] = v[j]
      BY <2>4
    <3>2. CASE v[j] = Unref(e)
      BY <1>1, <2>6, <3>1, <3>2
    <3>3. CASE v[j] # Unref(e)
      <4>1. PICK l \in 1 .. Len(t) : v[j] = t[l]
        BY <2>2, <3>3
      <4> QED
        BY <1>1, <3>1, <4>1
    <3> QED
      BY <3>2, <3>3
  <2>8. /\ entry' \in [Entries -> EntryType] /\ \A x \in Entries \ {e} : entry'[x] = entry[x]
        /\ entry'[e].raw = "closed" /\ entry'[e].inner = None /\ entry'[e].aux = None
        /\ entry'[e].count = -1
    BY <1>1, <1>2, <2>1 DEF Shut, EntryType
  <2>9. ASSUME NEW k \in Keys, conns'[k] # None, entry'[conns'[k]].count = -1
        PROVE  \/ \E i \in DOMAIN rest : rest[i] = Unref(conns'[k])
               \/ entry[conns[k]].count = -1 /\ \A i \in DOMAIN ops : ops[i] # Unref(conns[k])
    <3>1. CASE conns[k] = e
      BY <2>1, <2>2, <2>4, <2>5, <3>1
    <3>2. CASE conns[k] # e
      <4>1. conns[k] \in Entries /\ entry[conns[k]].count = -1
        BY <1>2, <2>1, <2>8, <2>9, <3>2
      <4>2. Head(ops) # Unref(conns[k])
        BY <2>1 DEF Unref
      <4>3. CASE \E j \in 1 .. Len(t) : t[j] = Unref(conns[k])
        <5>1. PICK j \in 1 .. Len(t) : t[j] = Unref(conns[k])
          BY <4>3
        <5>2. PICK l \in 1 .. Len(v) : v[l] = t[j]
          BY <2>2
        <5>3. PICK i \in 1 .. Len(rest) : rest[i] = v[l]
          BY <2>4
        <5> QED
          BY <2>1, <2>5, <5>1, <5>2, <5>3
      <4> QED
        BY <1>6, <2>1, <2>9, <4>1, <4>2, <4>3
    <3> QED
      BY <3>1, <3>2
  <2>10. ASSUME NEW x \in Entries
         PROVE  One(HeldBy(rest) = x) + One(entry'[e].inner = x) + One(entry'[e].aux = x)
         = One(entry[e].inner = x) + One(entry[e].aux = x)
    <3>1. One(HeldBy(rest) = x) = One(u = x) /\ One(entry'[e].inner = x) = 0 /\ One(entry'[e].aux = x) = 0
      BY <1>5, <2>4, <2>8
    <3> QED
      BY <1>3, <1>5, <3>1
  <2>11. \A k \in Keys : conns'[k] \in {conns[k], None}
    BY <2>1
  <2>12. conns' \in [Keys -> RefOrNone]
    BY <1>2, <2>1
  <2>13. /\ IF Head(ops).do = "deref"
            THEN entry'[e].count = (IF entry[e].count = 1 THEN -1 ELSE entry[e].count - 1)
            ELSE entry'[e].count = entry[e].count
         /\ entry'[e].count = -1 => entry'[e].raw = "closed"
         /\ Head(ops).do # "close" /\ entry'[e].count > 0 => entry'[e].raw = entry[e].raw
         /\ Head(ops).do = "close" => entry'[e].raw = "closed"
    BY <1>7, <2>1, <2>8
  <2> QED
    BY <1>1, <1>4, <2>4, <2>7, <2>8, <2>9, <2>10, <2>11, <2>12, <2>13 DEF Outcome
<1>8. CASE Deref(ops, rest) /\ entry[e].count # 1
  <2>1. /\ Head(ops).do = "deref" /\ conns' = conns /\ rest = t
        /\ entry' = [entry EXCEPT ![e].count = @ - 1]
    BY <1>8 DEF Deref, t
  <2>2. entry[e].count \in Nat /\ entry[e].count > 1
    BY <1>1, <1>2, <1>8, <2>1
  <2>8. /\ entry' \in [Entries -> EntryType] /\ \A x \in Entries \ {e} : entry'[x] = entry[x]
        /\ entry'[e].raw = entry[e].raw /\ entry'[e].inner = entry[e].inner /\ entry'[e].aux = entry[e].aux
        /\ entry'[e].count = entry[e].count - 1 /\ entry'[e].count > 0
    <3>1. entry[e].count - 1 \in Nat \cup {-1} /\ entry[e].count - 1 > 0
      BY <2>2
    <3> QED
      BY <1>1, <1>2, <2>1, <3>1 DEF EntryType
  <2>9. ASSUME NEW k \in Keys, conns'[k] # None, entry'[conns'[k]].count = -1
        PROVE  \/ \E i \in DOMAIN rest : rest[i] = Unref(conns'[k])
               \/ entry[conns[k]].count = -1 /\ \A i \in DOMAIN ops : ops[i] # Unref(conns[k])
    <3>1. conns[k] \in Entries /\ conns[k] # e /\ entry[conns[k]].count = -1
      BY <1>2, <2>1, <2>8, <2>9
    <3>2. Head(ops) # Unref(conns[k])
      BY <2>1 DEF Unref
    <3> QED
      BY <1>4, <1>6, <2>1, <2>9, <3>1, <3>2
  <2>10. ASSUME NEW x \in Entries
         PROVE  One(HeldBy(rest) = x) + One(entry'[e].inner = x) + One(entry'[e].aux = x)
         = One(entry[e].inner = x) + One(entry[e].aux = x)
    <3>1. One(HeldBy(rest) = x) = 0
      BY <1>4, <1>5, <2>1
    <3> QED
      BY <1>5, <2>8, <3>1
  <2>11. \A k \in Keys : conns'[k] \in {conns[k], None}
    BY <2>1
  <2>12. conns' \in [Keys -> RefOrNone]
    BY <1>2, <2>1
  <2> QED
    BY <1>1, <1>4, <1>8, <2>1, <2>8, <2>9, <2>10, <2>11, <2>12 DEF Outcome
<1>9. CASE CloseActual(ops, rest)
  <2>1. /\ Head(ops).do = "close" /\ conns' = conns /\ rest = CloseRef(u) \o t
        /\ entry' = Shut(e)
    BY <1>3, <1>9 DEF CloseActual, t
  <2>4. /\ rest \in Ops /\ Shaped(rest) /\ HeldBy(rest) = u
        /\ rest # <<>> => Head(rest).do # "close"
        /\ \A i \in 1 .. Len(rest) : \/ u # None /\ rest[i].e = u
                                     \/ \E j \in 1 .. Len(t) : rest[i] = t[j]
        /\ \A j \in 1 .. Len(t) : \E i \in 1 .. Len(rest) : rest[i] = t[j]
    BY <1>1, <2>1, ThenUnrefs
  <2>5. DOMAIN rest = 1 .. Len(rest)
    BY <2>4 DEF Ops
  <2>7. \A i \in 1 .. Len(rest) : Made(rest[i].e)
    BY <1>1, <1>3, <2>4
  <2>8. /\ entry' \in [Entries -> EntryType] /\ \A x \in Entries \ {e} : entry'[x] = entry[x]
        /\ entry'[e].raw = "closed" /\ entry'[e].inner = None /\ entry'[e].aux = None
        /\ entry'[e].count = entry[e].count
    BY <1>1, <1>2, <2>1 DEF Shut, EntryType
  <2>9. ASSUME NEW k \in Keys, conns'[k] # None, entry'[conns'[k]].count = -1
        PROVE  \/ \E i \in DOMAIN rest : rest[i] = Unref(conns'[k])
               \/ entry[conns[k]].count = -1 /\ \A i \in DOMAIN ops : ops[i] # Unref(conns[k])
    <3>1. conns[k] \in Entries /\ entry[conns[k]].count = -1
      BY <1>2, <2>1, <2>8, <2>9
    <3>2. Head(ops) # Unref(conns[k])
      BY <2>1 DEF Unref
    <3>3. CASE \E j \in 1 .. Len(t) : t[j] = Unref(conns[k])
      <4>1. PICK j \in 1 .. Len(t) : t[j] = Unref(conns[k])
        BY <3>3
      <4>2. PICK i \in 1 .. Len(rest) : rest[i] = t[j]
        BY <2>4
      <4> QED
        BY <2>1, <2>5, <4>1, <4>2
    <3> QED
      BY <1>6, <2>1, <2>9, <3>1, <3>2, <3>3
  <2>10. ASSUME NEW x \in Entries
         PROVE  One(HeldBy(rest) = x) + One(entry'[e].inner = x) + One(entry'[e].aux = x)
         = One(entry[e].inner = x) + One(entry[e].aux = x)
    <3>1. One(HeldBy(rest) = x) = One(u = x) /\ One(entry'[e].inner = x) = 0 /\ One(entry'[e].aux = x) = 0
      BY <1>5, <2>4, <2>8
    <3> QED
      BY <1>3, <1>5, <3>1
  <2>11. \A k \in Keys : conns'[k] \in {conns[k], None}
    BY <2>1
  <2>12. conns' \in [Keys -> RefOrNone]
    BY <1>2, <2>1
  <2> QED
    BY <1>1, <1>2, <1>4, <2>1, <2>4, <2>7, <2>8, <2>9, <2>10, <2>11, <2>12 DEF Outcome
<1>10. CASE OnUnref(ops, rest)
  <2>1. /\ Head(ops).do = "unref" /\ rest = t /\ entry' = entry
        /\ conns' = [conns EXCEPT ![e[2]] = None] /\ e[2] \in Keys
    BY <1>1, <1>10, Places DEF OnUnref, t
  <2>2. Head(ops) = Unref(e)
    <3>1. Head(ops) \in [do : {"deref", "close", "unref"}, e : Entries]
      BY TailIs
    <3> QED
      BY <2>1, <3>1 DEF Unref
  <2>9. ASSUME NEW k \in Keys, conns'[k] # None, entry'[conns'[k]].count = -1
        PROVE  \/ \E i \in DOMAIN rest : rest[i] = Unref(conns'[k])
               \/ entry[conns[k]].count = -1 /\ \A i \in DOMAIN ops : ops[i] # Unref(conns[k])
    <3>1. k # e[2] /\ conns'[k] = conns[k]
      BY <1>2, <2>1, <2>9
    <3>2. conns[k] # e /\ entry[conns[k]].count = -1
      BY <1>2, <2>1, <2>9, <3>1
    <3>3. Head(ops) # Unref(conns[k])
      BY <2>2, <3>2 DEF Unref
    <3> QED
      BY <1>4, <1>6, <2>1, <2>9, <3>1, <3>2, <3>3
  <2>10. ASSUME NEW x \in Entries
         PROVE  One(HeldBy(rest) = x) + One(entry'[e].inner = x) + One(entry'[e].aux = x)
         = One(entry[e].inner = x) + One(entry[e].aux = x)
    <3>1. One(HeldBy(rest) = x) = 0
      BY <1>4, <1>5, <2>1
    <3> QED
      BY <1>5, <2>1, <3>1
  <2>11. \A k \in Keys : conns'[k] \in {conns[k], None}
    BY <1>2, <2>1
  <2>12. conns' \in [Keys -> RefOrNone]
    BY <1>2, <2>1
  <2> QED
    BY <1>1, <1>2, <1>4, <2>1, <2>9, <2>10, <2>11, <2>12 DEF Outcome
<1> QED
  BY <1>7, <1>8, <1>9, <1>10 DEF CloseStep
\* A step changes what is held at one more place than in a connection e.
LEMMA EntryChanges ==
  ASSUME NEW e \in Entries, NEW a \in Holders, a # <<"inner", e>>, a # <<"cred", e>>,
         \A h \in Holders \ {a, <<"inner", e>>, <<"cred", e>>} : hold'[h] = hold[h], NEW x
  PROVE  Number(hold', x) = Number(hold, x)
           - One(hold[a] = x) - One(entry[e].inner = x) - One(entry[e].aux = x)
           + One(hold'[a] = x) + One(entry'[e].inner = x) + One(entry'[e].aux = x)
<1> DEFINE b == <<"inner", e>>
           c == <<"cred", e>>
<1>1. b \in Holders /\ c \in Holders /\ b # c
  BY Places
<1>2. hold[b] = entry[e].inner /\ hold[c] = entry[e].aux /\ hold'[b] = entry'[e].inner /\ hold'[c] = entry'[e].aux
  BY HoldIs, HoldNext
<1>3. hold = [h \in Holders |-> hold[h]]
  BY HoldIs
<1>5. a # b /\ a # c /\ \A h \in Holders \ {a, b, c} : hold'[h] = hold[h]
  OBVIOUS
<1> HIDE DEF b, c
<1>4. Number(hold', x) = Number(hold, x) - One(hold[a] = x) - One(hold[b] = x) - One(hold[c] = x)
                           + One(hold'[a] = x) + One(hold'[b] = x) + One(hold'[c] = x)
  BY <1>1, <1>3, <1>5, Changes
<1> QED
  BY <1>2, <1>4

\* What the other goroutines hold stays when one goroutine (or none) and one
\* connection (or none) change.
LEMMA ElsewhereHeld ==
  ASSUME NEW e \in Entries, NEW P, \A q \in Procs \ P : proc'[q] = proc[q],
         \A x \in Entries \ {e} : entry'[x] = entry[x], NEW h \in Holders,
         \A q \in P : h \notin {<<"conn", q>>, <<"aux", q>>, <<"op", q>>},
         h \notin {<<"inner", e>>, <<"cred", e>>},
         h # <<"closer", None>> \/ closer' = closer
  PROVE  hold'[h] = hold[h]
<1>1. CASE \E q \in Procs : h \in {<<"conn", q>>, <<"aux", q>>, <<"op", q>>}
  <2>1. PICK q \in Procs : h \in {<<"conn", q>>, <<"aux", q>>, <<"op", q>>}
    BY <1>1
  <2>2. proc'[q] = proc[q]
    BY <2>1
  <2>3. hold'[<<"conn", q>>] = hold[<<"conn", q>>] /\ hold'[<<"aux", q>>] = hold[<<"aux", q>>]
        /\ hold'[<<"op", q>>] = hold[<<"op", q>>]
    BY <2>2, HoldIs, HoldNext
  <2> QED
    BY <2>1, <2>3
<1>2. CASE \E x \in Entries : h \in {<<"inner", x>>, <<"cred", x>>}
  <2>1. PICK x \in Entries : h \in {<<"inner", x>>, <<"cred", x>>}
    BY <1>2
  <2>2. entry'[x] = entry[x]
    BY <2>1
  <2>3. hold'[<<"inner", x>>] = hold[<<"inner", x>>] /\ hold'[<<"cred", x>>] = hold[<<"cred", x>>]
    BY <2>2, HoldIs, HoldNext
  <2> QED
    BY <2>1, <2>3
<1>3. CASE h = <<"closer", None>>
  BY <1>3, HoldIs, HoldNext
<1> QED
  BY <1>1, <1>2, <1>3, Places

\* What a goroutine that does nothing relies on.
LEMMA Undisturbed ==
  ASSUME DialerInv, NEW q \in Procs, proc'[q] = proc[q],
         \A x \in Entries : Made(x) => Made(x)' /\ (entry'[x].count = 0 <=> entry[x].count = 0),
         \A k \in Keys : MadeBy[k] = q[2] /\ ~Made(<<q[1], k>>) => ~Made(<<q[1], k>>)'
  PROVE  ProcOK(q)'
<1>1. /\ ProcOK(q) /\ proc[q].conn \in RefOrNone /\ proc[q].aux \in RefOrNone /\ proc[q].ops \in Ops
  BY OfProc
<1>2. /\ \A i \in 1 .. Len(proc[q].ops) : proc[q].ops[i].e \in Entries
      /\ proc[q].ops # <<>> => Head(proc[q].ops) = proc[q].ops[1] /\ 1 \in 1 .. Len(proc[q].ops)
  <2> DEFINE O == [do : {"deref", "close", "unref"}, e : Entries]
  <2>1. proc[q].ops \in Seq(O)
    BY <1>1 DEF Ops
  <2> HIDE DEF O
  <2>2. /\ \A i \in 1 .. Len(proc[q].ops) : proc[q].ops[i] \in O
        /\ proc[q].ops # <<>> => Head(proc[q].ops) = proc[q].ops[1] /\ 1 \in 1 .. Len(proc[q].ops)
    BY <2>1
  <2> QED
    BY <2>2 DEF O
<1>3. proc[q].conn # None => Made(proc[q].conn) /\ proc[q].conn \in Entries
  BY <1>1 DEF ProcOK, RefOrNone
<1>4. proc[q].aux # None => Made(proc[q].aux) /\ proc[q].aux \in Entries
  BY <1>1 DEF ProcOK, RefOrNone
<1>5. proc[q].at \in {"ref", "lost"} => proc[q].conn # None /\ entry'[proc[q].conn].count # 0
  <2>1. proc[q].at \in {"ref", "lost"} => proc[q].conn # None /\ entry[proc[q].conn].count # 0
    BY <1>1 DEF ProcOK, At
  <2> QED
    BY <1>3, <2>1
<1>6. \A i \in 1 .. Len(proc[q].ops) : Made(proc[q].ops[i].e) /\ Made(proc[q].ops[i].e)'
  BY <1>1, <1>2 DEF ProcOK
<1>7. proc[q].ops # <<>> /\ Head(proc[q].ops).do = "close" => entry'[Head(proc[q].ops).e].count = 0
  BY <1>1, <1>2, <1>6 DEF ProcOK
<1>8. \A k \in Keys : MadeBy[k] = q[2] /\ Rank[k] >= Level(proc[q].at, proc[q].key) => ~Made(<<q[1], k>>)'
  BY <1>1 DEF ProcOK
<1>9. (proc[q].conn # None => Made(proc[q].conn)') /\ (proc[q].aux # None => Made(proc[q].aux)')
  BY <1>3, <1>4
<1>10. At(q, proc[q]) /\ Shaped(proc[q].ops)
  BY <1>1 DEF ProcOK
<1> QED
  BY <1>5, <1>6, <1>7, <1>8, <1>9, <1>10 DEF ProcOK, Made
\* A step of closing keeps what the invariant says of connections, the cache and
\* the counts.
LEMMA AfterClosing ==
  ASSUME DialerInv, NEW e \in Entries, NEW ops, NEW rest, Made(e), Outcome(e, ops, rest),
         Head(ops).do = "deref" => entry[e].count >= 1,
         NEW a \in Holders, a # <<"inner", e>>, a # <<"cred", e>>, hold[a] = HeldBy(ops), hold'[a] = HeldBy(rest),
         \A h \in Holders \ {a, <<"inner", e>>, <<"cred", e>>} : hold'[h] = hold[h],
         \A x \in Entries : Closes(x) => Closes(x)' \/ (x = e /\ Head(ops).do = "close"),
         closer'.at = closer.at, closer.at = "idle" /\ Head(ops).do = "close" => entry[e].count = 0
  PROVE  /\ \A x \in Entries : (Made(x)' <=> Made(x)) /\ (entry'[x].count = 0 <=> entry[x].count = 0)
         /\ ConnsOK' /\ CountsOK' /\ EntriesOK'
<1>1. /\ entry \in [Entries -> EntryType] /\ entry' \in [Entries -> EntryType]
      /\ conns \in [Keys -> RefOrNone] /\ conns' \in [Keys -> RefOrNone] /\ None \notin Entries
      /\ entry[e].count \in Nat \cup {-1} /\ entry'[e].count \in Nat \cup {-1}
      /\ \A x \in Entries \ {e} : entry'[x] = entry[x]
  BY DialerAssumption DEF DialerInv, DialerTypes, EntryType, Outcome
<1>2. entry'[e].count = 0 <=> entry[e].count = 0
  BY <1>1 DEF Outcome
<1>3. \A x \in Entries : (Made(x)' <=> Made(x)) /\ (entry'[x].count = 0 <=> entry[x].count = 0)
  <2>1. Made(e)'
    BY DEF Outcome, Made
  <2> QED
    BY <1>1, <1>2, <2>1 DEF Made
<1>8. \A x \in Entries : entry'[x].raw # "none" <=> entry[x].raw # "none"
  BY <1>3 DEF Made
<1>4. ConnsOK'
  <2> SUFFICES ASSUME NEW k \in Keys, conns'[k] # None
               PROVE  conns'[k][2] = k /\ entry'[conns'[k]].raw # "none" /\ entry'[conns'[k]].count # 0
    BY DEF ConnsOK, Made
  <2>1. conns'[k] = conns[k]
    BY DEF Outcome
  <2>2. conns[k][2] = k /\ Made(conns[k]) /\ entry[conns[k]].count # 0 /\ conns[k] \in Entries
    BY <1>1, <2>1 DEF DialerInv, ConnsOK, RefOrNone
  <2> QED
    BY <1>3, <1>8, <2>1, <2>2 DEF Made
<1>5. ASSUME NEW x \in Entries PROVE Number(hold', x) = Number(hold, x) - One(HeldBy(ops) = x)
  <2>1. Number(hold', x) = Number(hold, x)
           - One(HeldBy(ops) = x) - One(entry[e].inner = x) - One(entry[e].aux = x)
           + One(HeldBy(rest) = x) + One(entry'[e].inner = x) + One(entry'[e].aux = x)
    BY EntryChanges
  <2>2. One(HeldBy(rest) = x) + One(entry'[e].inner = x) + One(entry'[e].aux = x)
         = One(entry[e].inner = x) + One(entry[e].aux = x)
    BY DEF Outcome
  <2>3. /\ One(HeldBy(ops) = x) \in Int /\ One(entry[e].inner = x) \in Int /\ One(entry[e].aux = x) \in Int
        /\ One(HeldBy(rest) = x) \in Int /\ One(entry'[e].inner = x) \in Int /\ One(entry'[e].aux = x) \in Int
        /\ Number(hold, x) \in Int
    BY NumberIs DEF One
  <2> QED
    BY <2>1, <2>2, <2>3
<1>6. CountsOK'
  <2> SUFFICES ASSUME NEW x \in Entries
               PROVE  /\ entry'[x].count = -1 => Number(hold', x) = 0
                      /\ entry'[x].count # -1 => Number(hold', x) <= entry'[x].count
                      /\ entry'[x].count # -1 /\ x[2] \notin Ext => Number(hold', x) = entry'[x].count
    BY DEF CountsOK
  <2>1. /\ entry[x].count = -1 => Number(hold, x) = 0
        /\ entry[x].count # -1 => Number(hold, x) <= entry[x].count
        /\ entry[x].count # -1 /\ x[2] \notin Ext => Number(hold, x) = entry[x].count
        /\ Number(hold, x) \in Nat /\ Number(hold', x) \in Nat
    BY NumberIs DEF DialerInv, CountsOK
  <2>2. CASE x = e /\ Head(ops).do = "deref"
    <3>1. HeldBy(ops) = x /\ One(HeldBy(ops) = x) = 1
      BY <2>2 DEF Outcome, One
    <3>2. Number(hold', x) = Number(hold, x) - 1
      BY <1>5, <3>1
    <3>3. entry'[x].count = (IF entry[x].count = 1 THEN -1 ELSE entry[x].count - 1) /\ entry[x].count >= 1
      BY <2>2 DEF Outcome
    <3>4. entry[x].count \in Nat
      BY <1>1, <2>2, <3>3
    <3> QED
      BY <2>1, <3>2, <3>3, <3>4
  <2>3. CASE ~(x = e /\ Head(ops).do = "deref")
    <3>1. HeldBy(ops) # x /\ One(HeldBy(ops) = x) = 0
      BY <1>1, <2>3 DEF Outcome, One
    <3>2. Number(hold', x) = Number(hold, x)
      BY <1>5, <2>1, <3>1
    <3>3. entry'[x].count = entry[x].count
      BY <1>1, <2>3 DEF Outcome
    <3> QED
      BY <2>1, <3>2, <3>3
  <2> QED
    BY <2>2, <2>3
<1>7. EntriesOK'
  <2> SUFFICES ASSUME NEW x \in Entries
      PROVE  /\ entry'[x].raw = "none" => entry'[x] = NoEntry
             /\ entry'[x].inner # None => /\ x[2] = "multi" /\ entry'[x].raw = "open"
                                          /\ entry'[x].inner[2] \in Top /\ entry'[entry'[x].inner].raw # "none"
             /\ entry'[x].aux # None => /\ x[2] \in {"grpc", "lgrpc"} /\ entry'[x].raw = "open"
                                        /\ entry'[x].aux[2] \in Ext /\ entry'[entry'[x].aux].raw # "none"
             /\ entry'[x].raw = "open" /\ x[2] = "multi" => entry'[x].inner # None
             /\ entry'[x].count = -1 => entry'[x].raw = "closed"
             /\ entry'[x].count = 0 /\ entry'[x].raw = "open" => Closes(x)'
             /\ closer'.at = "idle" /\ entry'[x].count > 0 => entry'[x].raw = "open"
    BY DEF EntriesOK, Made
  <2>1. /\ entry[x].raw = "none" => entry[x] = NoEntry
        /\ entry[x].inner # None => /\ x[2] = "multi" /\ entry[x].raw = "open"
                                    /\ entry[x].inner[2] \in Top /\ Made(entry[x].inner)
        /\ entry[x].aux # None => /\ x[2] \in {"grpc", "lgrpc"} /\ entry[x].raw = "open"
                                  /\ entry[x].aux[2] \in Ext /\ Made(entry[x].aux)
        /\ entry[x].raw = "open" /\ x[2] = "multi" => entry[x].inner # None
        /\ entry[x].count = -1 => entry[x].raw = "closed"
        /\ entry[x].count = 0 /\ entry[x].raw = "open" => Closes(x)
        /\ closer.at = "idle" /\ entry[x].count > 0 => entry[x].raw = "open"
    BY DEF DialerInv, EntriesOK
  <2>2. /\ entry[x].inner # None => entry'[entry[x].inner].raw # "none"
        /\ entry[x].aux # None => entry'[entry[x].aux].raw # "none"
    <3>1. entry[x].inner \in RefOrNone /\ entry[x].aux \in RefOrNone
      BY <1>1 DEF EntryType
    <3> QED
      BY <1>8, <2>1, <3>1 DEF RefOrNone, Made
  <2>3. CASE x # e
    <3>1. entry'[x] = entry[x] /\ (Closes(x) => Closes(x)')
      BY <1>1, <2>3
    <3> QED
      BY <2>1, <2>2, <3>1
  <2>4. CASE x = e
    <3>1. /\ \/ entry'[x].raw = entry[x].raw /\ entry'[x].inner = entry[x].inner /\ entry'[x].aux = entry[x].aux
             \/ entry'[x].raw = "closed" /\ entry'[x].inner = None /\ entry'[x].aux = None
          /\ entry'[x].count = -1 => entry'[x].raw = "closed"
          /\ Head(ops).do # "close" /\ entry'[x].count > 0 => entry'[x].raw = entry[x].raw
          /\ Head(ops).do = "close" => entry'[x].raw = "closed" /\ entry'[x].count = entry[x].count
      BY <2>4 DEF Outcome
    <3>2. entry[x].raw # "none"
      BY <2>4 DEF Made
    <3>3. entry'[x].count = 0 /\ entry'[x].raw = "open" => Closes(x)'
      BY <1>2, <2>1, <2>4, <3>1
    <3>4. closer'.at = "idle" /\ entry'[x].count > 0 => entry'[x].raw = "open"
      <4>1. SUFFICES ASSUME closer'.at = "idle", entry'[x].count > 0 PROVE entry'[x].raw = "open"
        OBVIOUS
      <4>2. Head(ops).do # "close"
        BY <2>4, <3>1, <4>1
      <4>3. entry[x].count > 0
        <5>1. /\ entry'[x].count \in {entry[x].count, entry[x].count - 1, -1}
              /\ entry[x].count \in Int
          BY <1>1, <2>4 DEF Outcome
        <5> QED
          BY <4>1, <5>1
      <4> QED
        BY <2>1, <3>1, <4>1, <4>2, <4>3
    <3> QED
      BY <2>1, <2>2, <3>1, <3>2, <3>3, <3>4
  <2> QED
    BY <2>3, <2>4
<1> QED
  BY <1>3, <1>4, <1>6, <1>7
\* What holds of the first thing somebody has to close.
LEMMA FirstToClose ==
  ASSUME DialerInv, NEW ops \in Ops, ops # <<>>, Shaped(ops), \A i \in 1 .. Len(ops) : Made(ops[i].e),
         NEW a \in Holders, hold[a] = HeldBy(ops)
  PROVE  /\ Head(ops).e \in Entries /\ Made(Head(ops).e) /\ Head(ops) = ops[1] /\ 1 \in 1 .. Len(ops)
         /\ Head(ops).do = "deref" => entry[Head(ops).e].count >= 1
<1>1. /\ Head(ops) = ops[1] /\ Head(ops).e \in Entries /\ Made(Head(ops).e) /\ 1 \in 1 .. Len(ops)
  BY TailIs
<1>2. ASSUME Head(ops).do = "deref" PROVE entry[Head(ops).e].count >= 1
  <2>1. hold[a] = Head(ops).e
    BY <1>2 DEF HeldBy
  <2>2. Number(hold, Head(ops).e) > 0 /\ Number(hold, Head(ops).e) \in Nat
    BY <2>1, HolderCounts, NumberIs
  <2>3. /\ entry[Head(ops).e].count \in Nat \cup {-1}
        /\ entry[Head(ops).e].count = -1 => Number(hold, Head(ops).e) = 0
        /\ entry[Head(ops).e].count # -1 => Number(hold, Head(ops).e) <= entry[Head(ops).e].count
    BY <1>1 DEF DialerInv, DialerTypes, EntryType, CountsOK
  <2> QED
    BY <2>2, <2>3
<1> QED
  BY <1>1, <1>2

\* What is to be closed are connections.
LEMMA OpsAre == \A s \in Ops : \A i \in 1 .. Len(s) : s[i].e \in Entries
<1> DEFINE O == [do : {"deref", "close", "unref"}, e : Entries]
<1>1. \A s \in Seq(O) : \A i \in 1 .. Len(s) : s[i] \in O
  <2> HIDE DEF O
  <2> QED
    OBVIOUS
<1> QED
  BY <1>1 DEF Ops

\* A goroutine goes on closing.
LEMMA ClosingKeeps ==
  ASSUME DialerInv, NEW p \in Procs, Closing(p)
  PROVE  DialerInv'
<1> DEFINE ops == proc[p].ops
           e == Head(ops).e
           a == <<"op", p>>
<1>0. /\ DialerTypes /\ ProcsOK /\ LegsOK /\ CloserOK /\ ReleasedIsRemoved
  BY DEF DialerInv
<1>1. /\ ops # <<>> /\ UNCHANGED <<opts, ctx, mu, closer, crashed>>
  BY DEF Closing
<1>2. PICK rest : CloseStep(ops, rest) /\ proc' = [proc EXCEPT ![p] = [proc[p] EXCEPT !.ops = rest]]
  BY DEF Closing, Set
<1>3. /\ proc[p] \in ProcType /\ At(p, proc[p]) /\ ops \in Ops /\ Shaped(ops)
      /\ \A i \in 1 .. Len(ops) : Made(ops[i].e)
      /\ Head(ops).do = "close" => entry[e].count = 0
      /\ proc[p].at # "idle"
  BY <1>1, OfProc DEF ProcOK, At
<1>4. a \in Holders /\ hold[a] = HeldBy(ops)
  BY HoldIs, Places
<1>5. e \in Entries /\ Made(e) /\ Head(ops) = ops[1] /\ 1 \in 1 .. Len(ops)
      /\ (Head(ops).do = "deref" => entry[e].count >= 1)
  BY <1>1, <1>3, <1>4, FirstToClose
<1>6. Outcome(e, ops, rest)
  BY <1>1, <1>2, <1>3, <1>5, CloseStepIs
<1>7. /\ \A q \in Procs \ {p} : proc'[q] = proc[q]
      /\ proc'[p].ops = rest /\ proc'[p].at = proc[p].at /\ proc'[p].key = proc[p].key
      /\ proc'[p].conn = proc[p].conn /\ proc'[p].aux = proc[p].aux /\ proc'[p].res = proc[p].res
      /\ proc' \in [Procs -> ProcType]
  <2>1. rest \in Ops
    BY <1>6 DEF Outcome
  <2> QED
    BY <1>0, <1>2, <1>3, <2>1 DEF DialerTypes, ProcType
<1>8. \A x \in Entries : Closes(x) => Closes(x)' \/ (x = e /\ Head(ops).do = "close")
  <2> SUFFICES ASSUME NEW x \in Entries, Closes(x), ~(x = e /\ Head(ops).do = "close") PROVE Closes(x)'
    OBVIOUS
  <2>1. PICK q \in Procs : proc[q].ops # <<>> /\ Head(proc[q].ops) = [do |-> "close", e |-> x]
    BY DEF Closes
  <2>2. q # p
    BY <2>1
  <2>3. proc'[q] = proc[q]
    BY <1>7, <2>2
  <2> QED
    BY <2>1, <2>3 DEF Closes
<1>9. \A h \in Holders \ {a, <<"inner", e>>, <<"cred", e>>} : hold'[h] = hold[h]
  <2> SUFFICES ASSUME NEW h \in Holders, h \notin {a, <<"inner", e>>, <<"cred", e>>} PROVE hold'[h] = hold[h]
    OBVIOUS
  <2>1. \A x \in Entries \ {e} : entry'[x] = entry[x]
    BY <1>6 DEF Outcome
  <2>2. CASE h \in {<<"conn", p>>, <<"aux", p>>}
    <3>1. InHand(proc'[p]) = InHand(proc[p])
      BY <1>7 DEF InHand
    <3>2. hold'[<<"conn", p>>] = hold[<<"conn", p>>] /\ hold'[<<"aux", p>>] = hold[<<"aux", p>>]
      <4>1. /\ hold[<<"conn", p>>] = InHand(proc[p]) /\ hold[<<"aux", p>>] = proc[p].aux
            /\ hold'[<<"conn", p>>] = InHand(proc'[p]) /\ hold'[<<"aux", p>>] = proc'[p].aux
        BY HoldIs, HoldNext
      <4> QED
        BY <1>7, <3>1, <4>1
    <3> QED
      BY <2>2, <3>2
  <2>3. CASE h \notin {<<"conn", p>>, <<"aux", p>>}
    <3>1. \A q \in {p} : h \notin {<<"conn", q>>, <<"aux", q>>, <<"op", q>>}
      BY <2>3
    <3>2. h \notin {<<"inner", e>>, <<"cred", e>>} /\ (h # <<"closer", None>> \/ closer' = closer)
      BY <1>1
    <3>3. e \in Entries /\ \A q \in Procs \ {p} : proc'[q] = proc[q]
      BY <1>5, <1>7
    <3> HIDE DEF e
    <3> QED
      BY <2>1, <3>1, <3>2, <3>3, ElsewhereHeld
  <2> QED
    BY <2>2, <2>3
<1>10. hold'[a] = HeldBy(rest) /\ a # <<"inner", e>> /\ a # <<"cred", e>>
  BY <1>7, HoldNext
<1> HIDE DEF a, e
<1>11. /\ \A x \in Entries : (Made(x)' <=> Made(x)) /\ (entry'[x].count = 0 <=> entry[x].count = 0)
       /\ ConnsOK' /\ CountsOK' /\ EntriesOK'
  BY <1>1, <1>3, <1>4, <1>5, <1>6, <1>8, <1>9, <1>10, AfterClosing
<1>12. DialerTypes'
  BY <1>0, <1>1, <1>6, <1>7 DEF DialerTypes, Outcome
<1>13. ASSUME NEW k \in Keys, NEW d \in Dials PROVE <<d, k>> \in Entries
  BY DEF Entries
<1>14. ProcsOK'
  <2> SUFFICES ASSUME NEW q \in Procs PROVE ProcOK(q)'
    BY DEF ProcsOK
  <2>0. q[1] \in Dials
    BY OfProc
  <2>1. CASE q # p
    <3>1. \A k \in Keys : MadeBy[k] = q[2] /\ ~Made(<<q[1], k>>) => ~Made(<<q[1], k>>)'
      BY <1>11, <1>13, <2>0
    <3> QED
      BY <1>7, <1>11, <2>1, <3>1, Undisturbed
  <2>2. CASE q = p
    <3>1. /\ proc[p].conn \in RefOrNone /\ proc[p].aux \in RefOrNone /\ ProcOK(p)
          /\ proc[p].at \in {"ref", "lost"} => proc[p].conn # None
      BY <1>3, OfProc DEF At
    <3>2. /\ At(p, proc'[p])
      BY <1>3, <1>7 DEF At
    <3>3. /\ Shaped(proc'[p].ops)
          /\ \A i \in 1 .. Len(proc'[p].ops) : Made(proc'[p].ops[i].e)
          /\ proc'[p].ops # <<>> => Head(proc'[p].ops).do # "close"
          /\ \A i \in 1 .. Len(rest) : rest[i].e \in Entries
      <4>1. rest \in Ops
        BY <1>6 DEF Outcome
      <4>2. \A i \in 1 .. Len(rest) : rest[i].e \in Entries
        BY <4>1, OpsAre
      <4> QED
        BY <1>6, <1>7, <4>2 DEF Outcome
    <3>4. \A k \in Keys : MadeBy[k] = p[2] /\ Rank[k] >= Level(proc'[p].at, proc'[p].key) => ~Made(<<p[1], k>>)'
      BY <1>7, <1>11, <1>13, <2>0, <2>2, <3>1 DEF ProcOK
    <3>5. /\ proc[p].conn # None => entry'[proc[p].conn].raw # "none"
          /\ proc[p].aux # None => entry'[proc[p].aux].raw # "none"
          /\ proc[p].at \in {"ref", "lost"} => entry'[proc[p].conn].count # 0
      BY <1>11, <3>1 DEF ProcOK, Made, RefOrNone
    <3>6. \A i \in 1 .. Len(rest) : entry'[rest[i].e].raw # "none"
      BY <1>7, <1>11, <3>3 DEF Made
    <3> QED
      BY <1>7, <2>2, <3>2, <3>3, <3>4, <3>5, <3>6 DEF ProcOK, Made
  <2> QED
    BY <2>1, <2>2
<1>15. LegsOK'
  <2>1. \A q \in Procs : proc'[q].at = proc[q].at /\ proc'[q].key = proc[q].key
    BY <1>7
  <2>2. \A d \in Dials : Main(d) \in Procs /\ <<d, "mdns">> \in Procs /\ <<d, "webrtc">> \in Procs
    BY LegsOf
  <2> QED
    BY <1>0, <2>1, <2>2 DEF LegsOK, Main
<1>16. CloserOK'
  <2>1. \A i \in 1 .. Len(closer.ops) : closer.ops[i].e \in Entries
    BY <1>0, OpsAre DEF DialerTypes, CloserType
  <2>2. closer.pend \subseteq Entries
    BY <1>0 DEF DialerTypes, CloserType
  <2> QED
    BY <1>0, <1>1, <1>11, <2>1, <2>2 DEF CloserOK, Made
<1>17. ReleasedIsRemoved'
  <2> SUFFICES ASSUME NEW k \in Keys, conns'[k] # None, entry'[conns'[k]].count = -1
               PROVE  \/ \E q \in Procs : \E i \in DOMAIN proc'[q].ops : proc'[q].ops[i] = Unref(conns'[k])
                      \/ \E i \in DOMAIN closer'.ops : closer'.ops[i] = Unref(conns'[k])
    BY DEF ReleasedIsRemoved, Unref
  <2>1. CASE \E i \in DOMAIN rest : rest[i] = Unref(conns'[k])
    BY <1>7, <2>1
  <2>2. CASE entry[conns[k]].count = -1 /\ \A i \in DOMAIN ops : ops[i] # Unref(conns[k])
    <3>1. conns'[k] = conns[k]
      BY <1>6 DEF Outcome
    <3>2. \/ \E q \in Procs : \E i \in DOMAIN proc[q].ops : proc[q].ops[i] = Unref(conns[k])
          \/ \E i \in DOMAIN closer.ops : closer.ops[i] = Unref(conns[k])
      BY <1>0, <2>2, <3>1 DEF ReleasedIsRemoved, Unref
    <3>3. CASE \E q \in Procs : \E i \in DOMAIN proc[q].ops : proc[q].ops[i] = Unref(conns[k])
      <4>1. PICK q \in Procs : \E i \in DOMAIN proc[q].ops : proc[q].ops[i] = Unref(conns[k])
        BY <3>3
      <4>2. q # p
        BY <2>2, <4>1
      <4>3. proc'[q] = proc[q]
        BY <1>7, <4>2
      <4> QED
        BY <3>1, <4>1, <4>3
    <3> QED
      BY <1>1, <3>1, <3>2, <3>3
  <2> QED
    BY <1>6, <2>1, <2>2 DEF Outcome
<1> QED
  BY <1>11, <1>12, <1>14, <1>15, <1>16, <1>17 DEF DialerInv
\* Dialer.Close goes on without closing anything in this step.
LEMMA CloserGoes ==
  ASSUME DialerInv, UNCHANGED <<opts, ctx, proc, conns, entry, mu, crashed>>,
         closer' \in CloserType, CloserOK', closer.ops = <<>>, HeldBy(closer'.ops) = None,
         closer'.at = "idle" => closer.at = "idle"
  PROVE  DialerInv'
<1>1. /\ DialerTypes /\ ProcsOK /\ LegsOK /\ EntriesOK /\ ConnsOK /\ CountsOK /\ ReleasedIsRemoved
  BY DEF DialerInv
<1>2. hold' = hold
  <2>1. HeldBy(closer.ops) = None
    BY DEF HeldBy
  <2> QED
    BY <2>1 DEF hold
<1>3. DialerTypes' /\ LegsOK' /\ ConnsOK'
  BY <1>1 DEF DialerTypes, LegsOK, ConnsOK, Made
<1>4. ProcsOK'
  BY <1>1 DEF ProcsOK, ProcOK, Made
<1>5. EntriesOK'
  <2>1. \A x \in Entries : Closes(x) => Closes(x)'
    BY DEF Closes
  <2> QED
    BY <1>1, <2>1 DEF EntriesOK, Made
<1>6. CountsOK'
  BY <1>1, <1>2 DEF CountsOK
<1>7. ReleasedIsRemoved'
  <2>1. DOMAIN closer.ops = {}
    OBVIOUS
  <2> QED
    BY <1>1, <2>1 DEF ReleasedIsRemoved
<1> QED
  BY <1>3, <1>4, <1>5, <1>6, <1>7 DEF DialerInv

\* Dialer.Close copies the connections of the cache.
LEMMA CloseDialerKeeps ==
  ASSUME DialerInv, CloseDialer
  PROVE  DialerInv'
<1>1. /\ closer \in CloserType /\ closer.ops = <<>> /\ conns \in [Keys -> RefOrNone] /\ Shaped(closer.ops)
      /\ \A k \in Keys : conns[k] # None => Made(conns[k])
  BY DEF DialerInv, DialerTypes, CloserOK, CloseDialer, ConnsOK
<1>2. /\ UNCHANGED <<opts, ctx, proc, conns, entry, mu, crashed>>
      /\ closer' = [closer EXCEPT !.at = "closing", !.pend = {conns[k] : k \in Keys} \ {None}]
  BY DEF CloseDialer
<1>3. {conns[k] : k \in Keys} \ {None} \subseteq Entries
  BY <1>1 DEF RefOrNone
<1>4. /\ closer' \in CloserType /\ closer'.ops = <<>> /\ closer'.at = "closing"
      /\ closer'.pend = {conns[k] : k \in Keys} \ {None}
  BY <1>1, <1>2, <1>3 DEF CloserType
<1>5. CloserOK'
  <2>1. \A x \in closer'.pend : Made(x)'
    BY <1>1, <1>2, <1>4 DEF Made
  <2> QED
    BY <1>4, <2>1 DEF CloserOK, Shaped, Made
<1> QED
  BY <1>1, <1>2, <1>4, <1>5, CloserGoes DEF HeldBy

\* Dialer.Close goes on closing one of them.
LEMMA CloserClosingKeeps ==
  ASSUME DialerInv, closer.at = "closing", closer.ops # <<>>, NEW rest, CloseStep(closer.ops, rest),
         closer' = [closer EXCEPT !.ops = rest], UNCHANGED <<opts, ctx, proc, mu, crashed>>
  PROVE  DialerInv'
<1> DEFINE ops == closer.ops
           e == Head(ops).e
           a == <<"closer", None>>
<1>0. /\ DialerTypes /\ ProcsOK /\ LegsOK /\ CloserOK /\ ReleasedIsRemoved
  BY DEF DialerInv
<1>3. /\ closer \in CloserType /\ ops \in Ops /\ Shaped(ops)
      /\ \A i \in 1 .. Len(ops) : Made(ops[i].e)
  BY <1>0 DEF DialerTypes, CloserType, CloserOK
<1>4. a \in Holders /\ hold[a] = HeldBy(ops)
  BY HoldIs, Places
<1>5. e \in Entries /\ Made(e) /\ Head(ops) = ops[1] /\ 1 \in 1 .. Len(ops)
      /\ (Head(ops).do = "deref" => entry[e].count >= 1)
  BY <1>3, <1>4, FirstToClose
<1>6. Outcome(e, ops, rest)
  BY <1>3, <1>5, CloseStepIs
<1>7. /\ closer'.ops = rest /\ closer'.at = closer.at /\ closer'.pend = closer.pend
      /\ closer' \in CloserType /\ rest \in Ops
  <2>1. rest \in Ops
    BY <1>6 DEF Outcome
  <2> QED
    BY <1>3, <2>1 DEF CloserType
<1>8. \A x \in Entries : Closes(x) => Closes(x)'
  BY DEF Closes
<1>9. \A h \in Holders \ {a, <<"inner", e>>, <<"cred", e>>} : hold'[h] = hold[h]
  <2> SUFFICES ASSUME NEW h \in Holders, h \notin {a, <<"inner", e>>, <<"cred", e>>} PROVE hold'[h] = hold[h]
    OBVIOUS
  <2>1. \A x \in Entries \ {e} : entry'[x] = entry[x]
    BY <1>6 DEF Outcome
  <2> DEFINE P == {}
  <2>2. /\ \A q \in Procs \ P : proc'[q] = proc[q]
        /\ \A q \in P : h \notin {<<"conn", q>>, <<"aux", q>>, <<"op", q>>}
        /\ h # <<"closer", None>> \/ closer' = closer
        /\ h \notin {<<"inner", e>>, <<"cred", e>>}
    OBVIOUS
  <2> HIDE DEF e, P
  <2> QED
    BY <1>5, <2>1, <2>2, ElsewhereHeld
<1>10. hold'[a] = HeldBy(rest) /\ a # <<"inner", e>> /\ a # <<"cred", e>>
  BY <1>7, HoldNext
<1> HIDE DEF a, e
<1>11. /\ \A x \in Entries : (Made(x)' <=> Made(x)) /\ (entry'[x].count = 0 <=> entry[x].count = 0)
       /\ ConnsOK' /\ CountsOK' /\ EntriesOK'
  BY <1>4, <1>5, <1>6, <1>7, <1>8, <1>9, <1>10, AfterClosing
<1>12. DialerTypes'
  BY <1>0, <1>6, <1>7 DEF DialerTypes, Outcome
<1>13. ASSUME NEW k \in Keys, NEW d \in Dials PROVE <<d, k>> \in Entries
  BY DEF Entries
<1>14. ProcsOK'
  <2> SUFFICES ASSUME NEW q \in Procs PROVE ProcOK(q)'
    BY DEF ProcsOK
  <2>0. q[1] \in Dials
    BY OfProc
  <2>1. \A k \in Keys : MadeBy[k] = q[2] /\ ~Made(<<q[1], k>>) => ~Made(<<q[1], k>>)'
    BY <1>11, <1>13, <2>0
  <2> QED
    BY <1>11, <2>1, Undisturbed
<1>15. LegsOK'
  BY <1>0 DEF LegsOK
<1>16. CloserOK'
  <2>1. \A i \in 1 .. Len(rest) : rest[i].e \in Entries /\ Made(rest[i].e)
    BY <1>6, <1>7, OpsAre DEF Outcome
  <2>2. closer.pend \subseteq Entries /\ \A x \in closer.pend : Made(x)
    BY <1>0, <1>3 DEF CloserType, CloserOK
  <2>3. Shaped(rest)
    BY <1>6 DEF Outcome
  <2>4. /\ \A i \in 1 .. Len(rest) : entry'[rest[i].e].raw # "none"
        /\ \A x \in closer.pend : entry'[x].raw # "none"
    BY <1>11, <2>1, <2>2 DEF Made
  <2> QED
    BY <1>7, <2>3, <2>4 DEF CloserOK, Made
<1>17. ReleasedIsRemoved'
  <2> SUFFICES ASSUME NEW k \in Keys, conns'[k] # None, entry'[conns'[k]].count = -1
               PROVE  \/ \E q \in Procs : \E i \in DOMAIN proc'[q].ops : proc'[q].ops[i] = Unref(conns'[k])
                      \/ \E i \in DOMAIN closer'.ops : closer'.ops[i] = Unref(conns'[k])
    BY DEF ReleasedIsRemoved, Unref
  <2>1. CASE \E i \in DOMAIN rest : rest[i] = Unref(conns'[k])
    BY <1>7, <2>1
  <2>2. CASE entry[conns[k]].count = -1 /\ \A i \in DOMAIN ops : ops[i] # Unref(conns[k])
    <3>1. conns'[k] = conns[k]
      BY <1>6 DEF Outcome
    <3>2. \/ \E q \in Procs : \E i \in DOMAIN proc[q].ops : proc[q].ops[i] = Unref(conns[k])
          \/ \E i \in DOMAIN closer.ops : closer.ops[i] = Unref(conns[k])
      BY <1>0, <2>2, <3>1 DEF ReleasedIsRemoved, Unref
    <3> QED
      BY <2>2, <3>1, <3>2
  <2> QED
    BY <1>6, <2>1, <2>2 DEF Outcome
<1> QED
  BY <1>11, <1>12, <1>14, <1>15, <1>16, <1>17 DEF DialerInv

\* Dialer.Close goes on.
LEMMA CloseNextKeeps ==
  ASSUME DialerInv, CloseNext
  PROVE  DialerInv'
<1>0. /\ closer \in CloserType /\ CloserOK /\ closer.at = "closing"
      /\ UNCHANGED <<opts, ctx, proc, mu, crashed>>
  BY DEF DialerInv, DialerTypes, CloseNext
<1>1. CASE closer.ops # <<>>
  <2>1. PICK rest : CloseStep(closer.ops, rest) /\ closer' = [closer EXCEPT !.ops = rest]
    BY <1>1 DEF CloseNext
  <2> QED
    BY <1>0, <1>1, <2>1, CloserClosingKeeps
<1>2. CASE closer.ops = <<>> /\ \E e \in closer.pend :
             closer' = [closer EXCEPT !.pend = @ \ {e}, !.ops = <<[do |-> "close", e |-> e]>>]
  <2>1. PICK e \in closer.pend :
             closer' = [closer EXCEPT !.pend = @ \ {e}, !.ops = <<[do |-> "close", e |-> e]>>]
    BY <1>2
  <2> DEFINE o == [do |-> "close", e |-> e]
  <2>2. UNCHANGED <<conns, entry>> /\ e \in Entries /\ Made(e) /\ closer.pend \subseteq Entries
        /\ \A x \in closer.pend : Made(x)
    BY <1>0, <1>2 DEF CloseNext, CloserType, CloserOK
  <2>3. o \in [do : {"deref", "close", "unref"}, e : Entries] /\ o.do = "close" /\ o.e = e
    BY <2>2
  <2>5. closer' = [closer EXCEPT !.pend = @ \ {e}, !.ops = <<o>>]
    BY <2>1
  <2> HIDE DEF o
  <2>4. <<o>> \in Ops /\ Len(<<o>>) = 1 /\ <<o>>[1] = o /\ Head(<<o>>) = o /\ <<o>> # <<>>
    BY <2>3 DEF Ops
  <2>6. /\ closer' \in CloserType /\ closer'.ops = <<o>> /\ closer'.at = "closing"
        /\ closer'.pend = closer.pend \ {e}
    BY <1>0, <2>2, <2>4, <2>5 DEF CloserType
  <2>7. HeldBy(<<o>>) = None /\ Shaped(<<o>>)
    BY <2>3, <2>4 DEF HeldBy, Shaped
  <2>8. \A i \in 1 .. Len(<<o>>) : <<o>>[i] = o
    BY <2>4
  <2>9. CloserOK'
    BY <2>2, <2>3, <2>6, <2>7, <2>8 DEF CloserOK, Made
  <2> QED
    BY <1>0, <1>2, <2>2, <2>6, <2>7, <2>9, CloserGoes
<1>3. CASE closer.ops = <<>> /\ closer' = [closer EXCEPT !.at = "closed"]
  <2>1. UNCHANGED <<conns, entry>>
    BY <1>3 DEF CloseNext
  <2>2. /\ closer' \in CloserType /\ closer'.ops = <<>> /\ closer'.at = "closed" /\ closer'.pend = closer.pend
    BY <1>0, <1>3 DEF CloserType
  <2>3. CloserOK'
    BY <1>0, <1>3, <2>1, <2>2 DEF CloserOK, Made
  <2> QED
    BY <1>0, <1>3, <2>1, <2>2, <2>3, CloserGoes DEF HeldBy
<1> QED
  BY <1>1, <1>2, <1>3 DEF CloseNext
----------------------------------------------------------------------------
(* Dialer: DialFunc hands out a reference *)

\* Where DialFunc returns to with a reference to e, and where it is then.
LEMMA ReturnedIs ==
  ASSUME NEW p \in Procs, NEW q \in ProcType, MadeBy[q.key] = p[2], NEW e \in Entries, e[2] = q.key,
         q.ops = <<>>, q.aux = None \/ q.key = DirectKey(p), None \notin Entries, NEW r, r = Returned(p, q, e)
  PROVE  /\ r \in ProcType /\ At(p, r) /\ r.ops = <<>> /\ Level(r.at, r.key) >= Rank[q.key] + 1
         /\ r.at \notin {"idle", "ref", "lost"} /\ (r.at \in {"lookup", "dial"} => r.key # "multi")
         /\ \/ r.conn = None /\ r.aux = e
            \/ r.conn = e /\ r.aux = None
<1>0. /\ q.key \in Keys /\ p[2] \in Legs /\ e # None /\ e \in RefOrNone /\ None \in RefOrNone
  BY Places DEF ProcType, RefOrNone
<1>6. /\ ExtKey(p) # SigKey(p) /\ ExtKey(p) # "multi" /\ ExtKey(p) # DirectKey(p)
      /\ SigKey(p) # "multi" /\ SigKey(p) # DirectKey(p) /\ DirectKey(p) # "multi"
  BY DEF ExtKey, SigKey, DirectKey
<1>1. CASE q.key = ExtKey(p)
  <2>1. p[2] # "webrtc" /\ DirectKey(p) \in {"grpc", "lgrpc"} /\ MadeBy[DirectKey(p)] = p[2]
    BY <1>0, <1>1, Makers DEF ExtKey, DirectKey, Local, Legs
  <2>2. r = [q EXCEPT !.at = "lookup", !.key = DirectKey(p), !.aux = e, !.conn = None]
    BY <1>1, <1>6 DEF Returned
  <2>3. r.at = "lookup" /\ r.key = DirectKey(p) /\ r.aux = e /\ r.conn = None /\ r.ops = <<>>
    BY <2>2 DEF ProcType
  <2>4. r \in ProcType
    BY <1>0, <2>1, <2>2 DEF ProcType, Ats, Keys
  <2>5. q.key \in Ext
    BY <1>1 DEF ExtKey, Ext
  <2>6. At(p, r)
    BY <1>0, <2>1, <2>3, <2>5 DEF At
  <2>7. Level("lookup", DirectKey(p)) = 4 /\ Rank[q.key] = 3
    <3>1. /\ DirectKey(p) \in Keys /\ DirectKey(p) \notin {"multi", "webrtc", "lwebrtc"}
          /\ Rank[DirectKey(p)] = 4 /\ Rank[q.key] = 3
      BY <2>1, <2>5, Ranks DEF Keys, Ext
    <3> QED
      BY <3>1, Levels
  <2> QED
    BY <2>1, <2>3, <2>4, <2>6, <2>7
<1>2. CASE q.key = SigKey(p)
  <2>1. p[2] # "main" /\ WebRTCKey(p) \in Keys
    BY <1>0, <1>2, Makers DEF SigKey, WebRTCKey, Local, Legs, Keys
  <2>2. r = [q EXCEPT !.at = "exchange", !.key = WebRTCKey(p), !.aux = e, !.conn = None]
    BY <1>2, <1>6 DEF Returned
  <2>3. r.at = "exchange" /\ r.key = WebRTCKey(p) /\ r.aux = e /\ r.conn = None /\ r.ops = <<>>
    BY <2>2 DEF ProcType
  <2>4. r \in ProcType
    BY <1>0, <2>1, <2>2 DEF ProcType, Ats
  <2>5. q.key \in Sig
    BY <1>2 DEF SigKey, Sig
  <2>6. At(p, r)
    BY <1>0, <2>1, <2>3, <2>5 DEF At
  <2>7. Level("exchange", WebRTCKey(p)) = 2 /\ Rank[q.key] = 1
    BY <2>1, <2>5, Levels, Ranks DEF Sig
  <2> QED
    BY <2>3, <2>4, <2>6, <2>7
<1>3. CASE q.key = "multi"
  <2>1. p[2] = "main"
    BY <1>3, Makers
  <2>2. r = [q EXCEPT !.at = "open", !.conn = e]
    BY <1>3, <1>6 DEF Returned
  <2>3. r.at = "open" /\ r.key = "multi" /\ r.aux = None /\ r.conn = e /\ r.ops = <<>>
    BY <1>3, <1>6, <2>2 DEF ProcType
  <2>4. r \in ProcType
    BY <1>0, <2>2 DEF ProcType, Ats
  <2>7. Level("open", "multi") = 6 /\ Rank[q.key] = 5
    BY <1>3, Levels, Ranks DEF Keys
  <2>6. At(p, r)
    BY <1>0, <1>3, <2>1, <2>3 DEF At
  <2> QED
    BY <1>3, <2>3, <2>4, <2>6, <2>7
<1>4. CASE q.key = DirectKey(p) /\ p[2] = "main"
  <2>1. q.key = "grpc"
    BY <1>4 DEF DirectKey, Local
  <2>2. r = [q EXCEPT !.at = "check", !.key = "multi", !.conn = e, !.aux = None]
    BY <1>4, <1>6 DEF Returned
  <2>3. r.at = "check" /\ r.key = "multi" /\ r.aux = None /\ r.conn = e /\ r.ops = <<>>
    BY <2>2 DEF ProcType
  <2>4. r \in ProcType
    BY <1>0, <2>2 DEF ProcType, Ats, Keys
  <2>7. Level("check", "multi") = 5 /\ Rank[q.key] = 4
    <3>1. Level("check", "multi") = Rank["multi"]
      BY Levels DEF Keys
    <3> QED
      BY <2>1, <3>1, Ranks
  <2>6. At(p, r)
    BY <1>0, <1>4, <2>1, <2>3, Makers DEF At, Top
  <2> QED
    BY <2>3, <2>4, <2>6, <2>7
<1>5. CASE q.key # ExtKey(p) /\ q.key # SigKey(p) /\ q.key # "multi" /\ ~(q.key = DirectKey(p) /\ p[2] = "main")
  <2>1. p[2] # "main" /\ q.key \in Top
    BY <1>0, <1>5, Makers DEF ExtKey, SigKey, DirectKey, Local, Legs, Keys, Top
  <2>2. r = [q EXCEPT !.at = "send", !.key = "multi", !.conn = e, !.aux = None, !.res = "ok"]
    BY <1>5 DEF Returned
  <2>3. r.at = "send" /\ r.key = "multi" /\ r.aux = None /\ r.conn = e /\ r.ops = <<>> /\ r.res = "ok"
    BY <2>2 DEF ProcType
  <2>4. r \in ProcType
    BY <1>0, <2>2 DEF ProcType, Ats, Keys
  <2>7. Level("send", "multi") = 6 /\ Rank[q.key] \in 1 .. 5
    BY <1>0, Levels DEF Keys
  <2>6. At(p, r)
    BY <1>0, <2>1, <2>3 DEF At
  <2> QED
    BY <2>3, <2>4, <2>6, <2>7
<1> QED
  BY <1>1, <1>2, <1>3, <1>4, <1>5
\* One goroutine p goes on to r, and may have made the connection of its key.
LEMMA OneAdvances ==
  ASSUME DialerInv, NEW p \in Procs, NEW r \in ProcType, proc' = [proc EXCEPT ![p] = r],
         UNCHANGED <<opts, ctx, closer>>, entry' \in [Entries -> EntryType], conns' \in [Keys -> RefOrNone],
         mu' \in Procs \cup {None}, crashed' \in BOOLEAN,
         At(p, r), Shaped(r.ops), \A i \in 1 .. Len(r.ops) : entry'[r.ops[i].e].raw # "none",
         r.ops # <<>> /\ Head(r.ops).do = "close" => entry'[Head(r.ops).e].count = 0,
         r.conn # None => entry'[r.conn].raw # "none", r.aux # None => entry'[r.aux].raw # "none",
         r.at \in {"ref", "lost"} => entry'[r.conn].count # 0,
         \A x \in Entries : Made(x) => Made(x)' /\ (entry'[x].count = 0 <=> entry[x].count = 0),
         \A x \in Entries : x # <<p[1], proc[p].key>> /\ Made(x)' => Made(x),
         proc[p].at \in {"ref", "check", "lost"}, Level(r.at, r.key) >= Rank[proc[p].key] + 1,
         r.at # "idle", r.at \in {"lookup", "dial"} => r.key # "multi"
  PROVE  DialerTypes' /\ ProcsOK' /\ LegsOK' /\ CloserOK'
<1>0. DialerTypes /\ ProcsOK /\ LegsOK /\ CloserOK
  BY DEF DialerInv
<1>1. /\ proc' \in [Procs -> ProcType] /\ proc'[p] = r /\ \A q \in Procs \ {p} : proc'[q] = proc[q]
  BY <1>0 DEF DialerTypes
<1>2. DialerTypes'
  BY <1>0, <1>1 DEF DialerTypes
<1>3. /\ p = <<p[1], p[2]>> /\ ProcOK(p) /\ proc[p].key \in Keys /\ proc[p].at \in Ats
      /\ MadeBy[proc[p].key] = p[2] /\ p[1] \in Dials
  BY OfProc, Places DEF At
<1>4. \A k \in Keys, d \in Dials : <<d, k>> \in Entries
  BY DEF Entries
<1>5. ASSUME NEW q \in Procs PROVE ProcOK(q)'
  <2>1. CASE q # p
    <3>1. \A k \in Keys : MadeBy[k] = q[2] /\ ~Made(<<q[1], k>>) => ~Made(<<q[1], k>>)'
      <4> SUFFICES ASSUME NEW k \in Keys, MadeBy[k] = q[2], ~Made(<<q[1], k>>) PROVE ~Made(<<q[1], k>>)'
        OBVIOUS
      <4>1. q = <<q[1], q[2]>> /\ q[1] \in Dials
        BY Places
      <4>2. <<q[1], k>> # <<p[1], proc[p].key>>
        BY <1>3, <2>1, <4>1
      <4> QED
        BY <1>4, <4>1, <4>2
    <3> QED
      BY <1>1, <2>1, <3>1, Undisturbed
  <2>2. CASE q = p
    <3>1. \A k \in Keys : MadeBy[k] = p[2] /\ Rank[k] >= Level(r.at, r.key) => ~Made(<<p[1], k>>)'
      <4> SUFFICES ASSUME NEW k \in Keys, MadeBy[k] = p[2], Rank[k] >= Level(r.at, r.key)
                   PROVE  ~Made(<<p[1], k>>)'
        OBVIOUS
      <4>1. /\ Rank[k] \in 1 .. 5 /\ Rank[proc[p].key] \in 1 .. 5 /\ Level(r.at, r.key) \in 1 .. 6
            /\ Level(proc[p].at, proc[p].key) \in {Rank[proc[p].key], Rank[proc[p].key] + 1}
        <5>1. r.key \in Keys /\ r.at \in Ats
          BY DEF ProcType
        <5> QED
          BY <1>3, <5>1, Levels
      <4>2. Rank[k] >= Level(proc[p].at, proc[p].key) /\ k # proc[p].key
        BY <4>1
      <4>3. ~Made(<<p[1], k>>)
        BY <1>3, <4>2 DEF ProcOK
      <4>4. <<p[1], k>> # <<p[1], proc[p].key>>
        BY <4>2
      <4> QED
        BY <1>3, <1>4, <4>3, <4>4
    <3> QED
      BY <1>1, <2>2, <3>1 DEF ProcOK, Made
  <2> QED
    BY <2>1, <2>2
<1>6. LegsOK'
  <2> SUFFICES ASSUME NEW d \in Dials,
                      \/ proc'[Main(d)].at = "idle"
                      \/ proc'[Main(d)].at \in {"lookup", "dial"} /\ proc'[Main(d)].key = "multi"
               PROVE  proc'[<<d, "mdns">>].at = "idle" /\ proc'[<<d, "webrtc">>].at = "idle"
    BY DEF LegsOK, Main
  <2>1. Main(d) \in Procs /\ <<d, "mdns">> \in Procs /\ <<d, "webrtc">> \in Procs
    BY LegsOf
  <2>2. Main(d) # p
    BY <1>1
  <2>3. proc[<<d, "mdns">>].at = "idle" /\ proc[<<d, "webrtc">>].at = "idle"
    BY <1>0, <1>1, <2>1, <2>2 DEF LegsOK
  <2>4. p # <<d, "mdns">> /\ p # <<d, "webrtc">>
    BY <2>3
  <2> QED
    BY <1>1, <2>1, <2>3, <2>4
<1>7. CloserOK'
  <2>1. \A i \in 1 .. Len(closer.ops) : closer.ops[i].e \in Entries
    BY <1>0, OpsAre DEF DialerTypes, CloserType
  <2>2. closer.pend \subseteq Entries
    BY <1>0 DEF DialerTypes, CloserType
  <2> QED
    BY <1>0, <2>1, <2>2 DEF CloserOK, Made
<1> QED
  BY <1>2, <1>5, <1>6, <1>7 DEF ProcsOK

\* A reference to a connection of the cache is taken.
LEMMA TakeRefKeeps ==
  ASSUME DialerInv, NEW p \in Procs, proc[p].at \in {"ref", "lost"}, proc[p].ops = <<>>, ~crashed,
         TakeRef(p, proc[p].conn), UNCHANGED <<opts, ctx, conns, closer>>, mu' \in Procs \cup {None}
  PROVE  DialerInv'
<1> DEFINE e == proc[p].conn
           r == Returned(p, proc[p], e)
<1>0. /\ DialerTypes /\ ProcsOK /\ LegsOK /\ CloserOK /\ EntriesOK /\ ConnsOK /\ CountsOK
      /\ ReleasedIsRemoved
  BY DEF DialerInv
<1>1. /\ proc[p] \in ProcType /\ At(p, proc[p]) /\ e \in Entries /\ e[2] = proc[p].key /\ Made(e)
      /\ entry[e].count # 0 /\ MadeBy[proc[p].key] = p[2] /\ None \notin Entries
      /\ proc[p].key \in Keys /\ proc[p].aux \in RefOrNone
      /\ proc[p].aux # None => proc[p].key = DirectKey(p) /\ proc[p].aux[2] \in Ext
      /\ DOMAIN proc = Procs
  BY OfProc DEF ProcOK, At, RefOrNone
<1>2. CASE entry[e].count = -1
  <2>1. crashed' = TRUE /\ UNCHANGED <<proc, entry>>
    BY <1>2 DEF TakeRef
  <2>2. hold' = hold
    BY <2>1 DEF hold
  <2>3. LegsOK' /\ proc' = [q \in Procs |-> proc'[q]]
    BY <1>0, <2>1 DEF LegsOK, DialerTypes
  <2>4. ctx' \in [Dials -> {"live", "found", "done"}]
    BY <1>0 DEF DialerTypes
  <2> QED
    BY <2>1, <2>2, <2>3, <2>4, CallStep
<1>3. CASE entry[e].count # -1
  <2>1. /\ entry' = [entry EXCEPT ![e].count = @ + 1] /\ proc' = [proc EXCEPT ![p] = r] /\ crashed' = crashed
    BY <1>3 DEF TakeRef, Set
  <2>2. /\ r \in ProcType /\ At(p, r) /\ r.ops = <<>> /\ Level(r.at, r.key) >= Rank[proc[p].key] + 1
        /\ r.at \notin {"idle", "ref", "lost"} /\ (r.at \in {"lookup", "dial"} => r.key # "multi")
        /\ \/ r.conn = None /\ r.aux = e
           \/ r.conn = e /\ r.aux = None
    BY <1>1, ReturnedIs
  <2>3. entry[e].count \in Nat /\ entry[e].count >= 1 /\ entry[e] \in EntryType
    BY <1>0, <1>1, <1>3 DEF DialerTypes, EntryType
  <2>4. /\ entry' \in [Entries -> EntryType] /\ \A x \in Entries \ {e} : entry'[x] = entry[x]
        /\ entry'[e].raw = entry[e].raw /\ entry'[e].inner = entry[e].inner /\ entry'[e].aux = entry[e].aux
        /\ entry'[e].count = entry[e].count + 1
    <3>1. entry[e].count + 1 \in Nat
      BY <2>3
    <3> QED
      BY <1>0, <1>1, <2>1, <2>3, <3>1 DEF DialerTypes, EntryType
  <2> HIDE DEF r
  <2>5. /\ proc'[p] = r /\ \A q \in Procs \ {p} : proc'[q] = proc[q]
    BY <1>1, <2>1
  <2>6. \A x \in Entries : (Made(x)' <=> Made(x)) /\ (entry'[x].count = 0 <=> entry[x].count = 0)
    BY <2>3, <2>4 DEF Made
  <2>7. DialerTypes' /\ ProcsOK' /\ LegsOK' /\ CloserOK'
    <3>1. /\ r.conn # None => entry'[r.conn].raw # "none"
          /\ r.aux # None => entry'[r.aux].raw # "none"
      BY <1>1, <2>2, <2>4 DEF Made
    <3>2. Shaped(r.ops) /\ \A i \in 1 .. Len(r.ops) : entry'[r.ops[i].e].raw # "none"
      BY <2>2 DEF Shaped
    <3>3. crashed' \in BOOLEAN /\ conns' \in [Keys -> RefOrNone]
      BY <1>0, <2>1 DEF DialerTypes
    <3> QED
      BY <2>1, <2>2, <2>4, <2>6, <3>1, <3>2, <3>3, OneAdvances
  <2>8. ASSUME NEW x \in Entries
        PROVE  Number(hold', x) = Number(hold, x) - One(proc[p].aux = x) + One(e = x)
    <3>1. \A y \in Entries : entry'[y].inner = entry[y].inner /\ entry'[y].aux = entry[y].aux
      BY <2>4
    <3>2. InHand(proc[p]) = None /\ InHand(r) = r.conn /\ HeldBy(proc[p].ops) = None /\ HeldBy(r.ops) = None
      BY <2>2 DEF InHand, HeldBy
    <3>3. Number(hold', x) = Number(hold, x)
           - One(InHand(proc[p]) = x) - One(proc[p].aux = x) - One(HeldBy(proc[p].ops) = x)
           + One(InHand(r) = x) + One(r.aux = x) + One(HeldBy(r.ops) = x)
      BY <2>5, <3>1, ProcChanges
    <3>6. /\ One(None = x) = 0 /\ One(proc[p].aux = x) \in Int /\ One(e = x) \in Int
          /\ Number(hold, x) \in Int
      BY <1>1, NumberIs DEF One
    <3>7. CASE r.conn = None /\ r.aux = e
      BY <3>2, <3>3, <3>6, <3>7
    <3>8. CASE r.conn = e /\ r.aux = None
      BY <3>2, <3>3, <3>6, <3>8
    <3> QED
      BY <2>2, <3>7, <3>8
  <2>9. CountsOK'
    <3> SUFFICES ASSUME NEW x \in Entries
               PROVE  /\ entry'[x].count = -1 => Number(hold', x) = 0
                      /\ entry'[x].count # -1 => Number(hold', x) <= entry'[x].count
                      /\ entry'[x].count # -1 /\ x[2] \notin Ext => Number(hold', x) = entry'[x].count
      BY DEF CountsOK
    <3>1. /\ entry[x].count = -1 => Number(hold, x) = 0
          /\ entry[x].count # -1 => Number(hold, x) <= entry[x].count
          /\ entry[x].count # -1 /\ x[2] \notin Ext => Number(hold, x) = entry[x].count
          /\ Number(hold, x) \in Nat /\ Number(hold', x) \in Nat /\ entry[x].count \in Nat \cup {-1}
      BY <1>0, NumberIs DEF CountsOK, DialerTypes, EntryType
    <3>2. CASE x = e
      <4>1. proc[p].aux # e
        <5>1. proc[p].aux # None => DirectKey(p) \notin Ext
          BY DEF DirectKey, Ext
        <5> QED
          BY <1>1, <5>1
      <4>2. One(proc[p].aux = x) = 0 /\ One(e = x) = 1
        BY <3>2, <4>1 DEF One
      <4>3. Number(hold', x) = Number(hold, x) + 1 /\ entry'[x].count = entry[x].count + 1
        BY <2>4, <2>8, <3>1, <3>2, <4>2
      <4> QED
        BY <2>3, <3>1, <3>2, <4>3
    <3>3. CASE x # e /\ x = proc[p].aux
      <4>1. One(proc[p].aux = x) = 1 /\ One(e = x) = 0
        BY <3>3 DEF One
      <4>2. Number(hold', x) = Number(hold, x) - 1 /\ entry'[x] = entry[x] /\ x[2] \in Ext
        BY <1>1, <2>4, <2>8, <3>1, <3>3, <4>1
      <4> QED
        BY <3>1, <4>2
    <3>4. CASE x # e /\ x # proc[p].aux
      <4>1. One(proc[p].aux = x) = 0 /\ One(e = x) = 0
        BY <3>4 DEF One
      <4>2. Number(hold', x) = Number(hold, x) /\ entry'[x] = entry[x]
        BY <2>4, <2>8, <3>1, <3>4, <4>1
      <4> QED
        BY <3>1, <4>2
    <3> QED
      BY <3>2, <3>3, <3>4
  <2>10. ConnsOK'
    BY <1>0, <2>6 DEF ConnsOK, Made, DialerTypes, RefOrNone
  <2>11. EntriesOK'
    <3>1. \A x \in Entries : Closes(x) => Closes(x)'
      <4> SUFFICES ASSUME NEW x \in Entries, Closes(x) PROVE Closes(x)'
        OBVIOUS
      <4>1. PICK q \in Procs : proc[q].ops # <<>> /\ Head(proc[q].ops) = [do |-> "close", e |-> x]
        BY DEF Closes
      <4>2. proc'[q] = proc[q]
        BY <2>5, <4>1
      <4> QED
        BY <4>1, <4>2 DEF Closes
    <3> SUFFICES ASSUME NEW x \in Entries
        PROVE  /\ entry'[x].raw = "none" => entry'[x] = NoEntry
               /\ entry'[x].inner # None => /\ x[2] = "multi" /\ entry'[x].raw = "open"
                                            /\ entry'[x].inner[2] \in Top /\ entry'[entry'[x].inner].raw # "none"
               /\ entry'[x].aux # None => /\ x[2] \in {"grpc", "lgrpc"} /\ entry'[x].raw = "open"
                                          /\ entry'[x].aux[2] \in Ext /\ entry'[entry'[x].aux].raw # "none"
               /\ entry'[x].raw = "open" /\ x[2] = "multi" => entry'[x].inner # None
               /\ entry'[x].count = -1 => entry'[x].raw = "closed"
               /\ entry'[x].count = 0 /\ entry'[x].raw = "open" => Closes(x)'
               /\ closer'.at = "idle" /\ entry'[x].count > 0 => entry'[x].raw = "open"
      BY DEF EntriesOK, Made
    <3>2. /\ entry[x].raw = "none" => entry[x] = NoEntry
          /\ entry[x].inner # None => /\ x[2] = "multi" /\ entry[x].raw = "open"
                                      /\ entry[x].inner[2] \in Top /\ Made(entry[x].inner)
          /\ entry[x].aux # None => /\ x[2] \in {"grpc", "lgrpc"} /\ entry[x].raw = "open"
                                    /\ entry[x].aux[2] \in Ext /\ Made(entry[x].aux)
          /\ entry[x].raw = "open" /\ x[2] = "multi" => entry[x].inner # None
          /\ entry[x].count = -1 => entry[x].raw = "closed"
          /\ entry[x].count = 0 /\ entry[x].raw = "open" => Closes(x)
          /\ closer.at = "idle" /\ entry[x].count > 0 => entry[x].raw = "open"
      BY <1>0 DEF EntriesOK
    <3>3. /\ entry[x].inner # None => entry'[entry[x].inner].raw # "none"
          /\ entry[x].aux # None => entry'[entry[x].aux].raw # "none"
      <4>1. entry[x].inner \in RefOrNone /\ entry[x].aux \in RefOrNone
        BY <1>0 DEF DialerTypes, EntryType
      <4> QED
        BY <2>6, <3>2, <4>1 DEF RefOrNone, Made
    <3>4. CASE x # e
      <4>1. entry'[x] = entry[x]
        BY <2>4, <3>4
      <4> QED
        BY <3>1, <3>2, <3>3, <4>1
    <3>5. CASE x = e
      <4>1. entry[x].raw # "none" /\ entry'[x].count > 0 /\ entry[x].count > 0
            /\ entry'[x].raw = entry[x].raw /\ entry'[x].inner = entry[x].inner /\ entry'[x].aux = entry[x].aux
            /\ entry'[x].count # -1 /\ entry'[x].count # 0
        BY <1>1, <2>3, <2>4, <3>5 DEF Made
      <4> QED
        BY <3>2, <3>3, <4>1
    <3> QED
      BY <3>4, <3>5
  <2>12. ReleasedIsRemoved'
    <3> SUFFICES ASSUME NEW k \in Keys, conns'[k] # None, entry'[conns'[k]].count = -1
                 PROVE  \/ \E q \in Procs : \E i \in DOMAIN proc'[q].ops : proc'[q].ops[i] = Unref(conns'[k])
                        \/ \E i \in DOMAIN closer'.ops : closer'.ops[i] = Unref(conns'[k])
      BY DEF ReleasedIsRemoved, Unref
    <3>1. conns'[k] = conns[k] /\ conns[k] \in Entries
      BY <1>0 DEF DialerTypes, RefOrNone
    <3>2. entry[conns[k]].count = -1
      BY <2>3, <2>4, <3>1
    <3>3. \/ \E q \in Procs : \E i \in DOMAIN proc[q].ops : proc[q].ops[i] = Unref(conns[k])
          \/ \E i \in DOMAIN closer.ops : closer.ops[i] = Unref(conns[k])
      BY <1>0, <3>1, <3>2 DEF ReleasedIsRemoved, Unref
    <3>4. \A q \in Procs : proc'[q].ops = proc[q].ops
      BY <2>2, <2>5
    <3> QED
      BY <3>1, <3>3, <3>4
  <2> QED
    BY <2>7, <2>9, <2>10, <2>11, <2>12 DEF DialerInv
<1> QED
  BY <1>2, <1>3

\* The reference to a cached connection, without the lock.
LEMMA RefKeeps ==
  ASSUME DialerInv, NEW p \in Procs, Ref(p)
  PROVE  DialerInv'
BY TakeRefKeeps DEF Ref, Runs, DialerInv, DialerTypes

\* The same, after the redundant connection was closed under the lock.
LEMMA LostKeeps ==
  ASSUME DialerInv, NEW p \in Procs, Lost(p)
  PROVE  DialerInv'
BY TakeRefKeeps DEF Lost, Runs
\* What is held changes at four places.
LEMMA HoldChanges ==
  ASSUME NEW o \in Holders, NEW a \in Holders, NEW b \in Holders, NEW c \in Holders,
         a # b, a # c, b # c, o # a, o # b, o # c, \A h \in Holders \ {o, a, b, c} : hold'[h] = hold[h], NEW x
  PROVE  Number(hold', x)
           = Number(hold, x) - One(hold[o] = x) - One(hold[a] = x) - One(hold[b] = x) - One(hold[c] = x)
               + One(hold'[o] = x) + One(hold'[a] = x) + One(hold'[b] = x) + One(hold'[c] = x)
<1> DEFINE f == hold
           g == hold'
           f1 == [f EXCEPT ![o] = g[o]]
<1>0. DOMAIN f = Holders /\ f = [h \in Holders |-> f[h]] /\ \A h \in Holders \ {o, a, b, c} : g[h] = f[h]
  BY HoldIs
<1> HIDE DEF f, g
<1>1. /\ \A h \in Holders : h # o => f1[h] = f[h]
      /\ f1[o] = g[o] /\ f1[a] = f[a] /\ f1[b] = f[b] /\ f1[c] = f[c]
      /\ f1 = [h \in Holders |-> f1[h]]
  BY <1>0
<1>2. \A h \in Holders \ {a, b, c} : g[h] = f1[h]
  BY <1>0, <1>1
<1> HIDE DEF f1
<1>3. Number(f1, x) = Number(f, x) - One(f[o] = x) + One(g[o] = x)
  <2>1. \A h \in Holders : h # o => f1[h] = f[h]
    BY <1>1
  <2>2. Number(f1, x) = Number(f, x) - One(f[o] = x) + One(f1[o] = x)
    BY <2>1, Change
  <2> QED
    BY <1>1, <2>2
<1>4. Number(g, x) = Number(f1, x) - One(f1[a] = x) - One(f1[b] = x) - One(f1[c] = x)
                                   + One(g[a] = x) + One(g[b] = x) + One(g[c] = x)
  <2>1. f1 = [h \in Holders |-> f1[h]]
    BY <1>1
  <2> QED
    BY <1>2, <2>1, Changes
<1>5. /\ One(f[o] = x) \in Int /\ One(f[a] = x) \in Int /\ One(f[b] = x) \in Int /\ One(f[c] = x) \in Int
      /\ One(g[o] = x) \in Int /\ One(g[a] = x) \in Int /\ One(g[b] = x) \in Int /\ One(g[c] = x) \in Int
  BY DEF One
<1>6. Number(f, x) \in Int /\ Number(f1, x) \in Int /\ Number(g, x) \in Int
  BY NumberIs
<1> QED
  BY <1>1, <1>3, <1>4, <1>5, <1>6 DEF f, g

\* A new connection takes over what the goroutine that made it has in hand.
LEMMA MakeChanges ==
  ASSUME DialerInv, NEW p \in Procs, NEW e \in Entries, NEW x \in Entries,
         \A q \in Procs \ {p} : proc'[q] = proc[q], closer' = closer, \A y \in Entries \ {e} : entry'[y] = entry[y],
         proc[p].at = "check", proc[p].ops = <<>>, HeldBy(proc'[p].ops) = None,
         entry[e].inner = None, entry[e].aux = None,
         entry'[e].inner = proc[p].conn, entry'[e].aux = proc[p].aux
  PROVE  Number(hold', x) = Number(hold, x) + One(InHand(proc'[p]) = x) + One(proc'[p].aux = x)
<1> DEFINE o == <<"conn", p>>
           a == <<"aux", p>>
           b == <<"inner", e>>
           c == <<"cred", e>>
<1>0. DOMAIN proc = Procs /\ None \notin Entries
  BY OfProc
<1>1. /\ o \in Holders /\ a \in Holders /\ b \in Holders /\ c \in Holders
      /\ a # b /\ a # c /\ b # c /\ o # a /\ o # b /\ o # c
  BY Places
<1>3. InHand(proc[p]) = proc[p].conn /\ HeldBy(proc[p].ops) = None
  BY DEF InHand, HeldBy
<1>4. \A h \in Holders \ {o, a, b, c} : hold'[h] = hold[h]
  <2> SUFFICES ASSUME NEW h \in Holders, h \notin {o, a, b, c} PROVE hold'[h] = hold[h]
    OBVIOUS
  <2>1. CASE h = <<"op", p>>
    <3>1. hold'[<<"op", p>>] = hold[<<"op", p>>]
      BY <1>3, HoldIs, HoldNext
    <3> QED
      BY <2>1, <3>1
  <2>2. CASE h # <<"op", p>>
    <3>1. /\ \A q \in {p} : h \notin {<<"conn", q>>, <<"aux", q>>, <<"op", q>>}
          /\ h \notin {<<"inner", e>>, <<"cred", e>>}
          /\ h # <<"closer", None>> \/ closer' = closer
      BY <2>2
    <3> QED
      BY <3>1, ElsewhereHeld
  <2> QED
    BY <2>1, <2>2
<1>5. /\ hold[o] = proc[p].conn /\ hold[a] = proc[p].aux /\ hold[b] = None /\ hold[c] = None
      /\ hold'[o] = InHand(proc'[p]) /\ hold'[a] = proc'[p].aux /\ hold'[b] = proc[p].conn /\ hold'[c] = proc[p].aux
  BY <1>3, HoldIs, HoldNext
<1> HIDE DEF o, a, b, c
<1>7. Number(hold', x)
        = Number(hold, x) - One(hold[o] = x) - One(hold[a] = x) - One(hold[b] = x) - One(hold[c] = x)
            + One(hold'[o] = x) + One(hold'[a] = x) + One(hold'[b] = x) + One(hold'[c] = x)
  BY <1>1, <1>4, HoldChanges
<1>8. /\ One(None = x) = 0 /\ One(proc[p].conn = x) \in Int /\ One(proc[p].aux = x) \in Int
      /\ One(InHand(proc'[p]) = x) \in Int /\ One(proc'[p].aux = x) \in Int /\ Number(hold, x) \in Int
  BY <1>0, NumberIs DEF One
<1> QED
  BY <1>5, <1>7, <1>8
\* The second look at the cache: the new connection enters it, or it is redundant
\* and only the goroutine that made it knows of it.
LEMMA CheckKeeps ==
  ASSUME DialerInv, NEW p \in Procs, Check(p)
  PROVE  DialerInv'
<1> DEFINE k == proc[p].key
           e == <<p[1], k>>
           new == [raw |-> "open", count |-> IF conns[k] = None THEN 1 ELSE 0,
                   inner |-> IF k = "multi" THEN proc[p].conn ELSE None,
                   aux |-> IF k = DirectKey(p) THEN proc[p].aux ELSE None]
           q0 == [proc[p] EXCEPT !.aux = None]
           o == [do |-> "close", e |-> e]
           lost == [q0 EXCEPT !.at = "lost", !.conn = conns[k], !.ops = <<o>>]
           r == IF conns[k] = None THEN Returned(p, q0, e) ELSE lost
<1>0. /\ DialerTypes /\ ProcsOK /\ LegsOK /\ CloserOK /\ EntriesOK /\ ConnsOK /\ CountsOK
      /\ ReleasedIsRemoved
  BY DEF DialerInv
<1>1. /\ proc[p] \in ProcType /\ At(p, proc[p]) /\ ProcOK(p) /\ k \in Keys /\ p[1] \in Dials /\ None \notin Entries
      /\ DOMAIN proc = Procs /\ proc[p].conn \in RefOrNone /\ proc[p].aux \in RefOrNone
  BY OfProc
<1>2. /\ proc[p].at = "check" /\ proc[p].ops = <<>> /\ UNCHANGED <<opts, ctx, closer, crashed>>
      /\ entry' = [entry EXCEPT ![e] = new]
      /\ proc' = [proc EXCEPT ![p] = r]
      /\ conns[k] = None => conns' = [conns EXCEPT ![k] = e] /\ mu' = mu
      /\ conns[k] # None => conns' = conns /\ mu' = p
  BY DEF Check, Runs, Set
<1>3. /\ e \in Entries /\ e[1] = p[1] /\ e[2] = k /\ MadeBy[k] = p[2] /\ e # None
      /\ conns[k] \in RefOrNone /\ (conns[k] # None => conns[k] \in Entries)
  BY <1>0, <1>1, <1>2 DEF Entries, At, DialerTypes, RefOrNone
<1>4. ~Made(e) /\ entry[e] = NoEntry
  <2>1. Level("check", k) = Rank[k] /\ Rank[k] \in Nat
    BY <1>1, Levels
  <2>2. ~Made(e)
    BY <1>1, <1>2, <1>3, <2>1 DEF ProcOK
  <2> QED
    BY <1>0, <1>3, <2>2 DEF EntriesOK, Made
<1>5. /\ proc[p].conn # None <=> k = "multi"
      /\ proc[p].conn # None => proc[p].conn[2] \in Top /\ Made(proc[p].conn)
      /\ proc[p].aux # None => k = DirectKey(p) /\ proc[p].aux[2] \in Ext /\ Made(proc[p].aux)
  BY <1>1, <1>2 DEF At, ProcOK
<1>6. /\ new.raw = "open" /\ new.inner = proc[p].conn /\ new.aux = proc[p].aux
      /\ new.count = (IF conns[k] = None THEN 1 ELSE 0) /\ new \in EntryType
  BY <1>1, <1>5 DEF EntryType
<1>7. /\ entry' \in [Entries -> EntryType] /\ entry'[e] = new /\ \A x \in Entries \ {e} : entry'[x] = entry[x]
  BY <1>0, <1>2, <1>3, <1>6 DEF DialerTypes
<1>8. /\ q0 \in ProcType /\ q0.at = "check" /\ q0.key = k /\ q0.aux = None /\ q0.ops = <<>>
      /\ q0.conn = proc[p].conn
  BY <1>1, <1>2 DEF ProcType, RefOrNone
<1>9. conns[k] # None => conns[k][2] = k /\ Made(conns[k]) /\ entry[conns[k]].count # 0 /\ conns[k] # e
  BY <1>0, <1>1, <1>4 DEF ConnsOK
<1> HIDE DEF new, e, k
<1>10. o \in [do : {"deref", "close", "unref"}, e : Entries] /\ o.do = "close" /\ o.e = e
  BY <1>3
<1>11. conns[k] # None =>
         /\ lost \in ProcType /\ lost.at = "lost" /\ lost.key = k /\ lost.conn = conns[k] /\ lost.aux = None
         /\ lost.ops = <<o>>
  <2>1. <<o>> \in Ops
    BY <1>10 DEF Ops
  <2> HIDE DEF o, q0
  <2> QED
    BY <1>3, <1>8, <2>1 DEF ProcType, Ats
<1> HIDE DEF o, q0, lost
<1>12. /\ r \in ProcType /\ At(p, r) /\ Level(r.at, r.key) >= Rank[k] + 1
       /\ r.at # "idle" /\ (r.at \in {"lookup", "dial"} => r.key # "multi")
       /\ conns[k] = None => /\ r.ops = <<>> /\ r.at \notin {"ref", "lost"}
                             /\ \/ r.conn = None /\ r.aux = e
                                \/ r.conn = e /\ r.aux = None
       /\ conns[k] # None => r = lost
  <2>1. CASE conns[k] = None
    <3>1. r = Returned(p, q0, e)
      BY <2>1
    <3> HIDE DEF r
    <3> QED
      BY <1>1, <1>3, <1>8, <2>1, <3>1, ReturnedIs
  <2>2. CASE conns[k] # None
    <3>1. r = lost
      BY <2>2
    <3> HIDE DEF r
    <3>2. Level("lost", k) = Rank[k] + 1 /\ Rank[k] \in Nat
      BY <1>1, Levels
    <3>3. At(p, r)
      BY <1>3, <1>9, <1>11, <2>2, <3>1 DEF At
    <3> QED
      BY <1>11, <2>2, <3>1, <3>2, <3>3
  <2> QED
    BY <2>1, <2>2
<1> HIDE DEF r
<1>13. /\ Len(<<o>>) = 1 /\ <<o>>[1] = o /\ Head(<<o>>) = o /\ <<o>> # <<>>
       /\ HeldBy(<<o>>) = None /\ Shaped(<<o>>)
  <2>1. <<o>> \in Ops /\ Len(<<o>>) = 1 /\ <<o>>[1] = o /\ Head(<<o>>) = o /\ <<o>> # <<>>
    BY <1>10 DEF Ops
  <2> QED
    BY <1>10, <2>1 DEF HeldBy, Shaped
<1>14. \A x \in Entries : Made(x) => Made(x)' /\ (entry'[x].count = 0 <=> entry[x].count = 0)
  BY <1>4, <1>7 DEF Made
<1>15. \A x \in Entries : x # e /\ Made(x)' => Made(x)
  BY <1>7 DEF Made
<1>16. /\ Shaped(r.ops) /\ HeldBy(r.ops) = None
       /\ \A i \in 1 .. Len(r.ops) : entry'[r.ops[i].e].raw # "none"
       /\ r.ops # <<>> /\ Head(r.ops).do = "close" => entry'[Head(r.ops).e].count = 0
  <2>1. CASE conns[k] = None
    BY <1>12, <2>1 DEF Shaped, HeldBy
  <2>2. CASE conns[k] # None
    <3>1. r.ops = <<o>>
      BY <1>11, <1>12, <2>2
    <3>2. \A i \in 1 .. Len(<<o>>) : <<o>>[i] = o
      BY <1>13
    <3>3. entry'[o.e].raw # "none" /\ entry'[o.e].count = 0
      BY <1>6, <1>7, <1>10, <2>2
    <3> QED
      BY <1>13, <3>1, <3>2, <3>3
  <2> QED
    BY <2>1, <2>2
<1>17. /\ r.conn # None => entry'[r.conn].raw # "none"
       /\ r.aux # None => entry'[r.aux].raw # "none"
       /\ r.at \in {"ref", "lost"} => entry'[r.conn].count # 0
  <2>1. CASE conns[k] = None
    BY <1>3, <1>6, <1>7, <1>12, <2>1
  <2>2. CASE conns[k] # None
    BY <1>3, <1>7, <1>9, <1>11, <1>12, <2>2 DEF Made
  <2> QED
    BY <2>1, <2>2
<1>18. conns' \in [Keys -> RefOrNone] /\ mu' \in Procs \cup {None} /\ crashed' \in BOOLEAN
  BY <1>0, <1>1, <1>2, <1>3 DEF DialerTypes, RefOrNone
<1>19. DialerTypes' /\ ProcsOK' /\ LegsOK' /\ CloserOK'
  <2>1. \A x \in Entries : x # <<p[1], proc[p].key>> /\ Made(x)' => Made(x)
    BY <1>15 DEF e, k
  <2>2. Level(r.at, r.key) >= Rank[proc[p].key] + 1
    BY <1>12 DEF k
  <2>3. /\ proc' = [proc EXCEPT ![p] = r] /\ UNCHANGED <<opts, ctx, closer>>
        /\ entry' \in [Entries -> EntryType] /\ proc[p].at = "check"
    BY <1>2, <1>7
  <2> QED
    BY <1>12, <1>14, <1>16, <1>17, <1>18, <2>1, <2>2, <2>3, OneAdvances
<1>20. CountsOK'
  <2> SUFFICES ASSUME NEW x \in Entries
               PROVE  /\ entry'[x].count = -1 => Number(hold', x) = 0
                      /\ entry'[x].count # -1 => Number(hold', x) <= entry'[x].count
                      /\ entry'[x].count # -1 /\ x[2] \notin Ext => Number(hold', x) = entry'[x].count
    BY DEF CountsOK
  <2>1. /\ entry[x].count = -1 => Number(hold, x) = 0
        /\ entry[x].count # -1 => Number(hold, x) <= entry[x].count
        /\ entry[x].count # -1 /\ x[2] \notin Ext => Number(hold, x) = entry[x].count
        /\ Number(hold, x) \in Nat /\ Number(hold', x) \in Nat /\ entry[x].count \in Nat \cup {-1}
    BY <1>0, NumberIs DEF CountsOK, DialerTypes, EntryType
  <2>2. Number(hold', x) = Number(hold, x) + One(InHand(r) = x) + One(r.aux = x)
    <3>1. /\ entry[e].inner = None /\ entry[e].aux = None
          /\ entry'[e].inner = proc[p].conn /\ entry'[e].aux = proc[p].aux
      BY <1>4, <1>6, <1>7 DEF NoEntry
    <3>2. /\ closer' = closer /\ proc[p].at = "check" /\ proc[p].ops = <<>> /\ e \in Entries
          /\ proc'[p] = r /\ \A q \in Procs \ {p} : proc'[q] = proc[q]
      BY <1>1, <1>2, <1>3
    <3>3. HeldBy(proc'[p].ops) = None
      BY <1>16, <3>2
    <3>4. \A y \in Entries \ {e} : entry'[y] = entry[y]
      BY <1>7
    <3>5. Number(hold', x) = Number(hold, x) + One(InHand(proc'[p]) = x) + One(proc'[p].aux = x)
      BY <3>1, <3>2, <3>3, <3>4, MakeChanges
    <3> QED
      BY <3>2, <3>5
  <2>3. One(None = x) = 0 /\ One(e = x) \in Nat
    BY <1>1 DEF One
  <2>4. CASE conns[k] = None
    <3>1. InHand(r) = r.conn
      BY <1>12, <2>4 DEF InHand
    <3>2. One(r.conn = x) + One(r.aux = x) = One(e = x)
      BY <1>12, <2>3, <2>4
    <3>5. One(r.conn = x) \in Nat /\ One(r.aux = x) \in Nat
      BY DEF One
    <3>3. Number(hold', x) = Number(hold, x) + One(e = x)
      BY <2>1, <2>2, <3>1, <3>2, <3>5
    <3>4. CASE x = e
      <4>1. entry[x].count = 0 /\ entry'[x].count = 1 /\ One(e = x) = 1
        BY <1>4, <1>6, <1>7, <2>4, <3>4 DEF NoEntry, One
      <4> QED
        BY <2>1, <3>3, <4>1
    <3>6. CASE x # e
      <4>1. entry'[x] = entry[x] /\ One(e = x) = 0
        BY <1>7, <3>6 DEF One
      <4> QED
        BY <2>1, <3>3, <4>1
    <3> QED
      BY <3>4, <3>6
  <2>5. CASE conns[k] # None
    <3>1. InHand(r) = None /\ r.aux = None
      BY <1>11, <1>12, <2>5 DEF InHand
    <3>2. Number(hold', x) = Number(hold, x)
      BY <2>1, <2>2, <2>3, <3>1
    <3>3. entry'[x].count = entry[x].count
      BY <1>4, <1>6, <1>7, <2>5 DEF NoEntry
    <3> QED
      BY <2>1, <3>2, <3>3
  <2> QED
    BY <2>4, <2>5
<1>21. ConnsOK'
  <2> SUFFICES ASSUME NEW j \in Keys, conns'[j] # None
               PROVE  conns'[j][2] = j /\ entry'[conns'[j]].raw # "none" /\ entry'[conns'[j]].count # 0
    BY DEF ConnsOK, Made
  <2>1. CASE conns[k] = None /\ j = k
    <3>1. conns'[j] = e
      BY <1>0, <1>1, <1>2, <2>1 DEF DialerTypes
    <3> QED
      BY <1>3, <1>6, <1>7, <2>1, <3>1
  <2>2. CASE ~(conns[k] = None /\ j = k)
    <3>1. conns'[j] = conns[j] /\ conns[j] \in Entries
      BY <1>0, <1>2, <2>2 DEF DialerTypes, RefOrNone
    <3>2. conns[j][2] = j /\ Made(conns[j]) /\ entry[conns[j]].count # 0
      BY <1>0, <3>1 DEF ConnsOK
    <3> QED
      BY <1>14, <3>1, <3>2 DEF Made
  <2> QED
    BY <2>1, <2>2
<1>22. EntriesOK'
  <2>1. \A x \in Entries : Closes(x) => Closes(x)'
    <3> SUFFICES ASSUME NEW x \in Entries, Closes(x) PROVE Closes(x)'
      OBVIOUS
    <3>1. PICK q \in Procs : proc[q].ops # <<>> /\ Head(proc[q].ops) = [do |-> "close", e |-> x]
      BY DEF Closes
    <3>2. proc'[q] = proc[q]
      BY <1>1, <1>2, <3>1
    <3> QED
      BY <3>1, <3>2 DEF Closes
  <2> SUFFICES ASSUME NEW x \in Entries
      PROVE  /\ entry'[x].raw = "none" => entry'[x] = NoEntry
             /\ entry'[x].inner # None => /\ x[2] = "multi" /\ entry'[x].raw = "open"
                                          /\ entry'[x].inner[2] \in Top /\ entry'[entry'[x].inner].raw # "none"
             /\ entry'[x].aux # None => /\ x[2] \in {"grpc", "lgrpc"} /\ entry'[x].raw = "open"
                                        /\ entry'[x].aux[2] \in Ext /\ entry'[entry'[x].aux].raw # "none"
             /\ entry'[x].raw = "open" /\ x[2] = "multi" => entry'[x].inner # None
             /\ entry'[x].count = -1 => entry'[x].raw = "closed"
             /\ entry'[x].count = 0 /\ entry'[x].raw = "open" => Closes(x)'
             /\ closer'.at = "idle" /\ entry'[x].count > 0 => entry'[x].raw = "open"
    BY DEF EntriesOK, Made
  <2>2. CASE x # e
    <3>1. /\ entry[x].raw = "none" => entry[x] = NoEntry
          /\ entry[x].inner # None => /\ x[2] = "multi" /\ entry[x].raw = "open"
                                      /\ entry[x].inner[2] \in Top /\ Made(entry[x].inner)
          /\ entry[x].aux # None => /\ x[2] \in {"grpc", "lgrpc"} /\ entry[x].raw = "open"
                                    /\ entry[x].aux[2] \in Ext /\ Made(entry[x].aux)
          /\ entry[x].raw = "open" /\ x[2] = "multi" => entry[x].inner # None
          /\ entry[x].count = -1 => entry[x].raw = "closed"
          /\ entry[x].count = 0 /\ entry[x].raw = "open" => Closes(x)
          /\ closer.at = "idle" /\ entry[x].count > 0 => entry[x].raw = "open"
      BY <1>0 DEF EntriesOK
    <3>2. /\ entry[x].inner # None => entry'[entry[x].inner].raw # "none"
          /\ entry[x].aux # None => entry'[entry[x].aux].raw # "none"
      <4>1. entry[x].inner \in RefOrNone /\ entry[x].aux \in RefOrNone
        BY <1>0 DEF DialerTypes, EntryType
      <4> QED
        BY <1>14, <3>1, <4>1 DEF RefOrNone, Made
    <3>3. entry'[x] = entry[x] /\ closer' = closer
      BY <1>2, <1>7, <2>2
    <3> QED
      BY <2>1, <3>1, <3>2, <3>3
  <2>3. CASE x = e
    <3>1. /\ entry'[x].raw = "open" /\ entry'[x].inner = proc[p].conn /\ entry'[x].aux = proc[p].aux
          /\ entry'[x].count = (IF conns[k] = None THEN 1 ELSE 0) /\ x[2] = k
      BY <1>3, <1>6, <1>7, <2>3
    <3>2. /\ proc[p].conn # None => entry'[proc[p].conn].raw # "none"
          /\ proc[p].aux # None => entry'[proc[p].aux].raw # "none"
      BY <1>1, <1>5, <1>14 DEF RefOrNone, Made
    <3>3. DirectKey(p) \in {"grpc", "lgrpc"}
      BY DEF DirectKey
    <3>4. conns[k] # None => Closes(x)'
      <4>1. SUFFICES ASSUME conns[k] # None PROVE Closes(x)'
        OBVIOUS
      <4>2. proc'[p].ops = <<o>>
        BY <1>1, <1>2, <1>11, <1>12, <4>1
      <4>3. Head(<<o>>) = [do |-> "close", e |-> x] /\ <<o>> # <<>>
        BY <1>13, <2>3 DEF o
      <4> QED
        BY <4>2, <4>3 DEF Closes
    <3> QED
      BY <1>5, <3>1, <3>2, <3>3, <3>4
  <2> QED
    BY <2>2, <2>3
<1>23. ReleasedIsRemoved'
  <2> SUFFICES ASSUME NEW j \in Keys, conns'[j] # None, entry'[conns'[j]].count = -1
               PROVE  \/ \E q \in Procs : \E i \in DOMAIN proc'[q].ops : proc'[q].ops[i] = Unref(conns'[j])
                      \/ \E i \in DOMAIN closer'.ops : closer'.ops[i] = Unref(conns'[j])
    BY DEF ReleasedIsRemoved, Unref
  <2>1. conns'[j] # e
    BY <1>6, <1>7
  <2>2. conns'[j] = conns[j] /\ conns[j] \in Entries
    BY <1>0, <1>1, <1>2, <2>1 DEF DialerTypes, RefOrNone
  <2>3. entry[conns[j]].count = -1
    BY <1>7, <2>1, <2>2
  <2>4. \/ \E q \in Procs : \E i \in DOMAIN proc[q].ops : proc[q].ops[i] = Unref(conns[j])
        \/ \E i \in DOMAIN closer.ops : closer.ops[i] = Unref(conns[j])
    BY <1>0, <2>2, <2>3 DEF ReleasedIsRemoved, Unref
  <2>5. CASE \E q \in Procs : \E i \in DOMAIN proc[q].ops : proc[q].ops[i] = Unref(conns[j])
    <3>1. PICK q \in Procs : \E i \in DOMAIN proc[q].ops : proc[q].ops[i] = Unref(conns[j])
      BY <2>5
    <3>2. DOMAIN <<>> = {}
      OBVIOUS
    <3>3. q # p
      BY <1>2, <3>1, <3>2
    <3>4. proc'[q] = proc[q]
      BY <1>1, <1>2, <3>3
    <3> QED
      BY <2>2, <3>1, <3>4
  <2> QED
    BY <1>2, <2>2, <2>4, <2>5
<1> QED
  BY <1>19, <1>20, <1>21, <1>22, <1>23 DEF DialerInv
----------------------------------------------------------------------------
(* Dialer: the theorems *)

\* The invariant holds before anything is dialed.
LEMMA DialerInitInv == DialerInit => DialerInv
<1> SUFFICES ASSUME DialerInit PROVE DialerInv
  OBVIOUS
<1>0. None \notin Entries /\ None \in RefOrNone /\ <<>> \in Ops
  BY DialerAssumption DEF RefOrNone, Ops
<1>1. /\ \A p \in Procs : proc[p] = NoProc
      /\ \A e \in Entries : entry[e] = NoEntry
      /\ \A k \in Keys : conns[k] = None
      /\ closer = [at |-> "idle", pend |-> {}, ops |-> <<>>]
  BY DEF DialerInit
<1>2. NoProc \in ProcType /\ NoEntry \in EntryType
  BY <1>0 DEF NoProc, NoEntry, ProcType, EntryType, Ats, Keys
<1>3. DialerTypes
  <2>1. closer \in CloserType
    BY <1>0, <1>1 DEF CloserType
  <2> QED
    BY <1>0, <1>2, <2>1 DEF DialerInit, DialerTypes
<1>4. ProcsOK
  <2> SUFFICES ASSUME NEW p \in Procs PROVE ProcOK(p)
    BY DEF ProcsOK
  <2>1. /\ proc[p].at = "idle" /\ proc[p].key = "multi" /\ proc[p].conn = None /\ proc[p].aux = None
        /\ proc[p].ops = <<>>
    BY <1>1 DEF NoProc
  <2>2. At(p, proc[p]) /\ Shaped(proc[p].ops)
    BY <2>1 DEF At, Shaped
  <2>3. \A k \in Keys : ~Made(<<p[1], k>>)
    <3>1. \A k \in Keys : <<p[1], k>> \in Entries
      BY Places DEF Entries
    <3> QED
      BY <1>1, <3>1 DEF Made, NoEntry
  <2> QED
    BY <2>1, <2>2, <2>3 DEF ProcOK
<1>5. LegsOK
  BY <1>1, LegsOf DEF LegsOK, NoProc, Main
<1>6. CloserOK /\ ConnsOK
  BY <1>1 DEF CloserOK, ConnsOK, Shaped
<1>7. EntriesOK
  BY <1>1 DEF EntriesOK, NoEntry
<1>8. CountsOK
  <2> SUFFICES ASSUME NEW e \in Entries PROVE Number(hold, e) = 0
    BY <1>1 DEF CountsOK, NoEntry
  <2>1. \A h \in Holders : hold[h] = None
    <3> SUFFICES ASSUME NEW h \in Holders PROVE hold[h] = None
      OBVIOUS
    <3>1. InHand(NoProc) = None /\ NoProc.aux = None /\ HeldBy(NoProc.ops) = None /\ HeldBy(<<>>) = None
      BY DEF InHand, HeldBy, NoProc
    <3>2. NoEntry.inner = None /\ NoEntry.aux = None
      BY DEF NoEntry
    <3>3. \A p \in Procs : hold[<<"conn", p>>] = None /\ hold[<<"aux", p>>] = None /\ hold[<<"op", p>>] = None
      BY <1>1, <3>1, HoldIs
    <3>4. \A x \in Entries : hold[<<"inner", x>>] = None /\ hold[<<"cred", x>>] = None
      BY <1>1, <3>2, HoldIs
    <3>5. hold[<<"closer", None>>] = None
      BY <1>1, <3>1, HoldIs
    <3> QED
      BY <3>3, <3>4, <3>5, Places
  <2>2. ~(Number(hold, e) > 0)
    BY <1>0, <2>1, SomeHolder
  <2> QED
    BY <2>2, NumberIs
<1>9. ReleasedIsRemoved
  BY <1>1 DEF ReleasedIsRemoved
<1> QED
  BY <1>3, <1>4, <1>5, <1>6, <1>7, <1>8, <1>9 DEF DialerInv

\* Every step keeps it.
LEMMA DialerNextInv == DialerInv /\ [DialerNext]_dialerVars => DialerInv'
<1> SUFFICES ASSUME DialerInv, [DialerNext]_dialerVars PROVE DialerInv'
  OBVIOUS
<1>1. CASE \E p \in Procs : Step(p)
  <2>1. PICK p \in Procs : Step(p)
    BY <1>1
  <2> QED
    BY <2>1, ClosingKeeps, LookupKeeps, RefKeeps, CheckKeeps, LostKeeps, LostFailsKeeps, DialGRPCKeeps,
       ExchangeKeeps, MulticastDNSKeeps, SecureKeeps DEF Step
<1>2. CASE \E d \in Dials : Dial(d) \/ DialStep(d) \/ CloseConn(d) \/ Cancel(d)
  <2>1. PICK d \in Dials : Dial(d) \/ DialStep(d) \/ CloseConn(d) \/ Cancel(d)
    BY <1>2
  <2>2. CASE DialStep(d)
    BY <2>2, StartLegsKeeps, GatherKeeps, GatheredKeeps DEF DialStep
  <2> QED
    BY <2>1, <2>2, DialKeeps, CloseConnKeeps, CancelKeeps
<1>3. CASE CloseDialer \/ CloseNext
  BY <1>3, CloseDialerKeeps, CloseNextKeeps
<1>4. CASE UNCHANGED dialerVars
  <2>1. hold' = hold
    BY <1>4 DEF dialerVars, hold
  <2>2. LegsOK' /\ CloserOK' /\ ConnsOK' /\ DialerTypes' /\ ReleasedIsRemoved'
    BY <1>4 DEF dialerVars, DialerInv, LegsOK, CloserOK, ConnsOK, DialerTypes, ReleasedIsRemoved, Made
  <2>3. ProcsOK'
    BY <1>4 DEF dialerVars, DialerInv, ProcsOK, ProcOK, Made
  <2>4. EntriesOK'
    <3>1. \A x \in Entries : Closes(x) => Closes(x)'
      BY <1>4 DEF dialerVars, Closes
    <3> QED
      BY <1>4, <3>1 DEF dialerVars, DialerInv, EntriesOK, Made
  <2>5. CountsOK'
    BY <1>4, <2>1 DEF dialerVars, DialerInv, CountsOK
  <2> QED
    BY <2>2, <2>3, <2>4, <2>5 DEF DialerInv
<1> QED
  BY <1>1, <1>2, <1>3, <1>4 DEF DialerNext

\* A connection somebody holds is counted, and so is open while Dialer.Close has
\* not been called.
LEMMA HeldIsOpen ==
  ASSUME DialerInv, closer.at = "idle", NEW e \in Entries, NEW h \in Holders, hold[h] = e
  PROVE  entry[e].raw = "open"
<1>1. Number(hold, e) > 0 /\ Number(hold, e) \in Nat
  BY HolderCounts, NumberIs
<1>2. /\ entry[e].count \in Nat \cup {-1}
      /\ entry[e].count = -1 => Number(hold, e) = 0
      /\ entry[e].count # -1 => Number(hold, e) <= entry[e].count
      /\ entry[e].count > 0 => entry[e].raw = "open"
  BY DEF DialerInv, DialerTypes, EntryType, CountsOK, EntriesOK
<1> QED
  BY <1>1, <1>2

\* It implies what CacheInv says.
LEMMA DialerInvCache == DialerInv => CacheInv
<1> SUFFICES ASSUME DialerInv PROVE CacheInv
  OBVIOUS
<1>1. DialerTypeOK
  BY DEF DialerInv, DialerTypes, DialerTypeOK, ProcType, EntryType, CloserType
<1>2. OpenWhileHeld
  <2> SUFFICES ASSUME NEW d \in Dials, proc[Main(d)].at = "open", closer.at = "idle"
               PROVE  LET e == proc[Main(d)].conn IN
                      entry[e].raw = "open" /\ entry[e].inner # None /\ entry[entry[e].inner].raw = "open"
    BY DEF OpenWhileHeld
  <2> DEFINE p == Main(d)
             e == proc[p].conn
  <2>1. p \in Procs
    BY LegsOf
  <2> HIDE DEF p
  <2>2. e \in Entries /\ e[2] = "multi" /\ InHand(proc[p]) = e
    <3>1. At(p, proc[p]) /\ proc[p].conn \in RefOrNone
      BY <2>1, OfProc
    <3> QED
      BY <3>1 DEF At, RefOrNone, InHand, p
  <2>3. entry[e].raw = "open"
    <3>1. <<"conn", p>> \in Holders /\ hold[<<"conn", p>>] = e
      BY <2>1, <2>2, HoldIs, Places
    <3> QED
      BY <2>2, <3>1, HeldIsOpen
  <2>4. entry[e].inner # None /\ entry[e].inner \in Entries
    BY <2>2, <2>3 DEF DialerInv, EntriesOK, DialerTypes, EntryType, RefOrNone
  <2>5. entry[entry[e].inner].raw = "open"
    <3>1. <<"inner", e>> \in Holders /\ hold[<<"inner", e>>] = entry[e].inner
      BY <2>2, HoldIs, Places
    <3> QED
      BY <2>4, <3>1, HeldIsOpen
  <2> QED
    BY <2>3, <2>4, <2>5 DEF p
<1> QED
  BY <1>1, <1>2 DEF CacheInv, DialerInv

\* ... and that nothing is left: a count is the number of references, a quiet
\* dialer leaves only connections to hold them, and those that wrap others are not
\* themselves held by a connection.
LEMMA DialerInvNothing == DialerInv => NothingLeft
<1> SUFFICES ASSUME DialerInv, Quiet PROVE \A e \in Entries : e[2] \notin Ext => entry[e].raw # "open" /\ conns[e[2]] # e
  BY DEF NothingLeft, Ext
<1>0. /\ DialerTypes /\ ProcsOK /\ CloserOK /\ EntriesOK /\ ConnsOK /\ CountsOK /\ ReleasedIsRemoved
      /\ None \notin Entries
  BY DialerAssumption DEF DialerInv
\* nothing but connections holds references, and nobody closes or takes out any
<1>1. ASSUME NEW h \in Holders, NEW e \in Entries, hold[h] = e
      PROVE  \E x \in Entries : entry[x].inner = e \/ entry[x].aux = e
  <2>1. CASE \E p \in Procs : h \in {<<"conn", p>>, <<"aux", p>>, <<"op", p>>}
    <3>1. PICK p \in Procs : h \in {<<"conn", p>>, <<"aux", p>>, <<"op", p>>}
      BY <2>1
    <3>2. At(p, proc[p]) /\ proc[p].at \in {"idle", "done", "failed", "closed"} /\ proc[p].ops = <<>>
      BY OfProc DEF Quiet
    <3>3. InHand(proc[p]) = None /\ proc[p].aux = None /\ HeldBy(proc[p].ops) = None
      BY <3>2 DEF At, InHand, HeldBy
    <3>4. hold[<<"conn", p>>] = None /\ hold[<<"aux", p>>] = None /\ hold[<<"op", p>>] = None
      BY <3>3, HoldIs
    <3> QED
      BY <1>0, <1>1, <3>1, <3>4
  <2>2. CASE \E x \in Entries : h \in {<<"inner", x>>, <<"cred", x>>}
    <3>1. PICK x \in Entries : h \in {<<"inner", x>>, <<"cred", x>>}
      BY <2>2
    <3>2. hold[<<"inner", x>>] = entry[x].inner /\ hold[<<"cred", x>>] = entry[x].aux
      BY HoldIs
    <3> QED
      BY <1>1, <3>1, <3>2
  <2>3. CASE h = <<"closer", None>>
    <3>1. HeldBy(closer.ops) = None
      BY <1>0 DEF Quiet, CloserOK, HeldBy
    <3>2. hold[<<"closer", None>>] = None
      BY <3>1, HoldIs
    <3> QED
      BY <1>0, <1>1, <2>3, <3>2
  <2> QED
    BY <2>1, <2>2, <2>3, Places
<1>2. \A e \in Entries : ~Closes(e)
  BY DEF Quiet, Closes
<1>3. ASSUME NEW e \in Entries, e[2] \notin Ext, entry[e].count \notin {-1, 0}
      PROVE  \E x \in Entries : entry[x].inner = e
  <2>1. Number(hold, e) > 0
    BY <1>0, <1>3 DEF CountsOK, DialerTypes, EntryType
  <2>2. PICK h \in Holders : hold[h] = e
    BY <2>1, SomeHolder
  <2>3. PICK x \in Entries : entry[x].inner = e \/ entry[x].aux = e
    BY <1>1, <2>2
  <2>4. entry[x].aux = e => e[2] \in Ext
    BY <1>0 DEF EntriesOK
  <2> QED
    BY <1>3, <2>3, <2>4
\* an open connection that wraps another is held by nobody
<1>4. ASSUME NEW e \in Entries, e[2] \notin Ext PROVE entry[e].count \in {-1, 0}
  <2> SUFFICES ASSUME entry[e].count \notin {-1, 0} PROVE FALSE
    OBVIOUS
  <2>1. PICK x \in Entries : entry[x].inner = e
    BY <1>3, <1>4
  <2>2. x[2] = "multi" /\ entry[x].raw = "open"
    BY <1>0, <2>1 DEF EntriesOK
  <2>3. entry[x].count \notin {-1, 0}
    BY <1>0, <1>2, <2>2 DEF EntriesOK
  <2>4. PICK y \in Entries : entry[y].inner = x
    BY <1>3, <2>2, <2>3 DEF Ext
  <2>5. x[2] \in Top
    BY <1>0, <2>4 DEF EntriesOK
  <2> QED
    BY <2>2, <2>5 DEF Top
<1>5. ASSUME NEW e \in Entries, e[2] \notin Ext PROVE entry[e].raw # "open"
  BY <1>0, <1>2, <1>4, <1>5 DEF EntriesOK
<1>6. ASSUME NEW e \in Entries, e[2] \notin Ext PROVE conns[e[2]] # e
  <2> SUFFICES ASSUME conns[e[2]] = e PROVE FALSE
    OBVIOUS
  <2>1. e[2] \in Keys /\ e # None
    BY <1>0, Places
  <2>2. entry[e].count = -1
    BY <1>0, <1>4, <1>6, <2>1 DEF ConnsOK
  <2>3. \A p \in Procs : proc[p].ops = <<>>
    BY DEF Quiet
  <2>4. closer.ops = <<>>
    BY <1>0 DEF Quiet, CloserOK
  <2>5. DOMAIN <<>> = {}
    OBVIOUS
  <2> QED
    BY <1>0, <2>1, <2>2, <2>3, <2>4, <2>5 DEF ReleasedIsRemoved
<1> QED
  BY <1>5, <1>6

\* The cache of the dialer and the references to its connections agree,
\* whatever calls of Dial and of Close on what they return overlap: a connection
\* Dial has returned is open, and so is the one it wraps, until its caller or
\* Dialer.Close closes it (reffedConn.Close and DialFunc in rpc/dialer.go).
THEOREM SharedConnectionsStayOpen == DialerSpec => []CacheInv
<1>1. DialerSpec => []DialerInv
  BY DialerInitInv, DialerNextInv, PTL DEF DialerSpec
<1> QED
  BY <1>1, DialerInvCache, PTL

\* No Dial leaves a connection behind: when every caller has failed or has closed
\* what it got, every connection but those for external authentication is closed
\* and out of the cache (dial in rpc/dial.go, DialFunc in rpc/dialer.go).
THEOREM DialsCloseWhatTheyOpen == DialerSpec => []NothingLeft
<1>1. DialerSpec => []DialerInv
  BY DialerInitInv, DialerNextInv, PTL DEF DialerSpec
<1> QED
  BY <1>1, DialerInvNothing, PTL
=============================================================================
