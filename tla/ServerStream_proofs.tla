------------------------ MODULE ServerStream_proofs ------------------------
(***************************************************************************)
(* Proofs about ServerStream, for any set of streams and any bounds:       *)
(*   - the type invariant;                                                 *)
(*   - CallsInv: calls hold tickets and never more than MaxTickets, and    *)
(*     webrtcServer.Stop waits for the handlers;                           *)
(*   - CloseInv: nothing is sent on a closed msgCh, and a closed stream    *)
(*     is released;                                                        *)
(*   - RecvInv: a handler receives the messages in order, without a gap;   *)
(*   - WireInv: headers, messages and trailers leave in this order.        *)
(* CloseInv rests on CallsInv, and the last two rest on both.              *)
(***************************************************************************)
EXTENDS ServerStream, FiniteSetTheorems, TLAPS

----------------------------------------------------------------------------
(* The type invariant. *)

\* The initial state is well typed.
LEMMA InitType == Init => TypeOK
<1> SUFFICES ASSUME Init PROVE TypeOK
  OBVIOUS
<1>1. ControlType
  BY DEF Init, ControlType, Procs, Requests, Errors, PumpLabels
<1>2. StateType
  BY DEF Init, StateType
<1>3. DataType
  BY ServerStreamAssumption DEF Init, DataType, Kinds
<1> QED
  BY <1>1, <1>2, <1>3 DEF TypeOK

\* A goroutine that is at work on a stream works on one of Streams.
LEMMA StrType ==
  ASSUME TypeOK, NEW p \in Procs, pc[p] # "idle"
  PROVE  Str(p) \in Streams
  BY DEF TypeOK, ControlType, Str, Procs

\* Every step of closeWithSendError, by pump or handler, keeps the types.
LEMMA CloseType ==
  ASSUME TypeOK, NEW p \in Procs, CloseStep(p)
  PROVE  TypeOK'
<1> USE ServerStreamAssumption
<1>0. pc[p] # "idle" => Str(p) \in Streams
  BY StrType
<1>1. CASE CloseCAS(p)
  <2>1. ControlType'
    BY <1>0, <1>1 DEF CloseCAS, StartClose, WriteResults, TypeOK, ControlType, Procs, Goto, AfterClose,
      Errors, CloseLabels, SendLabels, HdrLabels, PumpLabels, RunLabels,
      streamVars, muVars, chanVars, procVars, recvVars, sendVars, srvVars,
      connVars, mapVars
  <2>2. StateType'
    BY <1>0, <1>1 DEF CloseCAS, Str, TypeOK, StateType, streamVars, muVars, chanVars, procVars, recvVars, sendVars, srvVars,
      connVars, mapVars
  <2>3. DataType'
    BY <1>0, <1>1 DEF CloseCAS, Put, TypeOK, DataType, streamVars, muVars, chanVars, procVars, recvVars, sendVars, srvVars,
      connVars, mapVars
  <2> QED
    BY <2>1, <2>2, <2>3 DEF TypeOK
<1>2. CASE CloseCheck(p)
  <2>1. ControlType'
    BY <1>0, <1>2 DEF CloseCheck, StartClose, WriteResults, TypeOK, ControlType, Procs, Goto, AfterClose,
      Errors, CloseLabels, SendLabels, HdrLabels, PumpLabels, RunLabels,
      streamVars, muVars, chanVars, procVars, recvVars, sendVars, srvVars,
      connVars, mapVars
  <2>2. StateType'
    BY <1>0, <1>2 DEF CloseCheck, TypeOK, StateType, streamVars, muVars, chanVars, procVars, recvVars, sendVars, srvVars,
      connVars, mapVars
  <2>3. DataType'
    BY <1>0, <1>2 DEF CloseCheck, Put, TypeOK, DataType, streamVars, muVars, chanVars, procVars, recvVars, sendVars, srvVars,
      connVars, mapVars
  <2> QED
    BY <2>1, <2>2, <2>3 DEF TypeOK
<1>3. CASE HeaderCAS(p)
  <2>1. ControlType'
    BY <1>0, <1>3 DEF HeaderCAS, StartClose, WriteResults, TypeOK, ControlType, Procs, Goto, AfterClose,
      Errors, CloseLabels, SendLabels, HdrLabels, PumpLabels, RunLabels,
      streamVars, muVars, chanVars, procVars, recvVars, sendVars, srvVars,
      connVars, mapVars
  <2>2. StateType'
    BY <1>0, <1>3 DEF HeaderCAS, TypeOK, StateType, streamVars, muVars, chanVars, procVars, recvVars, sendVars, srvVars,
      connVars, mapVars
  <2>3. DataType'
    BY <1>0, <1>3 DEF HeaderCAS, Put, TypeOK, DataType, streamVars, muVars, chanVars, procVars, recvVars, sendVars, srvVars,
      connVars, mapVars
  <2> QED
    BY <2>1, <2>2, <2>3 DEF TypeOK
<1>4. CASE HeaderWrite(p)
  <2>1. ControlType'
    BY <1>0, <1>4 DEF HeaderWrite, StartClose, WriteResults, TypeOK, ControlType, Procs, Goto, AfterClose,
      Errors, CloseLabels, SendLabels, HdrLabels, PumpLabels, RunLabels,
      streamVars, muVars, chanVars, procVars, recvVars, sendVars, srvVars,
      connVars, mapVars
  <2>2. StateType'
    BY <1>0, <1>4 DEF HeaderWrite, TypeOK, StateType, streamVars, muVars, chanVars, procVars, recvVars, sendVars, srvVars,
      connVars, mapVars
  <2>3. DataType'
    BY <1>0, <1>4, SMTT(30) DEF HeaderWrite, Put, TypeOK, DataType, streamVars, muVars, chanVars, procVars, recvVars, sendVars, srvVars,
      connVars, mapVars
  <2> QED
    BY <2>1, <2>2, <2>3 DEF TypeOK
<1>5. CASE TrailerWrite(p)
  <2>1. ControlType'
    BY <1>0, <1>5 DEF TrailerWrite, StartClose, WriteResults, TypeOK, ControlType, Procs, Goto, AfterClose,
      Errors, CloseLabels, SendLabels, HdrLabels, PumpLabels, RunLabels,
      streamVars, muVars, chanVars, procVars, recvVars, sendVars, srvVars,
      connVars, mapVars
  <2>2. StateType'
    BY <1>0, <1>5 DEF TrailerWrite, TypeOK, StateType, streamVars, muVars, chanVars, procVars, recvVars, sendVars, srvVars,
      connVars, mapVars
  <2>3. DataType'
    BY <1>0, <1>5 DEF TrailerWrite, Put, TypeOK, DataType, streamVars, muVars, chanVars, procVars, recvVars, sendVars, srvVars,
      connVars, mapVars
  <2> QED
    BY <2>1, <2>2, <2>3 DEF TypeOK
<1>6. CASE CloseLock(p)
  <2>1. ControlType'
    BY <1>0, <1>6 DEF CloseLock, StartClose, WriteResults, TypeOK, ControlType, Procs, Goto, AfterClose,
      Errors, CloseLabels, SendLabels, HdrLabels, PumpLabels, RunLabels,
      streamVars, muVars, chanVars, procVars, recvVars, sendVars, srvVars,
      connVars, mapVars
  <2>2. StateType'
    BY <1>0, <1>6 DEF CloseLock, TypeOK, StateType, streamVars, muVars, chanVars, procVars, recvVars, sendVars, srvVars,
      connVars, mapVars
  <2>3. DataType'
    BY <1>0, <1>6 DEF CloseLock, Put, TypeOK, DataType, streamVars, muVars, chanVars, procVars, recvVars, sendVars, srvVars,
      connVars, mapVars
  <2> QED
    BY <2>1, <2>2, <2>3 DEF TypeOK
<1>7. CASE CloseWait(p)
  <2>1. ControlType'
    BY <1>0, <1>7 DEF CloseWait, StartClose, WriteResults, TypeOK, ControlType, Procs, Goto, AfterClose,
      Errors, CloseLabels, SendLabels, HdrLabels, PumpLabels, RunLabels,
      streamVars, muVars, chanVars, procVars, recvVars, sendVars, srvVars,
      connVars, mapVars
  <2>2. StateType'
    BY <1>0, <1>7 DEF CloseWait, TypeOK, StateType, streamVars, muVars, chanVars, procVars, recvVars, sendVars, srvVars,
      connVars, mapVars
  <2>3. DataType'
    BY <1>0, <1>7 DEF CloseWait, Put, TypeOK, DataType, streamVars, muVars, chanVars, procVars, recvVars, sendVars, srvVars,
      connVars, mapVars
  <2> QED
    BY <2>1, <2>2, <2>3 DEF TypeOK
<1> QED
  BY <1>1, <1>2, <1>3, <1>4, <1>5, <1>6, <1>7 DEF CloseStep

\* Every step of the pump outside closeWithSendError keeps the types.
LEMMA PumpType ==
  ASSUME TypeOK, PumpStep
  PROVE  TypeOK'
<1> USE ServerStreamAssumption
<1>0. pc[Pump] # "idle" => cur \in Streams
  BY DEF TypeOK, ControlType
<1>1. CASE OnHeaders
  <2>1. ControlType'
    BY <1>0, <1>1 DEF OnHeaders, StartClose, Errors, Procs, Goto, CloseLabels, PumpLabels, TypeOK, ControlType, streamVars, muVars, chanVars, procVars, recvVars, sendVars, srvVars,
      connVars, mapVars
  <2>2. StateType'
    BY <1>0, <1>1 DEF OnHeaders, TypeOK, StateType, streamVars, muVars, chanVars, procVars, recvVars, sendVars, srvVars,
      connVars, mapVars
  <2>3. DataType'
    BY <1>0, <1>1 DEF OnHeaders, TypeOK, DataType, streamVars, muVars, chanVars, procVars, recvVars, sendVars, srvVars,
      connVars, mapVars
  <2> QED
    BY <2>1, <2>2, <2>3 DEF TypeOK
<1>2. CASE HeadersAdd
  <2>1. ControlType'
    BY <1>0, <1>2 DEF HeadersAdd, Procs, Goto, CloseLabels, PumpLabels, TypeOK, ControlType, streamVars, muVars, chanVars, procVars, recvVars, sendVars, srvVars,
      connVars, mapVars
  <2>2. StateType'
    BY <1>0, <1>2 DEF HeadersAdd, TypeOK, StateType, streamVars, muVars, chanVars, procVars, recvVars, sendVars, srvVars,
      connVars, mapVars
  <2>3. DataType'
    BY <1>0, <1>2 DEF HeadersAdd, TypeOK, DataType, streamVars, muVars, chanVars, procVars, recvVars, sendVars, srvVars,
      connVars, mapVars
  <2> QED
    BY <2>1, <2>2, <2>3 DEF TypeOK
<1>3. CASE HeadersCheck
  <2>1. ControlType'
    BY <1>0, <1>3 DEF HeadersCheck, Procs, Goto, CloseLabels, PumpLabels, TypeOK, ControlType, streamVars, muVars, chanVars, procVars, recvVars, sendVars, srvVars,
      connVars, mapVars
  <2>2. StateType'
    BY <1>0, <1>3 DEF HeadersCheck, TypeOK, StateType, streamVars, muVars, chanVars, procVars, recvVars, sendVars, srvVars,
      connVars, mapVars
  <2>3. DataType'
    BY <1>0, <1>3 DEF HeadersCheck, TypeOK, DataType, streamVars, muVars, chanVars, procVars, recvVars, sendVars, srvVars,
      connVars, mapVars
  <2> QED
    BY <2>1, <2>2, <2>3 DEF TypeOK
<1>4. CASE TakeTicket
  <2>1. ControlType'
    BY <1>0, <1>4 DEF TakeTicket, StartClose, Errors, Procs, Goto, CloseLabels, PumpLabels, RunLabels, TypeOK, ControlType, streamVars, muVars, chanVars, procVars, recvVars, sendVars, srvVars,
      connVars, mapVars
  <2>2. StateType'
    BY <1>0, <1>4 DEF TakeTicket, TypeOK, StateType, streamVars, muVars, chanVars, procVars, recvVars, sendVars, srvVars,
      connVars, mapVars
  <2>3. DataType'
    BY <1>0, <1>4, ZenonT(40) DEF TakeTicket, ControlType, TypeOK, DataType, streamVars, muVars, chanVars, procVars, recvVars, sendVars, srvVars,
      connVars, mapVars
  <2> QED
    BY <2>1, <2>2, <2>3 DEF TypeOK
<1>5. CASE OnMessage
  <2>1. ControlType'
    BY <1>0, <1>5 DEF OnMessage, StartClose, Errors, Procs, Goto, CloseLabels, PumpLabels, TypeOK, ControlType, streamVars, muVars, chanVars, procVars, recvVars, sendVars, srvVars,
      connVars, mapVars
  <2>2. StateType'
    BY <1>0, <1>5 DEF OnMessage, TypeOK, StateType, streamVars, muVars, chanVars, procVars, recvVars, sendVars, srvVars,
      connVars, mapVars
  <2>3. DataType'
    BY <1>0, <1>5 DEF OnMessage, TypeOK, DataType, streamVars, muVars, chanVars, procVars, recvVars, sendVars, srvVars,
      connVars, mapVars
  <2> QED
    BY <2>1, <2>2, <2>3 DEF TypeOK
<1>6. CASE MessageLock
  <2>1. ControlType'
    BY <1>0, <1>6 DEF MessageLock, Procs, Goto, CloseLabels, PumpLabels, TypeOK, ControlType, streamVars, muVars, chanVars, procVars, recvVars, sendVars, srvVars,
      connVars, mapVars
  <2>2. StateType'
    BY <1>0, <1>6 DEF MessageLock, TypeOK, StateType, streamVars, muVars, chanVars, procVars, recvVars, sendVars, srvVars,
      connVars, mapVars
  <2>3. DataType'
    BY <1>0, <1>6 DEF MessageLock, TypeOK, DataType, streamVars, muVars, chanVars, procVars, recvVars, sendVars, srvVars,
      connVars, mapVars
  <2> QED
    BY <2>1, <2>2, <2>3 DEF TypeOK
<1>7. CASE MessageSend
  <2>1. ControlType'
    BY <1>0, <1>7 DEF MessageSend, Procs, Goto, CloseLabels, PumpLabels, TypeOK, ControlType, streamVars, muVars, chanVars, procVars, recvVars, sendVars, srvVars,
      connVars, mapVars
  <2>2. StateType'
    BY <1>0, <1>7 DEF MessageSend, TypeOK, StateType, streamVars, muVars, chanVars, procVars, recvVars, sendVars, srvVars,
      connVars, mapVars
  <2>3. DataType'
    <3>1. nmsg[cur] \in Nat
      BY <1>0, <1>7 DEF MessageSend, TypeOK, DataType
    <3>2. <<nmsg[cur]>> \in Seq(Nat)
      BY <3>1
    <3>3. msgCh' \in [Streams -> Seq(Nat)]
      BY <1>7, <3>2 DEF MessageSend, TypeOK, DataType
    <3> QED
      BY <1>7, <3>3 DEF MessageSend, TypeOK, DataType, recvVars, sendVars, connVars, mapVars
  <2> QED
    BY <2>1, <2>2, <2>3 DEF TypeOK
<1>8. CASE MessageEos
  <2>1. ControlType'
    BY <1>0, <1>8 DEF MessageEos, Procs, Goto, CloseLabels, PumpLabels, TypeOK, ControlType, streamVars, muVars, chanVars, procVars, recvVars, sendVars, srvVars,
      connVars, mapVars
  <2>2. StateType'
    BY <1>0, <1>8 DEF MessageEos, TypeOK, StateType, streamVars, muVars, chanVars, procVars, recvVars, sendVars, srvVars,
      connVars, mapVars
  <2>3. DataType'
    BY <1>0, <1>8 DEF MessageEos, TypeOK, DataType, streamVars, muVars, chanVars, procVars, recvVars, sendVars, srvVars,
      connVars, mapVars
  <2> QED
    BY <2>1, <2>2, <2>3 DEF TypeOK
<1>9. CASE NilPacketClose
  <2>1. ControlType'
    BY <1>0, <1>9 DEF NilPacketClose, Procs, Goto, CloseLabels, PumpLabels, TypeOK, ControlType, streamVars, muVars, chanVars, procVars, recvVars, sendVars, srvVars,
      connVars, mapVars
  <2>2. StateType'
    BY <1>0, <1>9 DEF NilPacketClose, TypeOK, StateType, streamVars, muVars, chanVars, procVars, recvVars, sendVars, srvVars,
      connVars, mapVars
  <2>3. DataType'
    BY <1>0, <1>9 DEF NilPacketClose, TypeOK, DataType, streamVars, muVars, chanVars, procVars, recvVars, sendVars, srvVars,
      connVars, mapVars
  <2> QED
    BY <2>1, <2>2, <2>3 DEF TypeOK
<1>10. CASE OnReset
  <2>1. ControlType'
    BY <1>0, <1>10 DEF OnReset, StartClose, Errors, Procs, Goto, CloseLabels, PumpLabels, TypeOK, ControlType, streamVars, muVars, chanVars, procVars, recvVars, sendVars, srvVars,
      connVars, mapVars
  <2>2. StateType'
    BY <1>0, <1>10 DEF OnReset, TypeOK, StateType, streamVars, muVars, chanVars, procVars, recvVars, sendVars, srvVars,
      connVars, mapVars
  <2>3. DataType'
    BY <1>0, <1>10 DEF OnReset, TypeOK, DataType, streamVars, muVars, chanVars, procVars, recvVars, sendVars, srvVars,
      connVars, mapVars
  <2> QED
    BY <2>1, <2>2, <2>3 DEF TypeOK
<1>11. CASE CloseStep(Pump)
  BY <1>11, CloseType DEF Procs
<1> QED
  BY <1>1, <1>2, <1>3, <1>4, <1>5, <1>6, <1>7, <1>8, <1>9, <1>10, <1>11 DEF PumpStep

\* Every step of a handler goroutine keeps the types.
LEMMA HandlerType ==
  ASSUME TypeOK, NEW s \in Streams, HandlerStep(s)
  PROVE  TypeOK'
<1> USE ServerStreamAssumption
<1>1. CASE HandlerRecv(s)
  <2>1. ControlType'
    BY <1>1 DEF HandlerRecv, Procs, Goto, RunLabels, TypeOK, ControlType, streamVars, muVars, chanVars, procVars, recvVars, sendVars, srvVars,
      connVars, mapVars
  <2>2. StateType'
    BY <1>1 DEF HandlerRecv, TypeOK, StateType, streamVars, muVars, chanVars, procVars, recvVars, sendVars, srvVars,
      connVars, mapVars
  <2>3. DataType'
    BY <1>1 DEF HandlerRecv, TypeOK, DataType, streamVars, muVars, chanVars, procVars, recvVars, sendVars, srvVars,
      connVars, mapVars
  <2> QED
    BY <2>1, <2>2, <2>3 DEF TypeOK
<1>2. CASE RecvMsg(s)
  <2>1. ControlType'
    BY <1>2 DEF RecvMsg, Procs, Goto, RunLabels, TypeOK, ControlType, streamVars, muVars, chanVars, procVars, recvVars, sendVars, srvVars,
      connVars, mapVars
  <2>2. StateType'
    BY <1>2 DEF RecvMsg, TypeOK, StateType, streamVars, muVars, chanVars, procVars, recvVars, sendVars, srvVars,
      connVars, mapVars
  <2>3. DataType'
    <3>1. msgCh[s] \in Seq(Nat) /\ rcvd[s] \in Seq(Nat)
      BY DEF TypeOK, DataType
    <3>2. msgCh[s] # <<>> => Append(rcvd[s], Head(msgCh[s])) \in Seq(Nat)
      BY <3>1
    <3>3. <<>> \in Seq(Nat)
      OBVIOUS
    <3>4. msgCh' \in [Streams -> Seq(Nat)]
      BY <1>2, <3>3 DEF RecvMsg, TypeOK, DataType
    <3>5. rcvd' \in [Streams -> Seq(Nat)]
      BY <1>2, <3>2 DEF RecvMsg, TypeOK, DataType
    <3> QED
      BY <1>2, <3>4, <3>5 DEF RecvMsg, TypeOK, DataType, sendVars, srvVars, connVars, mapVars
  <2> QED
    BY <2>1, <2>2, <2>3 DEF TypeOK
<1>3. CASE HandlerSendHeader(s)
  <2>1. ControlType'
    BY <1>3 DEF HandlerSendHeader, Procs, Goto, RunLabels, HdrLabels, TypeOK, ControlType, streamVars, muVars, chanVars, procVars, recvVars, sendVars, srvVars,
      connVars, mapVars
  <2>2. StateType'
    BY <1>3 DEF HandlerSendHeader, TypeOK, StateType, streamVars, muVars, chanVars, procVars, recvVars, sendVars, srvVars,
      connVars, mapVars
  <2>3. DataType'
    BY <1>3 DEF HandlerSendHeader, TypeOK, DataType, streamVars, muVars, chanVars, procVars, recvVars, sendVars, srvVars,
      connVars, mapVars
  <2> QED
    BY <2>1, <2>2, <2>3 DEF TypeOK
<1>4. CASE HandlerSend(s)
  <2>1. ControlType'
    BY <1>4 DEF HandlerSend, Procs, Goto, RunLabels, SendLabels, TypeOK, ControlType, streamVars, muVars, chanVars, procVars, recvVars, sendVars, srvVars,
      connVars, mapVars
  <2>2. StateType'
    BY <1>4 DEF HandlerSend, TypeOK, StateType, streamVars, muVars, chanVars, procVars, recvVars, sendVars, srvVars,
      connVars, mapVars
  <2>3. DataType'
    BY <1>4 DEF HandlerSend, TypeOK, DataType, streamVars, muVars, chanVars, procVars, recvVars, sendVars, srvVars,
      connVars, mapVars
  <2> QED
    BY <2>1, <2>2, <2>3 DEF TypeOK
<1>5. CASE SendCheck(s)
  <2>1. ControlType'
    BY <1>5 DEF SendCheck, Procs, Goto, RunLabels, SendLabels, TypeOK, ControlType, streamVars, muVars, chanVars, procVars, recvVars, sendVars, srvVars,
      connVars, mapVars
  <2>2. StateType'
    BY <1>5 DEF SendCheck, TypeOK, StateType, streamVars, muVars, chanVars, procVars, recvVars, sendVars, srvVars,
      connVars, mapVars
  <2>3. DataType'
    BY <1>5 DEF SendCheck, TypeOK, DataType, streamVars, muVars, chanVars, procVars, recvVars, sendVars, srvVars,
      connVars, mapVars
  <2> QED
    BY <2>1, <2>2, <2>3 DEF TypeOK
<1>6. CASE SendLock(s)
  <2>1. ControlType'
    BY <1>6 DEF SendLock, Procs, Goto, RunLabels, SendLabels, TypeOK, ControlType, streamVars, muVars, chanVars, procVars, recvVars, sendVars, srvVars,
      connVars, mapVars
  <2>2. StateType'
    BY <1>6 DEF SendLock, TypeOK, StateType, streamVars, muVars, chanVars, procVars, recvVars, sendVars, srvVars,
      connVars, mapVars
  <2>3. DataType'
    BY <1>6 DEF SendLock, TypeOK, DataType, streamVars, muVars, chanVars, procVars, recvVars, sendVars, srvVars,
      connVars, mapVars
  <2> QED
    BY <2>1, <2>2, <2>3 DEF TypeOK
<1>7. CASE SendWrite(s)
  <2>1. ControlType'
    BY <1>7 DEF SendWrite, Procs, Goto, StartClose, WriteResults, Errors, RunLabels, CloseLabels, TypeOK, ControlType, streamVars, muVars, chanVars, procVars, recvVars, sendVars, srvVars,
      connVars, mapVars
  <2>2. StateType'
    BY <1>7 DEF SendWrite, TypeOK, StateType, streamVars, muVars, chanVars, procVars, recvVars, sendVars, srvVars,
      connVars, mapVars
  <2>3. DataType'
    BY <1>7 DEF SendWrite, Put, TypeOK, DataType, streamVars, muVars, chanVars, procVars, recvVars, sendVars, srvVars,
      connVars, mapVars
  <2> QED
    BY <2>1, <2>2, <2>3 DEF TypeOK
<1>8. ASSUME NEW e \in Errors, HandlerReturn(s, e)
      PROVE  TypeOK'
  <2>1. ControlType'
    BY <1>8 DEF HandlerReturn, Procs, Goto, StartClose, RunLabels, CloseLabels, TypeOK, ControlType, streamVars, muVars, chanVars, procVars, recvVars, sendVars, srvVars,
      connVars, mapVars
  <2>2. StateType'
    BY <1>8 DEF HandlerReturn, TypeOK, StateType, streamVars, muVars, chanVars, procVars, recvVars, sendVars, srvVars,
      connVars, mapVars
  <2>3. DataType'
    BY <1>8 DEF HandlerReturn, TypeOK, DataType, streamVars, muVars, chanVars, procVars, recvVars, sendVars, srvVars,
      connVars, mapVars
  <2> QED
    BY <2>1, <2>2, <2>3 DEF TypeOK
<1>9. CASE HandlerQuit(s)
  <2>1. ControlType'
    BY <1>9 DEF HandlerQuit, Procs, Goto, RunLabels, TypeOK, ControlType, streamVars, muVars, chanVars, procVars, recvVars, sendVars, srvVars,
      connVars, mapVars
  <2>2. StateType'
    BY <1>9 DEF HandlerQuit, TypeOK, StateType, streamVars, muVars, chanVars, procVars, recvVars, sendVars, srvVars,
      connVars, mapVars
  <2>3. DataType'
    BY <1>9 DEF HandlerQuit, TypeOK, DataType, streamVars, muVars, chanVars, procVars, recvVars, sendVars, srvVars,
      connVars, mapVars
  <2> QED
    BY <2>1, <2>2, <2>3 DEF TypeOK
<1>10. CASE HandlerDone(s)
  <2>1. ControlType'
    BY <1>10 DEF HandlerDone, Procs, Goto, RunLabels, TypeOK, ControlType, streamVars, muVars, chanVars, procVars, recvVars, sendVars, srvVars,
      connVars, mapVars
  <2>2. StateType'
    BY <1>10 DEF HandlerDone, TypeOK, StateType, streamVars, muVars, chanVars, procVars, recvVars, sendVars, srvVars,
      connVars, mapVars
  <2>3. DataType'
    BY <1>10 DEF HandlerDone, TypeOK, DataType, streamVars, muVars, chanVars, procVars, recvVars, sendVars, srvVars,
      connVars, mapVars
  <2> QED
    BY <2>1, <2>2, <2>3 DEF TypeOK
<1>11. CASE ReturnTicket(s)
  <2>1. ControlType'
    BY <1>11 DEF ReturnTicket, Procs, Goto, RunLabels, TypeOK, ControlType, streamVars, muVars, chanVars, procVars, recvVars, sendVars, srvVars,
      connVars, mapVars
  <2>2. StateType'
    BY <1>11 DEF ReturnTicket, TypeOK, StateType, streamVars, muVars, chanVars, procVars, recvVars, sendVars, srvVars,
      connVars, mapVars
  <2>3. DataType'
    BY <1>11 DEF ReturnTicket, TypeOK, DataType, streamVars, muVars, chanVars, procVars, recvVars, sendVars, srvVars,
      connVars, mapVars
  <2> QED
    BY <2>1, <2>2, <2>3 DEF TypeOK
<1>12. CASE CloseStep(s)
  BY <1>12, CloseType DEF Procs
<1> QED
  BY <1>1, <1>2, <1>3, <1>4, <1>5, <1>6, <1>7, <1>8, <1>9, <1>10, <1>11, <1>12 DEF HandlerStep

\* Every step keeps the types.
LEMMA NextType == TypeOK /\ [Next]_vars => TypeOK'
<1> SUFFICES ASSUME TypeOK, [Next]_vars PROVE TypeOK'
  OBVIOUS
<1> USE ServerStreamAssumption
<1>1. ASSUME NEW s \in Streams, NEW r \in ClientSends, OnChannelMessage(s, r)
      PROVE  TypeOK'
  <2>1. ControlType'
    BY <1>1 DEF OnChannelMessage, Procs, Goto, PumpLabels, Requests, TypeOK, ControlType, streamVars, muVars, chanVars, procVars, recvVars, sendVars, srvVars,
      connVars, mapVars
  <2>2. StateType'
    BY <1>1 DEF OnChannelMessage, TypeOK, StateType, streamVars, muVars, chanVars, procVars, recvVars, sendVars, srvVars,
      connVars, mapVars
  <2>3. DataType'
    <3>1. nreq' \in 0..MaxRequests
      BY <1>1 DEF OnChannelMessage, TypeOK, DataType
    <3>2. nmsg' \in [Streams -> Nat]
      BY <1>1 DEF OnChannelMessage, TypeOK, DataType
    <3> QED
      BY <1>1, <3>1, <3>2
      DEF OnChannelMessage, TypeOK, DataType, chanVars, sendVars, srvVars, connVars
  <2> QED
    BY <2>1, <2>2, <2>3 DEF TypeOK
<1>2. CASE PumpStep
  BY <1>2, PumpType
<1>3. ASSUME NEW s \in Streams, HandlerStep(s)
      PROVE  TypeOK'
  BY <1>3, HandlerType
<1>4. CASE StopCancel
  <2>1. ControlType'
    BY <1>4 DEF StopCancel, TypeOK, ControlType, streamVars, muVars, chanVars, procVars, recvVars, sendVars, srvVars,
      connVars, mapVars
  <2>2. StateType'
    BY <1>4 DEF StopCancel, TypeOK, StateType, streamVars, muVars, chanVars, procVars, recvVars, sendVars, srvVars,
      connVars, mapVars
  <2>3. DataType'
    BY <1>4 DEF StopCancel, TypeOK, DataType, streamVars, muVars, chanVars, procVars, recvVars, sendVars, srvVars,
      connVars, mapVars
  <2> QED
    BY <2>1, <2>2, <2>3 DEF TypeOK
<1>5. CASE StopStep
  <2>1. ControlType'
    BY <1>5 DEF StopStep, StopLock, StopWait, StopPeers, StopGraceful, TypeOK, ControlType, streamVars, muVars, chanVars, procVars, recvVars, sendVars, srvVars,
      connVars, mapVars
  <2>2. StateType'
    BY <1>5 DEF StopStep, StopLock, StopWait, StopPeers, StopGraceful, TypeOK, StateType, streamVars, muVars, chanVars, procVars, recvVars, sendVars, srvVars,
      connVars, mapVars
  <2>3. DataType'
    BY <1>5 DEF StopStep, StopLock, StopWait, StopPeers, StopGraceful, TypeOK, DataType, streamVars, muVars, chanVars, procVars, recvVars, sendVars, srvVars,
      connVars, mapVars
  <2> QED
    BY <2>1, <2>2, <2>3 DEF TypeOK
<1>6. ASSUME NEW s \in Streams, StreamTimeout(s)
      PROVE  TypeOK'
  <2>1. ControlType'
    BY <1>6 DEF StreamTimeout, Fault, TypeOK, ControlType, streamVars, muVars, chanVars, procVars, recvVars, sendVars, srvVars,
      connVars, mapVars
  <2>2. StateType'
    BY <1>6 DEF StreamTimeout, Fault, TypeOK, StateType, streamVars, muVars, chanVars, procVars, recvVars, sendVars, srvVars,
      connVars, mapVars
  <2>3. DataType'
    BY <1>6 DEF StreamTimeout, Fault, TypeOK, DataType, streamVars, muVars, chanVars, procVars, recvVars, sendVars, srvVars,
      connVars, mapVars
  <2> QED
    BY <2>1, <2>2, <2>3 DEF TypeOK
<1>7. CASE ChannelClose \/ PeerDone \/ LinkDown
  <2>1. ControlType'
    BY <1>7 DEF ChannelClose, PeerDone, LinkDown, TypeOK, ControlType, streamVars, muVars, chanVars, procVars, recvVars, sendVars, srvVars,
      connVars, mapVars
  <2>2. StateType'
    BY <1>7 DEF ChannelClose, PeerDone, LinkDown, TypeOK, StateType, streamVars, muVars, chanVars, procVars, recvVars, sendVars, srvVars,
      connVars, mapVars
  <2>3. DataType'
    BY <1>7 DEF ChannelClose, PeerDone, LinkDown, Fault, TypeOK, DataType, streamVars, muVars, chanVars, procVars, recvVars, sendVars, srvVars,
      connVars, mapVars
  <2> QED
    BY <2>1, <2>2, <2>3 DEF TypeOK
<1>8. CASE UNCHANGED vars
  BY <1>8 DEF vars, TypeOK, ControlType, StateType, DataType, streamVars, muVars, chanVars, procVars, recvVars, sendVars, srvVars,
      connVars, mapVars
<1> QED
  BY <1>1, <1>2, <1>3, <1>4, <1>5, <1>6, <1>7, <1>8 DEF Next

\* Type correctness: no step of the pump, of a handler, of Stop or of the
\* connection takes a variable out of its type.
THEOREM TypeCorrect == Spec => []TypeOK
<1>1. Init => TypeOK
  BY InitType
<1>2. TypeOK /\ [Next]_vars => TypeOK'
  BY NextType
<1> QED
  BY <1>1, <1>2, PTL DEF Spec

----------------------------------------------------------------------------
(* Tickets and Stop. Neither TicketsBound nor StopWaitsForHandlers is        *)
(* inductive: a step of processHeaders preserves them only because the       *)
(* stream it works on has no handler yet and is counted in                   *)
(* processHeadersWorkers, and because a server that is stopping has its      *)
(* context done.                                                             *)

\* A stream has a handler goroutine from the moment headersReceived is set.
HandlersStarted == \A s \in Streams : pc[s] # "none" <=> s \in headersReceived

\* processHeaders works on a stream without a handler.
HeadersOnce == pc[Pump] \in {"phAdd", "phCheck", "phTicket"} => cur \notin headersReceived

\* Calls being started and calls being handled are counted in
\* processHeadersWorkers.
CountedAsWorkers ==
  /\ pc[Pump] \in {"phCheck", "phTicket"} => cur \in workers
  /\ \A s \in Streams : pc[s] \in RunLabels => s \in workers

\* A handler holds a ticket until its deferred function returns it.
TicketHolders == \A s \in Streams : s \in tickets <=> pc[s] \in RunLabels \cup {"ticket"}

\* Stop cancels before it does anything else, and once it has waited no
\* handler runs or is about to start.
StoppedIsQuiet ==
  /\ stop # "no" => srvCtx
  /\ stop \in {"waited", "closing", "stopped"} =>
       pc[Pump] # "phTicket" /\ \A s \in Streams : pc[s] \notin RunLabels

\* The inductive invariant.
CallsInv ==
  /\ TypeOK
  /\ HandlersStarted /\ HeadersOnce /\ CountedAsWorkers /\ TicketHolders /\ StoppedIsQuiet
  /\ IsFiniteSet(tickets) /\ Cardinality(tickets) <= MaxTickets

\* No call exists initially, so the invariant of the calls holds.
LEMMA InitCalls == Init => CallsInv
<1> SUFFICES ASSUME Init PROVE CallsInv
  OBVIOUS
<1>1. TypeOK
  BY InitType
<1>2. IsFiniteSet(tickets) /\ Cardinality(tickets) <= MaxTickets
  BY FS_EmptySet, ServerStreamAssumption DEF Init
<1>3. \A s \in Streams : pc[s] = "none"
  BY ServerStreamAssumption DEF Init, Procs
<1>4. pc[Pump] = "idle"
  BY DEF Init, Procs
<1> QED
  BY <1>1, <1>2, <1>3, <1>4
  DEF Init, CallsInv, HandlersStarted, HeadersOnce, CountedAsWorkers, TicketHolders,
      StoppedIsQuiet, RunLabels, SendLabels, CloseLabels, HdrLabels

\* A step that only moves one goroutine, a handler within its call or the pump
\* outside processHeaders, preserves the invariant.
LEMMA LocalStep ==
  ASSUME CallsInv, TypeOK', NEW p \in Procs, NEW l,
         pc' = [pc EXCEPT ![p] = l],
         p \in Streams => pc[p] \in RunLabels /\ l \in RunLabels,
         p = Pump => l \notin {"phAdd", "phCheck", "phTicket"},
         p # Pump => cur' = cur,
         UNCHANGED <<tickets, workers, headersReceived, srvCtx, stop>>
  PROVE  CallsInv'
<1>1. Pump \notin Streams /\ pc \in [Procs -> PumpLabels \cup RunLabels \cup {"none", "ticket", "end"}]
  BY ServerStreamAssumption DEF CallsInv, TypeOK, ControlType
<1>2. "none" \notin RunLabels /\ "ticket" \notin RunLabels
  BY DEF RunLabels, SendLabels, CloseLabels, HdrLabels
<1>3. \A s \in Streams : pc'[s] = pc[s] \/ (pc[s] \in RunLabels /\ pc'[s] \in RunLabels)
  BY <1>1 DEF Procs
<1>4. \/ pc'[Pump] = pc[Pump] /\ cur' = cur
      \/ pc'[Pump] \notin {"phAdd", "phCheck", "phTicket"}
  BY <1>1 DEF Procs
<1>5. HandlersStarted' /\ HeadersOnce'
  BY <1>2, <1>3, <1>4 DEF CallsInv, HandlersStarted, HeadersOnce
<1>6. CountedAsWorkers' /\ TicketHolders'
  BY <1>2, <1>3, <1>4 DEF CallsInv, CountedAsWorkers, TicketHolders
<1>7. StoppedIsQuiet'
  BY <1>2, <1>3, <1>4 DEF CallsInv, StoppedIsQuiet
<1> QED
  BY <1>5, <1>6, <1>7 DEF CallsInv

\* closeWithSendError, by pump or handler, keeps the invariant of the calls.
LEMMA CloseCalls ==
  ASSUME CallsInv, NEW p \in Procs, CloseStep(p)
  PROVE  CallsInv'
<1> USE DEF streamVars, srvVars, Goto, StartClose
<1>1. TypeOK'
  BY CloseType DEF CallsInv
<1>2. PICK l \in RunLabels \cup {"idle"} : pc' = [pc EXCEPT ![p] = l] /\ (p # Pump => l # "idle")
  <2>1. CASE CloseCAS(p) \/ CloseCheck(p) \/ CloseLock(p) \/ CloseWait(p)
    BY <2>1 DEF CloseCAS, CloseCheck, CloseLock, CloseWait, AfterClose, RunLabels, CloseLabels
  <2>2. CASE HeaderCAS(p)
    BY <2>2 DEF HeaderCAS, RunLabels, CloseLabels, SendLabels, HdrLabels
  <2>3. CASE HeaderWrite(p)
    BY <2>3 DEF HeaderWrite, RunLabels, CloseLabels, SendLabels
  <2>4. CASE TrailerWrite(p)
    <3>1. pc' = [pc EXCEPT ![p] = "closeLock"]
      BY <2>4 DEF TrailerWrite
    <3>2. "closeLock" \in RunLabels \cup {"idle"} /\ "closeLock" # "idle"
      BY DEF RunLabels, CloseLabels
    <3> QED
      BY <3>1, <3>2, Zenon
  <2> QED
    BY <2>1, <2>2, <2>3, <2>4 DEF CloseStep
<1>3. pc[p] \in RunLabels /\ pc[p] # "idle"
  BY DEF CloseStep, CloseCAS, CloseCheck, CloseLock, CloseWait, HeaderCAS, HeaderWrite,
         TrailerWrite, RunLabels, CloseLabels, SendLabels, HdrLabels
<1>4. UNCHANGED <<tickets, workers, headersReceived, srvCtx, stop, cur>>
  BY DEF CloseStep, CloseCAS, CloseCheck, CloseLock, CloseWait, HeaderCAS, HeaderWrite, TrailerWrite
<1>5. l \notin {"phAdd", "phCheck", "phTicket"} /\ (p \in Streams => l \in RunLabels)
  BY <1>2, ServerStreamAssumption DEF RunLabels, CloseLabels, SendLabels, HdrLabels
<1> QED
  BY <1>1, <1>2, <1>3, <1>4, <1>5, LocalStep

\* A ticket is taken only when there is a free one.
LEMMA TakeTicketCalls ==
  ASSUME CallsInv, TypeOK', TakeTicket
  PROVE  CallsInv'
<1>1. cur \in Streams /\ Pump \notin Streams /\ cur \notin headersReceived /\ cur \in workers
  BY ServerStreamAssumption
  DEF CallsInv, TypeOK, ControlType, HeadersOnce, CountedAsWorkers, TakeTicket
<1>2. pc \in [Procs -> PumpLabels \cup RunLabels \cup {"none", "ticket", "end"}]
  BY DEF CallsInv, TypeOK, ControlType
<1>3. CASE Cardinality(tickets) < MaxTickets
  <2>1. /\ tickets' = tickets \cup {cur} /\ headersReceived' = headersReceived \cup {cur}
        /\ pc' = [pc EXCEPT ![Pump] = "idle", ![cur] = "run"]
        /\ UNCHANGED <<workers, srvCtx, stop, cur>>
    BY <1>3 DEF TakeTicket
  <2>2. pc'[Pump] = "idle" /\ pc'[cur] = "run" /\ \A s \in Streams \ {cur} : pc'[s] = pc[s]
    BY <1>1, <1>2, <2>1 DEF Procs
  <2>3. "run" \in RunLabels
    BY DEF RunLabels
  <2>4. HandlersStarted' /\ HeadersOnce'
    BY <2>1, <2>2 DEF CallsInv, HandlersStarted, HeadersOnce
  <2>5. CountedAsWorkers' /\ TicketHolders'
    BY <1>1, <2>1, <2>2, <2>3 DEF CallsInv, CountedAsWorkers, TicketHolders
  <2>6. StoppedIsQuiet'
    BY <2>1, <2>2 DEF CallsInv, StoppedIsQuiet, TakeTicket
  <2>7. IsFiniteSet(tickets') /\ Cardinality(tickets') <= MaxTickets
    <3>1. /\ IsFiniteSet(tickets \cup {cur})
          /\ Cardinality(tickets \cup {cur}) = Cardinality(tickets) \/
             Cardinality(tickets \cup {cur}) = Cardinality(tickets) + 1
      BY FS_AddElement DEF CallsInv
    <3>2. Cardinality(tickets) \in Nat /\ MaxTickets \in Nat
      BY FS_CardinalityType, ServerStreamAssumption DEF CallsInv
    <3> QED
      BY <1>3, <2>1, <3>1, <3>2
  <2> QED
    BY <2>4, <2>5, <2>6, <2>7 DEF CallsInv
<1>4. CASE ~(Cardinality(tickets) < MaxTickets)
  <2>1. /\ pc' = [pc EXCEPT ![Pump] = "close"]
        /\ UNCHANGED <<tickets, workers, headersReceived, srvCtx, stop, cur>>
    BY <1>4 DEF TakeTicket, StartClose, Goto
  <2> QED
    BY <1>1, <2>1, LocalStep DEF Procs
<1> QED
  BY <1>3, <1>4

\* Every step of the pump, those of processHeaders included, keeps the
\* invariant of the calls.
LEMMA PumpCalls ==
  ASSUME CallsInv, PumpStep
  PROVE  CallsInv'
<1> USE DEF streamVars, srvVars, Goto, StartClose
<1>0. TypeOK' /\ Pump \in Procs /\ Pump \notin Streams
  BY PumpType, ServerStreamAssumption DEF CallsInv, Procs
<1>1. CASE OnHeaders
  <2>1. CASE cur \in headersReceived \/ req = "unknown"
    <3>1. /\ pc' = [pc EXCEPT ![Pump] = "close"]
          /\ UNCHANGED <<tickets, workers, headersReceived, srvCtx, stop>>
      BY <1>1, <2>1 DEF OnHeaders
    <3> QED
      BY <1>0, <3>1, LocalStep
  <2>2. CASE ~(cur \in headersReceived \/ req = "unknown")
    <3>1. /\ pc' = [pc EXCEPT ![Pump] = "phAdd"]
          /\ UNCHANGED <<tickets, workers, headersReceived, srvCtx, stop, cur>>
      BY <1>1, <2>2 DEF OnHeaders
    <3>2. pc'[Pump] = "phAdd" /\ \A s \in Streams : pc'[s] = pc[s]
      BY <1>0, <3>1 DEF CallsInv, TypeOK, ControlType
    <3> QED
      BY <1>0, <2>2, <3>1, <3>2
      DEF CallsInv, HandlersStarted, HeadersOnce, CountedAsWorkers, TicketHolders, StoppedIsQuiet
  <2> QED
    BY <2>1, <2>2
<1>2. CASE HeadersAdd
  <2>1. /\ pc' = [pc EXCEPT ![Pump] = "phCheck"] /\ workers' = workers \cup {cur}
        /\ UNCHANGED <<tickets, headersReceived, srvCtx, stop, cur>> /\ pc[Pump] = "phAdd"
    BY <1>2 DEF HeadersAdd
  <2>2. pc'[Pump] = "phCheck" /\ \A s \in Streams : pc'[s] = pc[s]
    BY <1>0, <2>1 DEF CallsInv, TypeOK, ControlType
  <2> QED
    BY <1>0, <2>1, <2>2
    DEF CallsInv, HandlersStarted, HeadersOnce, CountedAsWorkers, TicketHolders, StoppedIsQuiet
<1>3. CASE HeadersCheck
  <2>1. pc[Pump] = "phCheck" /\ cur \notin headersReceived /\ cur \in Streams
    BY <1>3 DEF HeadersCheck, CallsInv, HeadersOnce, TypeOK, ControlType
  <2>2. UNCHANGED <<tickets, headersReceived, srvCtx, stop, cur>>
    BY <1>3 DEF HeadersCheck
  <2>3. CASE srvCtx
    <3>1. pc' = [pc EXCEPT ![Pump] = "idle"] /\ workers' = workers \ {cur}
      BY <1>3, <2>3 DEF HeadersCheck
    <3>2. pc'[Pump] = "idle" /\ \A s \in Streams : pc'[s] = pc[s]
      BY <1>0, <3>1 DEF CallsInv, TypeOK, ControlType
    <3>3. pc[cur] \notin RunLabels
      BY <2>1 DEF CallsInv, HandlersStarted, RunLabels, SendLabels, CloseLabels, HdrLabels
    <3> QED
      BY <1>0, <2>2, <3>1, <3>2, <3>3
      DEF CallsInv, HandlersStarted, HeadersOnce, CountedAsWorkers, TicketHolders, StoppedIsQuiet
  <2>4. CASE ~srvCtx
    <3>1. pc' = [pc EXCEPT ![Pump] = "phTicket"] /\ workers' = workers
      BY <1>3, <2>4 DEF HeadersCheck
    <3>2. pc'[Pump] = "phTicket" /\ \A s \in Streams : pc'[s] = pc[s]
      BY <1>0, <3>1 DEF CallsInv, TypeOK, ControlType
    <3>3. stop = "no"
      BY <2>4 DEF CallsInv, StoppedIsQuiet
    <3> QED
      BY <1>0, <2>1, <2>2, <3>1, <3>2, <3>3
      DEF CallsInv, HandlersStarted, HeadersOnce, CountedAsWorkers, TicketHolders, StoppedIsQuiet
  <2> QED
    BY <2>3, <2>4
<1>4. CASE TakeTicket
  BY <1>0, <1>4, TakeTicketCalls
<1>5. CASE OnMessage \/ MessageLock \/ MessageSend \/ MessageEos \/ NilPacketClose \/ OnReset
  <2>1. UNCHANGED <<tickets, workers, headersReceived, srvCtx, stop>>
    BY <1>5 DEF OnMessage, MessageLock, MessageSend, MessageEos, NilPacketClose, OnReset
  <2>2. PICK l \in {"close", "idle", "nilWait", "nilErr", "pmEos", "pmLock", "pmSend"} :
          pc' = [pc EXCEPT ![Pump] = l]
    BY <1>5 DEF OnMessage, MessageLock, MessageSend, MessageEos, NilPacketClose, OnReset
  <2> QED
    BY <1>0, <2>1, <2>2, LocalStep
<1>6. CASE CloseStep(Pump)
  BY <1>0, <1>6, CloseCalls
<1> QED
  BY <1>1, <1>2, <1>3, <1>4, <1>5, <1>6 DEF PumpStep

\* Every step of a handler goroutine, its deferred function included, keeps the
\* invariant of the calls.
LEMMA HandlerCalls ==
  ASSUME CallsInv, NEW s \in Streams, HandlerStep(s)
  PROVE  CallsInv'
<1> USE DEF streamVars, srvVars, Goto, StartClose
<1>0. TypeOK' /\ s \in Procs /\ s # Pump
  BY HandlerType, ServerStreamAssumption DEF CallsInv, Procs
<1>p. pc \in [Procs -> PumpLabels \cup RunLabels \cup {"none", "ticket", "end"}]
  BY DEF CallsInv, TypeOK, ControlType
<1>1. CASE \/ HandlerRecv(s) \/ RecvMsg(s) \/ HandlerSendHeader(s) \/ HandlerSend(s)
           \/ SendCheck(s) \/ SendLock(s) \/ SendWrite(s)
           \/ (\E e \in Errors : HandlerReturn(s, e)) \/ HandlerQuit(s)
  <2>1. UNCHANGED <<tickets, workers, headersReceived, srvCtx, stop, cur>>
    BY <1>1 DEF HandlerRecv, RecvMsg, HandlerSendHeader, HandlerSend, SendCheck, SendLock,
      SendWrite, HandlerReturn, HandlerQuit
  <2>2. pc[s] \in {"run", "recv", "send", "sendLock", "sendMsg"}
    BY <1>1 DEF HandlerRecv, RecvMsg, HandlerSendHeader, HandlerSend, SendCheck, SendLock,
      SendWrite, HandlerReturn, HandlerQuit
  <2>3. PICK l \in {"recv", "run", "onlyHdr", "send", "sendHdr", "done", "sendMsg", "close"} :
          pc' = [pc EXCEPT ![s] = l]
    BY <1>1 DEF HandlerRecv, RecvMsg, HandlerSendHeader, HandlerSend, SendCheck, SendLock,
      SendWrite, HandlerReturn, HandlerQuit
  <2>4. pc[s] \in RunLabels /\ l \in RunLabels
    BY <2>2, <2>3 DEF RunLabels, SendLabels, CloseLabels, HdrLabels
  <2> QED
    BY <1>0, <2>1, <2>3, <2>4, LocalStep
<1>2. CASE HandlerDone(s)
  <2>1. /\ pc' = [pc EXCEPT ![s] = "ticket"] /\ workers' = workers \ {s} /\ pc[s] = "done"
        /\ UNCHANGED <<tickets, headersReceived, srvCtx, stop, cur>>
    BY <1>2 DEF HandlerDone
  <2>2. pc'[s] = "ticket" /\ \A p \in Procs \ {s} : pc'[p] = pc[p]
    BY <1>0, <1>p, <2>1
  <2>3. "done" \in RunLabels /\ "ticket" \notin RunLabels
    BY DEF RunLabels, SendLabels, CloseLabels, HdrLabels
  <2>4. pc[Pump] \in {"phCheck", "phTicket"} => cur # s
    BY <2>1 DEF CallsInv, HandlersStarted, HeadersOnce
  <2> QED
    BY <1>0, <2>1, <2>2, <2>3, <2>4
    DEF CallsInv, HandlersStarted, HeadersOnce, CountedAsWorkers, TicketHolders, StoppedIsQuiet, Procs
<1>3. CASE ReturnTicket(s)
  <2>1. /\ pc' = [pc EXCEPT ![s] = "end"] /\ tickets' = tickets \ {s} /\ pc[s] = "ticket"
        /\ UNCHANGED <<workers, headersReceived, srvCtx, stop, cur>>
    BY <1>3 DEF ReturnTicket
  <2>2. pc'[s] = "end" /\ \A p \in Procs \ {s} : pc'[p] = pc[p]
    BY <1>0, <1>p, <2>1
  <2>3. "end" \notin RunLabels
    BY DEF RunLabels, SendLabels, CloseLabels, HdrLabels
  <2>4. IsFiniteSet(tickets') /\ Cardinality(tickets') <= MaxTickets
    <3>1. /\ IsFiniteSet(tickets \ {s})
          /\ Cardinality(tickets \ {s}) = Cardinality(tickets) \/
             Cardinality(tickets \ {s}) = Cardinality(tickets) - 1
      BY FS_RemoveElement DEF CallsInv
    <3>2. Cardinality(tickets) \in Nat /\ MaxTickets \in Nat
      BY FS_CardinalityType, ServerStreamAssumption DEF CallsInv
    <3> QED
      BY <2>1, <3>1, <3>2 DEF CallsInv
  <2>5. HandlersStarted' /\ HeadersOnce' /\ CountedAsWorkers' /\ TicketHolders'
    BY <1>0, <2>1, <2>2, <2>3
    DEF CallsInv, HandlersStarted, HeadersOnce, CountedAsWorkers, TicketHolders, Procs
  <2>6. StoppedIsQuiet'
    BY <1>0, <2>1, <2>2, <2>3 DEF CallsInv, StoppedIsQuiet, Procs
  <2> QED
    BY <1>0, <2>4, <2>5, <2>6 DEF CallsInv
<1>4. CASE CloseStep(s)
  BY <1>0, <1>4, CloseCalls
<1> QED
  BY <1>1, <1>2, <1>3, <1>4 DEF HandlerStep

\* Every step of processHeaders, of a handler and of Stop keeps the invariant of
\* the calls.
LEMMA NextCalls == CallsInv /\ [Next]_vars => CallsInv'
<1> SUFFICES ASSUME CallsInv, [Next]_vars PROVE CallsInv'
  OBVIOUS
<1>0. TypeOK' /\ Pump \in Procs /\ Pump \notin Streams
  BY NextType, ServerStreamAssumption DEF CallsInv, Procs
<1>p. pc \in [Procs -> PumpLabels \cup RunLabels \cup {"none", "ticket", "end"}]
  BY DEF CallsInv, TypeOK, ControlType
<1>1. ASSUME NEW s \in Streams, NEW r \in ClientSends, OnChannelMessage(s, r)
      PROVE  CallsInv'
  <2>1. UNCHANGED <<tickets, workers, headersReceived, srvCtx, stop>> /\ pc[Pump] = "idle"
    BY <1>1 DEF OnChannelMessage, srvVars, streamVars
  <2>2. PICK l \in {"idle", "dispatch"} : pc' = [pc EXCEPT ![Pump] = l]
    BY <1>1, <1>0, <1>p, <2>1 DEF OnChannelMessage, Goto
  <2> QED
    BY <1>0, <2>1, <2>2, LocalStep
<1>2. CASE PumpStep
  BY <1>2, PumpCalls
<1>3. ASSUME NEW s \in Streams, HandlerStep(s) PROVE CallsInv'
  BY <1>3, HandlerCalls
<1>4. CASE StopCancel \/ StopLock \/ StopPeers \/ StopGraceful
  BY <1>0, <1>4
  DEF StopCancel, StopLock, StopPeers, StopGraceful, procVars, streamVars,
      CallsInv, HandlersStarted, HeadersOnce, CountedAsWorkers, TicketHolders, StoppedIsQuiet
<1>5. CASE StopWait
  BY <1>0, <1>5
  DEF StopWait, procVars, streamVars,
      CallsInv, HandlersStarted, HeadersOnce, CountedAsWorkers, TicketHolders, StoppedIsQuiet
<1>6. CASE \/ (\E s \in Streams : StreamTimeout(s)) \/ ChannelClose \/ PeerDone \/ LinkDown
           \/ UNCHANGED vars
  <2>1. UNCHANGED <<pc, cur, headersReceived, tickets, workers, srvCtx, stop>>
    BY <1>6 DEF StreamTimeout, ChannelClose, PeerDone, LinkDown, vars, procVars, streamVars, srvVars
  <2> QED
    BY <1>0, <2>1
    DEF CallsInv, HandlersStarted, HeadersOnce, CountedAsWorkers, TicketHolders, StoppedIsQuiet
<1> QED
  BY <1>1, <1>2, <1>3, <1>4, <1>5, <1>6 DEF Next, StopStep

\* The invariant of the calls: handlers, processHeadersWorkers, callTickets and
\* the progress of Stop agree in every reachable state.
THEOREM CallsInvariant == Spec => []CallsInv
<1> QED
  BY InitCalls, NextCalls, PTL DEF Spec

\* A call is handled if and only if it holds a ticket, and no interleaving of
\* the pump and the handlers' deferred functions hands out more than MaxTickets.
THEOREM TicketsAreBounded == Spec => []TicketsBound
<1>1. CallsInv => TicketsBound
  BY DEF CallsInv, TicketHolders, TicketsBound
<1> QED
  BY <1>1, CallsInvariant, PTL

\* Once Stop is past processHeadersWorkers.Wait no handler runs and none starts,
\* whatever requests the pump still dispatches.
THEOREM StopIsQuiet == Spec => []StopWaitsForHandlers
<1>1. CallsInv => StopWaitsForHandlers
  BY DEF CallsInv, StoppedIsQuiet, StopWaitsForHandlers
<1> QED
  BY <1>1, CallsInvariant, PTL

----------------------------------------------------------------------------
(* msgCh is never sent to once it is closed, and a closed stream is          *)
(* released.                                                                 *)

\* The goroutines that run closeWithError on the stream they work on.
Closing(p) == pc[p] \in {"closeWait", "nilWait", "nilErr"}

\* The pump is the only sender, and it has registered as one while it sends.
SenderIsPump == senders = IF pc[Pump] = "pmSend" THEN {cur} ELSE {}

\* The flags of a stream are raised in this order, and a msgCh on which the
\* pump is sending is still open.
FlagOrder ==
  /\ msgChClosed \subseteq recvClosed /\ closed \subseteq recvClosed
  /\ \A p \in Procs : Closing(p) => Str(p) \in closed
  /\ pc[Pump] = "pmSend" => cur \notin msgChClosed

\* A stream's mu is write-locked only by the goroutine that closes it.
LockHolders ==
  /\ \A s \in Streams : muW[s] # NoProc => pc[muW[s]] = "closeWait" /\ Str(muW[s]) = s
  /\ pc[Pump] \in {"nilWait", "nilErr"} => muW[cur] = NoProc
  /\ pc[Pump] = "nilErr" => cur \in msgChClosed

\* Only ids the client has opened have a state.
OnlyUsed ==
  /\ streams \subseteq used /\ closed \subseteq used
  /\ \A s \in Streams : pc[s] # "none" => s \in used
  /\ pc[Pump] # "idle" => cur \in used

CloseInv == TypeOK /\ SenderIsPump /\ FlagOrder /\ NoSendOnClosed /\ LockHolders /\ OnlyUsed /\ ClosedIsReleased

\* A stream starts open and nobody works on it.
LEMMA InitClose == Init => CloseInv
<1> SUFFICES ASSUME Init PROVE CloseInv
  OBVIOUS
<1>1. TypeOK
  BY InitType
<1> QED
  BY <1>1, ServerStreamAssumption
  DEF Init, CloseInv, SenderIsPump, FlagOrder, NoSendOnClosed, LockHolders, OnlyUsed,
      ClosedIsReleased, Closing, Procs

\* A step that only moves a goroutine, from and to labels at which it neither
\* sends nor closes, keeps the invariant.
LEMMA QuietClose ==
  ASSUME CloseInv, TypeOK', NEW p \in Procs, NEW l,
         pc' = [pc EXCEPT ![p] = l], ~Closing(p), pc[p] # "pmSend",
         l \notin {"none", "pmSend", "closeWait", "nilWait", "nilErr"},
         pc[p] \notin {"idle", "none"} \/ l = pc[p],
         UNCHANGED <<cur, closed, recvClosed, cancelled, muW, msgChClosed, senders, panicked,
                     streams, used>>
  PROVE  CloseInv'
<1> USE ServerStreamAssumption
<1>p. pc \in [Procs -> PumpLabels \cup RunLabels \cup {"none", "ticket", "end"}]
  BY DEF CloseInv, TypeOK, ControlType
<1>s. \A q \in Procs : Str(q)' = Str(q)
  BY DEF Str
<1>1. pc'[p] = l /\ \A q \in Procs \ {p} : pc'[q] = pc[q]
  BY <1>p
<1>2. SenderIsPump' /\ NoSendOnClosed'
  BY <1>1 DEF CloseInv, SenderIsPump, NoSendOnClosed, Procs
<1>3. FlagOrder'
  BY <1>s, <1>1 DEF CloseInv, FlagOrder, Closing, Procs
<1>4. LockHolders' /\ OnlyUsed'
  BY <1>s, <1>1 DEF CloseInv, LockHolders, OnlyUsed, Procs, TypeOK, ControlType, Closing
<1>5. ClosedIsReleased'
  BY <1>s, <1>1 DEF CloseInv, ClosedIsReleased, Procs, TypeOK, StateType, Closing
<1> QED
  BY <1>2, <1>3, <1>4, <1>5 DEF CloseInv

\* closeWithSendError, run by the pump or a handler, keeps the invariant.
LEMMA CloseClose ==
  ASSUME CloseInv, NEW p \in Procs, CloseStep(p)
  PROVE  CloseInv'
<1> USE ServerStreamAssumption DEF Goto, StartClose, streamVars, muVars, chanVars, mapVars
<1>0. TypeOK' /\ Str(p) \in Streams /\ pc[p] \notin {"idle", "none", "pmSend", "nilWait", "nilErr"}
  BY CloseType, StrType
  DEF CloseInv, CloseStep, CloseCAS, CloseCheck, HeaderCAS, HeaderWrite, TrailerWrite, CloseLock, CloseWait
<1>p. pc \in [Procs -> PumpLabels \cup RunLabels \cup {"none", "ticket", "end"}] /\ cur' = cur
  BY DEF CloseInv, TypeOK, ControlType, CloseStep, CloseCAS, CloseCheck, HeaderCAS, HeaderWrite, TrailerWrite, CloseLock, CloseWait
<1>s. \A q \in Procs : Str(q)' = Str(q)
  BY <1>p DEF Str
<1>1. CASE CloseCAS(p) \/ CloseCheck(p) \/ HeaderCAS(p) \/ HeaderWrite(p) \/ TrailerWrite(p)
  <2>1. PICK l : pc' = [pc EXCEPT ![p] = l] /\ l \notin {"none", "pmSend", "closeWait", "nilWait", "nilErr"}
    BY <1>1 DEF CloseCAS, CloseCheck, HeaderCAS, HeaderWrite, TrailerWrite, AfterClose
  <2>2. pc[p] # "closeWait"
    BY <1>1 DEF CloseCAS, CloseCheck, HeaderCAS, HeaderWrite, TrailerWrite
  <2>3. UNCHANGED <<closed, recvClosed, cancelled, muW, msgChClosed, senders, panicked, streams, used>>
    BY <1>1 DEF CloseCAS, CloseCheck, HeaderCAS, HeaderWrite, TrailerWrite
  <2> QED
    BY <1>0, <1>p, <2>1, <2>2, <2>3, QuietClose DEF Closing
<1>2. CASE CloseLock(p) /\ Str(p) \in closed
  <2>1. pc' = [pc EXCEPT ![p] = AfterClose(p)] /\ pc[p] = "closeLock" /\ AfterClose(p) \in {"idle", "done"}
    BY <1>2 DEF CloseLock, AfterClose
  <2>2. UNCHANGED <<closed, recvClosed, cancelled, muW, msgChClosed, senders, panicked, streams, used>>
    BY <1>2 DEF CloseLock
  <2> QED
    BY <1>0, <1>p, <2>1, <2>2, QuietClose DEF Closing
<1>3. CASE CloseLock(p) /\ Str(p) \notin closed
  <2>1. /\ pc' = [pc EXCEPT ![p] = "closeWait"] /\ muW' = [muW EXCEPT ![Str(p)] = p]
        /\ closed' = closed \cup {Str(p)} /\ recvClosed' = recvClosed \cup {Str(p)}
        /\ pc[p] = "closeLock" /\ muW[Str(p)] = NoProc
    BY <1>3 DEF CloseLock, LockFree
  <2>2. pc'[p] = "closeWait" /\ \A q \in Procs \ {p} : pc'[q] = pc[q]
    BY <1>p, <2>1
  <2>3. UNCHANGED <<cancelled, msgChClosed, senders, panicked, streams, used>>
    BY <1>3 DEF CloseLock
  <2>4. SenderIsPump' /\ NoSendOnClosed'
    BY <1>0, <1>p, <2>1, <2>2, <2>3 DEF CloseInv, SenderIsPump, NoSendOnClosed, Procs
  <2>5. FlagOrder'
    BY <1>0, <1>p, <1>s, <2>1, <2>2, <2>3 DEF CloseInv, FlagOrder, Closing, Procs
  <2>6. LockHolders'
    BY <1>0, <1>3, <1>p, <1>s, <2>1, <2>2, <2>3
    DEF CloseInv, FlagOrder, Closing, LockHolders, Procs, TypeOK, ControlType, Str
  <2>7. OnlyUsed'
    BY <1>0, <1>p, <1>s, <2>1, <2>2, <2>3 DEF CloseInv, OnlyUsed, Procs, Str
  <2>8. ClosedIsReleased'
    BY <1>0, <1>p, <1>s, <2>1, <2>2, <2>3
    DEF CloseInv, ClosedIsReleased, Procs, TypeOK, StateType, ControlType, Str
  <2> QED
    BY <1>0, <2>4, <2>5, <2>6, <2>7, <2>8 DEF CloseInv
<1>4. CASE CloseWait(p)
  <2>1. /\ pc' = [pc EXCEPT ![p] = AfterClose(p)] /\ muW' = [muW EXCEPT ![Str(p)] = NoProc]
        /\ msgChClosed' = msgChClosed \cup {Str(p)} /\ cancelled' = cancelled \cup {Str(p)}
        /\ streams' = streams \ {Str(p)} /\ pc[p] = "closeWait" /\ Str(p) \notin senders
    BY <1>4 DEF CloseWait
  <2>2. pc'[p] \in {"idle", "done"} /\ \A q \in Procs \ {p} : pc'[q] = pc[q]
    BY <1>p, <2>1 DEF AfterClose
  <2>3. UNCHANGED <<closed, recvClosed, senders, panicked, used>>
    BY <1>4 DEF CloseWait
  <2>4. SenderIsPump' /\ NoSendOnClosed'
    BY <1>0, <1>p, <2>1, <2>2, <2>3 DEF CloseInv, SenderIsPump, NoSendOnClosed, Procs
  <2>5. FlagOrder'
    BY <1>0, <1>p, <1>s, <2>1, <2>2, <2>3 DEF CloseInv, SenderIsPump, FlagOrder, Closing, Procs
  <2>6. LockHolders'
    BY <1>0, <1>p, <1>s, <2>1, <2>2, <2>3
    DEF CloseInv, FlagOrder, Closing, LockHolders, Procs, TypeOK, ControlType, Str
  <2>7. OnlyUsed'
    BY <1>0, <1>p, <1>s, <2>1, <2>2, <2>3 DEF CloseInv, OnlyUsed, Procs, Str
  <2>8. ClosedIsReleased'
    BY <1>0, <1>p, <1>s, <2>1, <2>2, <2>3
    DEF CloseInv, ClosedIsReleased, Procs, TypeOK, StateType, ControlType, Str
  <2> QED
    BY <1>0, <2>4, <2>5, <2>6, <2>7, <2>8 DEF CloseInv
<1> QED
  BY <1>1, <1>2, <1>3, <1>4 DEF CloseStep

\* The steps of the pump: delivery, half-close and the closing without mu of a
\* message without its packet.
LEMMA PumpClose ==
  ASSUME CallsInv, CloseInv, PumpStep
  PROVE  CloseInv'
<1> USE ServerStreamAssumption DEF Goto, StartClose, streamVars, muVars, chanVars, mapVars
<1>0. TypeOK' /\ Pump \in Procs /\ Pump \notin Streams /\ (pc[Pump] # "idle" => cur \in Streams)
  BY PumpType DEF CloseInv, Procs, TypeOK, ControlType
<1>p. pc \in [Procs -> PumpLabels \cup RunLabels \cup {"none", "ticket", "end"}]
  BY DEF CloseInv, TypeOK, ControlType
<1>1. CASE OnHeaders \/ HeadersAdd \/ HeadersCheck \/ OnReset
  <2>1. PICK l \in {"close", "idle", "phAdd", "phCheck", "phTicket"} : pc' = [pc EXCEPT ![Pump] = l]
    BY <1>1 DEF OnHeaders, HeadersAdd, HeadersCheck, OnReset
  <2>2. pc[Pump] \in {"dispatch", "phAdd", "phCheck"}
    BY <1>1 DEF OnHeaders, HeadersAdd, HeadersCheck, OnReset
  <2>3. UNCHANGED <<cur, closed, recvClosed, cancelled, muW, msgChClosed, senders, panicked, streams, used>>
    BY <1>1 DEF OnHeaders, HeadersAdd, HeadersCheck, OnReset
  <2> QED
    BY <1>0, <2>1, <2>2, <2>3, QuietClose DEF Closing
<1>2. CASE TakeTicket
  <2>1. UNCHANGED <<cur, closed, recvClosed, cancelled, muW, msgChClosed, senders, panicked, streams, used>>
    BY <1>2 DEF TakeTicket
  <2>2. CASE Cardinality(tickets) < MaxTickets
    <3>1. pc' = [pc EXCEPT ![Pump] = "idle", ![cur] = "run"] /\ pc[Pump] = "phTicket"
      BY <1>2, <2>2 DEF TakeTicket
    <3>2. pc'[Pump] = "idle" /\ pc'[cur] = "run" /\ \A q \in Streams \ {cur} : pc'[q] = pc[q]
      BY <1>0, <1>p, <3>1 DEF Procs
    <3>3. \A q \in Procs : Str(q)' = Str(q)
      BY <2>1 DEF Str
    <3>4. pc[cur] = "none"
      BY <1>0, <3>1 DEF CallsInv, HandlersStarted, HeadersOnce
    <3>5. SenderIsPump' /\ NoSendOnClosed' /\ FlagOrder' /\ LockHolders' /\ OnlyUsed'
      BY <1>0, <2>1, <3>1, <3>2, <3>3, <3>4
      DEF CloseInv, SenderIsPump, NoSendOnClosed, FlagOrder, LockHolders, OnlyUsed, Closing, Procs,
          TypeOK, ControlType
    <3>6. ClosedIsReleased'
      BY <1>0, <2>1, <3>1, <3>2, <3>4 DEF CloseInv, ClosedIsReleased, Procs, TypeOK, StateType, Str
    <3> QED
      BY <1>0, <3>5, <3>6 DEF CloseInv
  <2>3. CASE ~(Cardinality(tickets) < MaxTickets)
    <3>1. pc' = [pc EXCEPT ![Pump] = "close"] /\ pc[Pump] = "phTicket"
      BY <1>2, <2>3 DEF TakeTicket
    <3> QED
      BY <1>0, <2>1, <3>1, QuietClose DEF Closing
  <2> QED
    BY <2>2, <2>3
<1>3. CASE OnMessage
  <2>1. pc[Pump] = "dispatch"
        /\ UNCHANGED <<cur, cancelled, muW, msgChClosed, senders, panicked, streams, used>>
    BY <1>3 DEF OnMessage
  <2>2. CASE UNCHANGED <<closed, recvClosed>>
    <3>1. PICK l \in {"close", "idle", "pmEos", "pmLock", "nilWait"} :
            pc' = [pc EXCEPT ![Pump] = l] /\ (l = "nilWait" => cur \in closed' /\ cur \notin closed)
      BY <1>3 DEF OnMessage
    <3> QED
      BY <1>0, <2>1, <2>2, <3>1, QuietClose DEF Closing
  <2>3. CASE ~UNCHANGED <<closed, recvClosed>>
    <3>1. /\ closed' = closed \cup {cur} /\ recvClosed' = recvClosed \cup {cur} /\ cur \notin closed
          /\ pc' = [pc EXCEPT ![Pump] = "nilWait"]
      BY <1>3, <2>3 DEF OnMessage
    <3>2. pc'[Pump] = "nilWait" /\ \A q \in Streams : pc'[q] = pc[q]
      BY <1>0, <1>p, <3>1 DEF Procs
    <3>3. \A q \in Procs : Str(q)' = Str(q)
      BY <2>1 DEF Str
    <3>4. SenderIsPump' /\ NoSendOnClosed' /\ FlagOrder' /\ OnlyUsed'
      BY <1>0, <2>1, <3>1, <3>2, <3>3
      DEF CloseInv, SenderIsPump, NoSendOnClosed, FlagOrder, OnlyUsed, Closing, Procs, Str
    <3>5. LockHolders'
      BY <1>0, <2>1, <3>1, <3>2, <3>3
      DEF CloseInv, LockHolders, FlagOrder, Closing, Procs, TypeOK, ControlType
    <3>6. ClosedIsReleased'
      BY <1>0, <2>1, <3>1, <3>2, <3>3 DEF CloseInv, ClosedIsReleased, Procs, TypeOK, StateType, Str
    <3> QED
      BY <1>0, <3>4, <3>5, <3>6 DEF CloseInv
  <2> QED
    BY <2>2, <2>3
<1>4. CASE MessageLock
  <2>1. pc[Pump] = "pmLock"
        /\ UNCHANGED <<cur, closed, recvClosed, cancelled, muW, msgChClosed, panicked, streams, used>>
    BY <1>4 DEF MessageLock
  <2>2. CASE cur \in recvClosed
    <3>1. pc' = [pc EXCEPT ![Pump] = "idle"] /\ UNCHANGED senders
      BY <1>4, <2>2 DEF MessageLock
    <3> QED
      BY <1>0, <2>1, <3>1, QuietClose DEF Closing
  <2>3. CASE cur \notin recvClosed
    <3>1. pc' = [pc EXCEPT ![Pump] = "pmSend"] /\ senders' = senders \cup {cur}
      BY <1>4, <2>3 DEF MessageLock
    <3>2. pc'[Pump] = "pmSend" /\ \A q \in Streams : pc'[q] = pc[q]
      BY <1>0, <1>p, <3>1 DEF Procs
    <3>3. \A q \in Procs : Str(q)' = Str(q)
      BY <2>1 DEF Str
    <3>4. SenderIsPump' /\ NoSendOnClosed' /\ FlagOrder' /\ OnlyUsed'
      BY <1>0, <2>1, <2>3, <3>1, <3>2, <3>3
      DEF CloseInv, SenderIsPump, NoSendOnClosed, FlagOrder, OnlyUsed, Closing, Procs
    <3>5. LockHolders' /\ ClosedIsReleased'
      BY <1>0, <2>1, <3>1, <3>2, <3>3
      DEF CloseInv, LockHolders, ClosedIsReleased, Procs, TypeOK, ControlType, StateType
    <3> QED
      BY <1>0, <3>4, <3>5 DEF CloseInv
  <2> QED
    BY <2>2, <2>3
<1>5. CASE MessageSend
  <2>1. pc[Pump] = "pmSend" /\ senders' = senders \ {cur} /\ cur \notin msgChClosed
        /\ UNCHANGED <<cur, closed, recvClosed, cancelled, muW, msgChClosed, streams, used>>
    BY <1>5 DEF MessageSend, CloseInv, FlagOrder
  <2>2. panicked' = panicked
    BY <1>5, <2>1 DEF MessageSend
  <2>3. PICK l \in {"pmEos", "idle"} : pc' = [pc EXCEPT ![Pump] = l]
    BY <1>5 DEF MessageSend
  <2>4. pc'[Pump] = l /\ \A q \in Streams : pc'[q] = pc[q]
    BY <1>0, <1>p, <2>3 DEF Procs
  <2>5. \A q \in Procs : Str(q)' = Str(q)
    BY <2>1 DEF Str
  <2>6. SenderIsPump' /\ NoSendOnClosed' /\ FlagOrder' /\ OnlyUsed'
    BY <1>0, <2>1, <2>2, <2>4, <2>5
    DEF CloseInv, SenderIsPump, NoSendOnClosed, FlagOrder, OnlyUsed, Closing, Procs
  <2>7. LockHolders' /\ ClosedIsReleased'
    BY <1>0, <2>1, <2>4, <2>5
    DEF CloseInv, LockHolders, ClosedIsReleased, Procs, TypeOK, ControlType, StateType
  <2> QED
    BY <1>0, <2>6, <2>7 DEF CloseInv
<1>6. CASE MessageEos
  <2>1. /\ pc[Pump] = "pmEos" /\ pc' = [pc EXCEPT ![Pump] = "idle"]
        /\ recvClosed' = recvClosed \cup {cur} /\ msgChClosed' = msgChClosed \cup {cur}
        /\ UNCHANGED <<cur, closed, cancelled, muW, senders, panicked, streams, used>>
    BY <1>6 DEF MessageEos
  <2>2. pc'[Pump] = "idle" /\ \A q \in Streams : pc'[q] = pc[q]
    BY <1>0, <1>p, <2>1 DEF Procs
  <2>3. \A q \in Procs : Str(q)' = Str(q)
    BY <2>1 DEF Str
  <2>4. SenderIsPump' /\ NoSendOnClosed' /\ FlagOrder' /\ OnlyUsed'
    BY <1>0, <2>1, <2>2, <2>3
    DEF CloseInv, SenderIsPump, NoSendOnClosed, FlagOrder, OnlyUsed, Closing, Procs
  <2>5. LockHolders' /\ ClosedIsReleased'
    BY <1>0, <2>1, <2>2, <2>3
    DEF CloseInv, LockHolders, ClosedIsReleased, Procs, TypeOK, ControlType, StateType
  <2> QED
    BY <1>0, <2>4, <2>5 DEF CloseInv
<1>7. CASE NilPacketClose /\ pc[Pump] = "nilWait"
  <2>1. /\ pc' = [pc EXCEPT ![Pump] = "nilErr"] /\ msgChClosed' = msgChClosed \cup {cur}
        /\ UNCHANGED <<cur, closed, recvClosed, cancelled, muW, senders, panicked, streams, used>>
    BY <1>7 DEF NilPacketClose
  <2>2. pc'[Pump] = "nilErr" /\ \A q \in Streams : pc'[q] = pc[q]
    BY <1>0, <1>p, <2>1 DEF Procs
  <2>3. \A q \in Procs : Str(q)' = Str(q)
    BY <2>1 DEF Str
  <2>4. SenderIsPump' /\ NoSendOnClosed' /\ FlagOrder' /\ OnlyUsed'
    BY <1>0, <1>7, <2>1, <2>2, <2>3
    DEF CloseInv, SenderIsPump, NoSendOnClosed, FlagOrder, OnlyUsed, Closing, Procs, Str
  <2>5. LockHolders' /\ ClosedIsReleased'
    BY <1>0, <1>7, <2>1, <2>2, <2>3
    DEF CloseInv, LockHolders, ClosedIsReleased, Procs, TypeOK, ControlType, StateType
  <2> QED
    BY <1>0, <2>4, <2>5 DEF CloseInv
<1>8. CASE NilPacketClose /\ pc[Pump] = "nilErr"
  <2>1. /\ pc' = [pc EXCEPT ![Pump] = "idle"] /\ cancelled' = cancelled \cup {cur}
        /\ streams' = streams \ {cur}
        /\ UNCHANGED <<cur, closed, recvClosed, muW, msgChClosed, senders, panicked, used>>
    BY <1>8 DEF NilPacketClose
  <2>2. pc'[Pump] = "idle" /\ \A q \in Streams : pc'[q] = pc[q]
    BY <1>0, <1>p, <2>1 DEF Procs
  <2>3. \A q \in Procs : Str(q)' = Str(q)
    BY <2>1 DEF Str
  <2>4. SenderIsPump' /\ NoSendOnClosed' /\ FlagOrder' /\ OnlyUsed'
    BY <1>0, <1>8, <2>1, <2>2, <2>3
    DEF CloseInv, SenderIsPump, NoSendOnClosed, FlagOrder, OnlyUsed, Closing, Procs
  <2>5. LockHolders'
    BY <1>0, <1>8, <2>1, <2>2, <2>3
    DEF CloseInv, LockHolders, Procs, TypeOK, ControlType
  <2>6. ClosedIsReleased'
    BY <1>0, <1>8, <2>1, <2>2, <2>3
    DEF CloseInv, LockHolders, ClosedIsReleased, Procs, TypeOK, StateType, Str
  <2> QED
    BY <1>0, <2>4, <2>5, <2>6 DEF CloseInv
<1>9. CASE CloseStep(Pump)
  BY <1>0, <1>9, CloseClose
<1> QED
  BY <1>1, <1>2, <1>3, <1>4, <1>5, <1>6, <1>7, <1>8, <1>9 DEF PumpStep, NilPacketClose

\* Every step keeps the invariant of closing.
LEMMA NextClose == CallsInv /\ CloseInv /\ [Next]_vars => CloseInv'
<1> SUFFICES ASSUME CallsInv, CloseInv, [Next]_vars PROVE CloseInv'
  OBVIOUS
<1> USE ServerStreamAssumption DEF Goto, StartClose, streamVars, muVars, chanVars, mapVars, procVars
<1>0. TypeOK' /\ Pump \in Procs /\ Pump \notin Streams
  BY NextType DEF CloseInv, Procs
<1>p. pc \in [Procs -> PumpLabels \cup RunLabels \cup {"none", "ticket", "end"}]
  BY DEF CloseInv, TypeOK, ControlType
<1>1. ASSUME NEW s \in Streams, NEW r \in ClientSends, OnChannelMessage(s, r)
      PROVE  CloseInv'
  <2>1. /\ UNCHANGED <<closed, recvClosed, cancelled, muW, msgChClosed, senders, panicked>>
        /\ pc[Pump] = "idle"
    BY <1>1 DEF OnChannelMessage
  <2>2. CASE UNCHANGED <<streams, used, pc, cur>>
    BY <1>0, <2>1, <2>2
    DEF CloseInv, SenderIsPump, NoSendOnClosed, FlagOrder, LockHolders, OnlyUsed, ClosedIsReleased,
        Closing, Str
  <2>3. CASE ~UNCHANGED <<streams, used, pc, cur>>
    <3>1. /\ streams' = streams \cup {s} /\ used' = used \cup {s} /\ cur' = s
          /\ pc' = [pc EXCEPT ![Pump] = "dispatch"] /\ (s \in streams \/ s \notin used)
      BY <1>1, <2>3 DEF OnChannelMessage
    <3>2. pc'[Pump] = "dispatch" /\ \A q \in Streams : pc'[q] = pc[q] /\ Str(q)' = q /\ Str(q) = q
      BY <1>0, <1>p, <3>1 DEF Procs, Str
    <3>3. SenderIsPump' /\ NoSendOnClosed' /\ FlagOrder' /\ OnlyUsed'
      BY <1>0, <2>1, <3>1, <3>2
      DEF CloseInv, SenderIsPump, NoSendOnClosed, FlagOrder, OnlyUsed, Closing, Procs
    <3>4. LockHolders' /\ ClosedIsReleased'
      BY <1>0, <2>1, <3>1, <3>2
      DEF CloseInv, LockHolders, OnlyUsed, ClosedIsReleased, Procs, TypeOK, ControlType, StateType
    <3> QED
      BY <1>0, <3>3, <3>4 DEF CloseInv
  <2> QED
    BY <2>2, <2>3
<1>2. CASE PumpStep
  BY <1>2, PumpClose
<1>3. ASSUME NEW s \in Streams, HandlerStep(s) PROVE CloseInv'
  <2>1. CASE CloseStep(s)
    BY <2>1, CloseClose DEF Procs
  <2>2. CASE ~CloseStep(s)
    <3>1. PICK l \in {"recv", "run", "onlyHdr", "send", "sendHdr", "done", "sendMsg", "close", "ticket", "end"} :
            pc' = [pc EXCEPT ![s] = l]
      BY <1>3, <2>2 DEF HandlerStep, HandlerRecv, RecvMsg, HandlerSendHeader, HandlerSend, SendCheck, SendLock,
        SendWrite, HandlerReturn, HandlerQuit, HandlerDone, ReturnTicket
    <3>2. pc[s] \in {"run", "recv", "send", "sendLock", "sendMsg", "done", "ticket"}
      BY <1>3, <2>2 DEF HandlerStep, HandlerRecv, RecvMsg, HandlerSendHeader, HandlerSend, SendCheck, SendLock,
        SendWrite, HandlerReturn, HandlerQuit, HandlerDone, ReturnTicket
    <3>3. UNCHANGED <<cur, closed, recvClosed, cancelled, muW, msgChClosed, senders, panicked, streams, used>>
      BY <1>3, <2>2 DEF HandlerStep, HandlerRecv, RecvMsg, HandlerSendHeader, HandlerSend, SendCheck, SendLock,
        SendWrite, HandlerReturn, HandlerQuit, HandlerDone, ReturnTicket
    <3> QED
      BY <1>0, <3>1, <3>2, <3>3, QuietClose DEF Closing, Procs
  <2> QED
    BY <2>1, <2>2
<1>4. ASSUME NEW s \in Streams, StreamTimeout(s) PROVE CloseInv'
  BY <1>0, <1>4
  DEF StreamTimeout, CloseInv, SenderIsPump, NoSendOnClosed, FlagOrder, LockHolders, OnlyUsed,
      ClosedIsReleased, Closing, Str
<1>5. CASE StopCancel \/ StopStep \/ ChannelClose \/ PeerDone \/ LinkDown \/ UNCHANGED vars
  <2>1. UNCHANGED <<pc, cur, closed, recvClosed, cancelled, muW, msgChClosed, senders, panicked, streams, used>>
    BY <1>5 DEF StopCancel, StopStep, StopLock, StopWait, StopPeers, StopGraceful, ChannelClose, PeerDone, LinkDown, vars
  <2> QED
    BY <1>0, <2>1
    DEF CloseInv, SenderIsPump, NoSendOnClosed, FlagOrder, LockHolders, OnlyUsed, ClosedIsReleased,
        Closing, Str
<1> QED
  BY <1>1, <1>2, <1>3, <1>4, <1>5 DEF Next

\* The invariant of closing holds in every reachable state.
THEOREM CloseInvariant == Spec => []CloseInv
<1> QED
  BY InitClose, NextClose, CallsInvariant, PTL DEF Spec

\* However the pump's delivery interleaves with the handler's close, no message
\* is sent on a msgCh that closeRecv has closed: closeRecv waits for
\* activeSenders, and processMessage registers under mu after looking at recvClosed.
THEOREM NeverSendsOnClosed == Spec => []NoSendOnClosed
<1>1. CloseInv => NoSendOnClosed
  BY DEF CloseInv
<1> QED
  BY <1>1, CloseInvariant, PTL

----------------------------------------------------------------------------
(* A handler receives the client's messages in order, and io.EOF after the   *)
(* last of them.                                                             *)

\* A stream that stays in the channel's map has got its headers, but for the
\* one the pump is opening or refusing, or when the server is stopping.
HeadersFirst ==
  /\ sendClosed \subseteq used
  /\ \A s \in streams : s \in headersReceived \/ srvCtx \/ (pc[Pump] # "idle" /\ cur = s)
  /\ \A s \in sendClosed \ headersReceived :
       s \notin streams \/ (cur = s /\ pc[Pump] \in CloseLabels \ {"close"})
  /\ pc[Pump] = "dispatch" /\ req \notin Kinds => cur \in headersReceived \/ srvCtx
  /\ pc[Pump] \in {"pmLock", "pmSend", "pmEos"} => cur \in headersReceived
  /\ pc[Pump] \in {"pmLock", "pmSend"} => req \in {"msg", "msgEos"}

\* The pump is about to half-close the stream it works on.
EosPending ==
  \/ pc[Pump] = "pmEos"
  \/ pc[Pump] \in {"dispatch", "pmLock", "pmSend"} /\ req \in {"eos", "msgEos"}

\* After the client's half-close nothing more is accepted, and only a
\* half-close or a close ends the receiving side.
HalfClose ==
  /\ \A s \in eosSeen : s \in headersReceived \/ srvCtx
  /\ \A s \in eosSeen \cap headersReceived : s \in recvClosed \/ (cur = s /\ EosPending)
  /\ pc[Pump] = "phTicket" => cur \notin eosSeen
  /\ EosPending => cur \in eosSeen
  /\ pc[Pump] \in {"pmLock", "pmSend", "pmEos"} /\ cur \in recvClosed => cur \in closed
  /\ recvClosed \subseteq closed \cup eosSeen
  /\ \A s \in sawEOF : msgCh[s] = <<>> /\ s \in msgChClosed

\* The pump holds an accepted message of s that is not yet in msgCh.
Pending(s) ==
  /\ cur = s
  /\ \/ pc[Pump] \in {"pmLock", "pmSend"}
     \/ /\ pc[Pump] = "dispatch" /\ req \in {"msg", "msgEos"}
        /\ s \in headersReceived /\ s \notin recvClosed

\* What s received, what is in its msgCh and what the pump holds are in order,
\* and nmsg numbers the last of them.
InOrder(s) ==
  /\ \A i, j \in DOMAIN rcvd[s] : i < j => rcvd[s][i] < rcvd[s][j]
  /\ \A i \in DOMAIN rcvd[s] : rcvd[s][i] <= nmsg[s]
  /\ msgCh[s] # <<>> =>
       /\ Len(msgCh[s]) = 1 /\ msgCh[s][1] <= nmsg[s]
       /\ \A i \in DOMAIN rcvd[s] : rcvd[s][i] < msgCh[s][1]
  /\ Pending(s) =>
       /\ \A i \in DOMAIN rcvd[s] : rcvd[s][i] < nmsg[s]
       /\ msgCh[s] # <<>> => msgCh[s][1] < nmsg[s]

\* Until its context is done or it is closed, s loses no message.
NoGap(s) ==
  ~CtxDone(s) =>
    /\ \A i \in DOMAIN rcvd[s] : rcvd[s][i] = i
    /\ msgCh[s] # <<>> => msgCh[s][1] = Len(rcvd[s]) + 1
    /\ Pending(s) => nmsg[s] = Len(rcvd[s]) + Len(msgCh[s]) + 1
    /\ ~Pending(s) /\ s \notin closed => nmsg[s] = Len(rcvd[s]) + Len(msgCh[s])

Ordered == \A s \in Streams : InOrder(s) /\ NoGap(s)

RecvInv == HeadersFirst /\ HalfClose /\ Ordered

\* The steps of the other goroutines and the events of the connection.
Elsewhere ==
  \/ \E s \in Streams : HandlerStep(s) \/ StreamTimeout(s)
  \/ StopCancel \/ StopStep \/ ChannelClose \/ PeerDone \/ LinkDown
  \/ UNCHANGED vars

\* What the other goroutines leave to the pump: its control state, the opening
\* of streams and the counting of messages. They only raise a stream's flags,
\* and a handler's stream has its headers.
LEMMA ElsewhereFrame ==
  ASSUME CallsInv, CloseInv, Elsewhere
  PROVE  /\ pc'[Pump] = pc[Pump] /\ UNCHANGED <<cur, req, used, headersReceived, nmsg, eosSeen>>
         /\ streams' \subseteq streams /\ (srvCtx => srvCtx') /\ (chCtx => chCtx')
         /\ cancelled \subseteq cancelled' /\ closed \subseteq closed' /\ recvClosed \subseteq recvClosed'
         /\ recvClosed' \subseteq recvClosed \cup closed' /\ msgChClosed \subseteq msgChClosed'
         /\ sendClosed' \subseteq sendClosed \cup headersReceived
         /\ \/ UNCHANGED <<msgCh, rcvd, sawEOF>>
            \/ \E s \in Streams : RecvMsg(s)
<1> USE ServerStreamAssumption DEF Goto, StartClose, streamVars, muVars, chanVars, mapVars, procVars,
      recvVars, srvVars, connVars
<1>p. /\ pc \in [Procs -> PumpLabels \cup RunLabels \cup {"none", "ticket", "end"}]
      /\ Pump \in Procs /\ Pump \notin Streams
  BY DEF CloseInv, TypeOK, ControlType, Procs
<1>1. ASSUME NEW s \in Streams, HandlerStep(s), CloseStep(s)
      PROVE  /\ pc'[Pump] = pc[Pump] /\ UNCHANGED <<cur, req, used, headersReceived, nmsg, eosSeen>>
             /\ streams' \subseteq streams /\ (srvCtx => srvCtx') /\ (chCtx => chCtx')
             /\ cancelled \subseteq cancelled' /\ closed \subseteq closed' /\ recvClosed \subseteq recvClosed'
             /\ recvClosed' \subseteq recvClosed \cup closed' /\ msgChClosed \subseteq msgChClosed'
             /\ sendClosed' \subseteq sendClosed \cup headersReceived
             /\ UNCHANGED <<msgCh, rcvd, sawEOF>>
  <2>1. pc[s] # "none" /\ s \in headersReceived /\ Str(s) = s
    BY <1>1, <1>p
    DEF CallsInv, HandlersStarted, Str, CloseStep, CloseCAS, CloseCheck, HeaderCAS, HeaderWrite,
        TrailerWrite, CloseLock, CloseWait
  <2>2. CASE CloseCAS(s) \/ CloseCheck(s)
    BY <1>p, <2>1, <2>2 DEF CloseCAS, CloseCheck, sendVars
  <2>3. CASE HeaderCAS(s) \/ HeaderWrite(s) \/ TrailerWrite(s)
    <3>1. \E l : pc' = [pc EXCEPT ![s] = l]
      BY <2>3 DEF HeaderCAS, HeaderWrite, TrailerWrite
    <3> QED
      BY <1>p, <2>3, <3>1 DEF HeaderCAS, HeaderWrite, TrailerWrite
  <2>4. CASE CloseLock(s) \/ CloseWait(s)
    BY <1>p, <2>1, <2>4 DEF CloseLock, CloseWait
  <2> QED
    BY <1>1, <2>2, <2>3, <2>4 DEF CloseStep
<1>2. ASSUME NEW s \in Streams, HandlerStep(s), ~CloseStep(s)
      PROVE  /\ pc'[Pump] = pc[Pump] /\ UNCHANGED <<cur, req, used, headersReceived, nmsg, eosSeen>>
             /\ UNCHANGED <<streams, srvCtx, chCtx, cancelled, closed, recvClosed, msgChClosed, sendClosed>>
             /\ UNCHANGED <<msgCh, rcvd, sawEOF>> \/ RecvMsg(s)
  <2>1. \E l : pc' = [pc EXCEPT ![s] = l]
    BY <1>2 DEF HandlerStep, HandlerRecv, RecvMsg, HandlerSendHeader, HandlerSend, SendCheck, SendLock,
      SendWrite, HandlerReturn, HandlerQuit, HandlerDone, ReturnTicket
  <2>2. UNCHANGED <<cur, req, used, headersReceived, nmsg, eosSeen, streams, srvCtx, chCtx, cancelled,
                    closed, recvClosed, msgChClosed, sendClosed>>
    BY <1>2 DEF HandlerStep, HandlerRecv, RecvMsg, HandlerSendHeader, HandlerSend, SendCheck, SendLock,
      SendWrite, HandlerReturn, HandlerQuit, HandlerDone, ReturnTicket
  <2>3. UNCHANGED <<msgCh, rcvd, sawEOF>> \/ RecvMsg(s)
    BY <1>2 DEF HandlerStep, HandlerRecv, HandlerSendHeader, HandlerSend, SendCheck, SendLock,
      SendWrite, HandlerReturn, HandlerQuit, HandlerDone, ReturnTicket
  <2> QED
    BY <1>p, <2>1, <2>2, <2>3
<1>3. CASE \/ (\E s \in Streams : StreamTimeout(s)) \/ StopCancel \/ StopStep
           \/ ChannelClose \/ PeerDone \/ LinkDown \/ UNCHANGED vars
  BY <1>3 DEF StreamTimeout, StopCancel, StopStep, StopLock, StopWait, StopPeers, StopGraceful, ChannelClose, PeerDone,
    LinkDown, vars
<1> QED
  BY <1>1, <1>2, <1>3 DEF Elsewhere

\* Headers come first, whatever the client sends and whoever closes the stream.
LEMMA HeadersFirstStep ==
  ASSUME CallsInv, CloseInv, HeadersFirst, [Next]_vars
  PROVE  HeadersFirst'
<1> USE ServerStreamAssumption DEF Goto, StartClose, streamVars, mapVars, srvVars
<1>p. /\ pc \in [Procs -> PumpLabels \cup RunLabels \cup {"none", "ticket", "end"}]
      /\ Pump \in Procs /\ Pump \notin Streams /\ (pc[Pump] # "idle" => cur \in Streams)
      /\ Str(Pump) = cur
  BY DEF CloseInv, TypeOK, ControlType, Procs, Str
<1>1. ASSUME NEW s \in Streams, NEW r \in ClientSends, OnChannelMessage(s, r)
      PROVE  HeadersFirst'
  <2>1. UNCHANGED <<headersReceived, sendClosed, srvCtx>> /\ pc[Pump] = "idle"
    BY <1>1 DEF OnChannelMessage
  <2>2. CASE UNCHANGED <<streams, used, pc, cur, req>>
    BY <2>1, <2>2 DEF HeadersFirst
  <2>3. CASE ~UNCHANGED <<streams, used, pc, cur, req>>
    <3>1. /\ streams' = streams \cup {s} /\ used' = used \cup {s} /\ cur' = s /\ req' = r
          /\ pc'[Pump] = "dispatch" /\ (s \in streams \/ (s \notin used /\ r \in Kinds))
      BY <1>1, <1>p, <2>3 DEF OnChannelMessage
    <3> QED
      BY <2>1, <3>1 DEF HeadersFirst, CloseLabels
  <2> QED
    BY <2>2, <2>3
<1>2. CASE OnHeaders \/ HeadersAdd \/ HeadersCheck \/ OnReset
  <2>1. UNCHANGED <<streams, used, sendClosed, headersReceived, srvCtx, cur, req>>
    BY <1>2 DEF OnHeaders, HeadersAdd, HeadersCheck, OnReset
  <2>2. /\ pc[Pump] \in {"dispatch", "phAdd", "phCheck"}
        /\ pc'[Pump] \in {"close", "phAdd", "phCheck", "phTicket"} \/ (pc'[Pump] = "idle" /\ srvCtx)
    BY <1>2, <1>p DEF OnHeaders, HeadersAdd, HeadersCheck, OnReset
  <2> QED
    BY <2>1, <2>2 DEF HeadersFirst, CloseLabels
<1>3. CASE TakeTicket
  <2>1. UNCHANGED <<streams, used, sendClosed, srvCtx, cur, req>> /\ pc[Pump] = "phTicket"
    BY <1>3 DEF TakeTicket
  <2>2. \/ pc'[Pump] = "close" /\ headersReceived' = headersReceived
        \/ pc'[Pump] = "idle" /\ headersReceived' = headersReceived \cup {cur}
    BY <1>3, <1>p DEF TakeTicket, Procs
  <2> QED
    BY <2>1, <2>2 DEF HeadersFirst, CloseLabels
<1>4. CASE OnMessage
  <2>1. UNCHANGED <<streams, used, sendClosed, headersReceived, srvCtx, cur, req>> /\ pc[Pump] = "dispatch"
    BY <1>4 DEF OnMessage
  <2>2. \/ pc'[Pump] = "close"
        \/ pc'[Pump] \in {"idle", "nilWait", "pmEos"} /\ cur \in headersReceived
        \/ pc'[Pump] = "pmLock" /\ cur \in headersReceived /\ req \in {"msg", "msgEos"}
    BY <1>4, <1>p DEF OnMessage
  <2> QED
    BY <2>1, <2>2 DEF HeadersFirst, CloseLabels
<1>5. CASE MessageLock \/ MessageSend \/ MessageEos
  <2>1. UNCHANGED <<streams, used, sendClosed, headersReceived, srvCtx, cur, req>>
    BY <1>5 DEF MessageLock, MessageSend, MessageEos
  <2>2. /\ pc[Pump] \in {"pmLock", "pmSend", "pmEos"} /\ pc'[Pump] \in {"idle", "pmSend", "pmEos"}
        /\ pc'[Pump] = "pmSend" => pc[Pump] = "pmLock"
    BY <1>5, <1>p DEF MessageLock, MessageSend, MessageEos
  <2> QED
    BY <2>1, <2>2 DEF HeadersFirst, CloseLabels
<1>6. CASE NilPacketClose
  <2>1. UNCHANGED <<used, sendClosed, headersReceived, srvCtx, cur, req>>
    BY <1>6 DEF NilPacketClose
  <2>2. \/ pc[Pump] = "nilWait" /\ pc'[Pump] = "nilErr" /\ streams' = streams
        \/ pc[Pump] = "nilErr" /\ pc'[Pump] = "idle" /\ streams' = streams \ {cur}
    BY <1>6, <1>p DEF NilPacketClose
  <2> QED
    BY <2>1, <2>2 DEF HeadersFirst, CloseLabels
<1>7. CASE CloseStep(Pump)
  <2>0. UNCHANGED <<used, headersReceived, srvCtx, cur, req>>
    BY <1>7 DEF CloseStep, CloseCAS, CloseCheck, HeaderCAS, HeaderWrite, TrailerWrite, CloseLock, CloseWait
  <2>1. CASE CloseCAS(Pump)
    <3>1. pc[Pump] = "close" /\ streams' = streams
      BY <2>1 DEF CloseCAS
    <3>2. \/ pc'[Pump] = "idle" /\ cur \in sendClosed /\ sendClosed' = sendClosed
          \/ pc'[Pump] \in {"closeLock", "closeChk"} /\ sendClosed' = sendClosed \cup {cur}
      BY <2>1, <1>p DEF CloseCAS, AfterClose
    <3> QED
      BY <1>p, <2>0, <3>1, <3>2 DEF HeadersFirst, CloseLabels, CloseInv, OnlyUsed
  <2>2. CASE CloseCheck(Pump) \/ HeaderCAS(Pump) \/ HeaderWrite(Pump) \/ TrailerWrite(Pump)
    <3>1. UNCHANGED <<streams, sendClosed>>
      BY <2>2 DEF CloseCheck, HeaderCAS, HeaderWrite, TrailerWrite
    <3>2. pc[Pump] \in {"closeChk", "closeHdr", "closeHdrW", "closeTrl"}
      BY <2>2 DEF CloseCheck, HeaderCAS, HeaderWrite, TrailerWrite, CloseInv, TypeOK, ControlType,
        PumpLabels, CloseLabels
    <3>3. pc'[Pump] \in CloseLabels \ {"close"}
      BY <1>p, <2>2, <3>2 DEF CloseCheck, HeaderCAS, HeaderWrite, TrailerWrite, CloseLabels
    <3> QED
      BY <2>0, <3>1, <3>2, <3>3 DEF HeadersFirst, CloseLabels
  <2>3. CASE CloseLock(Pump)
    <3>1. pc[Pump] = "closeLock" /\ UNCHANGED <<streams, sendClosed>>
      BY <2>3 DEF CloseLock
    <3>2. pc'[Pump] = "closeWait" \/ (pc'[Pump] = "idle" /\ cur \in closed)
      BY <2>3, <1>p DEF CloseLock, AfterClose
    <3>3. cur \in closed => cur \in headersReceived \/ cur \notin streams
      BY <1>p, <3>1 DEF CloseInv, ClosedIsReleased, CallsInv, HandlersStarted
    <3> QED
      BY <1>p, <2>0, <3>1, <3>2, <3>3 DEF HeadersFirst, CloseLabels
  <2>4. CASE CloseWait(Pump)
    <3>1. /\ pc[Pump] = "closeWait" /\ pc'[Pump] = "idle" /\ streams' = streams \ {cur}
          /\ sendClosed' = sendClosed
      BY <2>4, <1>p DEF CloseWait, AfterClose
    <3> QED
      BY <2>0, <3>1 DEF HeadersFirst, CloseLabels
  <2> QED
    BY <1>7, <2>1, <2>2, <2>3, <2>4 DEF CloseStep
<1>8. CASE Elsewhere
  <2>1. headersReceived \subseteq used
    BY DEF CallsInv, HandlersStarted, CloseInv, OnlyUsed, TypeOK, StateType
  <2> QED
    BY <1>8, <2>1, ElsewhereFrame DEF HeadersFirst
<1> QED
  BY <1>1, <1>2, <1>3, <1>4, <1>5, <1>6, <1>7, <1>8 DEF Next, PumpStep, Elsewhere

\* After a half-close no message is accepted, and the end of the stream is
\* reported only when msgCh is closed and drained.
LEMMA HalfCloseStep ==
  ASSUME CallsInv, CloseInv, HeadersFirst, HalfClose, [Next]_vars
  PROVE  HalfClose'
<1> USE ServerStreamAssumption DEF Goto, StartClose, streamVars, mapVars, srvVars, chanVars, recvVars
<1>p. /\ pc \in [Procs -> PumpLabels \cup RunLabels \cup {"none", "ticket", "end"}]
      /\ Pump \in Procs /\ Pump \notin Streams /\ (pc[Pump] # "idle" => cur \in Streams)
      /\ Str(Pump) = cur
  BY DEF CloseInv, TypeOK, ControlType, Procs, Str
<1>1. ASSUME NEW s \in Streams, NEW r \in ClientSends, OnChannelMessage(s, r)
      PROVE  HalfClose'
  <2>1. UNCHANGED <<headersReceived, srvCtx, recvClosed, closed, sawEOF, msgCh, msgChClosed>> /\ pc[Pump] = "idle"
    BY <1>1 DEF OnChannelMessage
  <2>2. CASE UNCHANGED <<pc, cur, req, eosSeen>>
    BY <2>1, <2>2 DEF HalfClose, EosPending
  <2>3. CASE ~UNCHANGED <<pc, cur, req, eosSeen>>
    <3>1. /\ cur' = s /\ req' = r /\ pc'[Pump] = "dispatch"
          /\ s \in streams \/ r \in Kinds
          /\ eosSeen' = IF r \in {"eos", "msgEos"} THEN eosSeen \cup {s} ELSE eosSeen
      BY <1>1, <1>p, <2>3 DEF OnChannelMessage
    <3> QED
      BY <2>1, <3>1 DEF HalfClose, EosPending, HeadersFirst, Kinds
  <2> QED
    BY <2>2, <2>3
<1>2. CASE OnHeaders \/ HeadersAdd \/ HeadersCheck \/ OnReset
  <2>1. UNCHANGED <<headersReceived, srvCtx, recvClosed, closed, sawEOF, msgCh, msgChClosed, cur, req, eosSeen>>
    BY <1>2 DEF OnHeaders, HeadersAdd, HeadersCheck, OnReset
  <2>2. /\ (pc[Pump] = "dispatch" /\ req \in Kinds \cup {"rst"}) \/ pc[Pump] \in {"phAdd", "phCheck"}
        /\ pc'[Pump] \in {"close", "phAdd", "phCheck", "phTicket", "idle"}
        /\ pc'[Pump] = "phTicket" => pc[Pump] = "phCheck" /\ ~srvCtx
    BY <1>2, <1>p DEF OnHeaders, HeadersAdd, HeadersCheck, OnReset
  <2>3. pc[Pump] = "phCheck" => cur \notin headersReceived
    BY DEF CallsInv, HeadersOnce
  <2> QED
    BY <2>1, <2>2, <2>3 DEF HalfClose, EosPending, Kinds
<1>3. CASE TakeTicket
  <2>1. /\ UNCHANGED <<srvCtx, recvClosed, closed, sawEOF, msgCh, msgChClosed, cur, req, eosSeen>>
        /\ pc[Pump] = "phTicket"
    BY <1>3 DEF TakeTicket
  <2>2. \/ pc'[Pump] = "close" /\ headersReceived' = headersReceived
        \/ pc'[Pump] = "idle" /\ headersReceived' = headersReceived \cup {cur}
    BY <1>3, <1>p DEF TakeTicket, Procs
  <2> QED
    BY <2>1, <2>2 DEF HalfClose, EosPending
<1>4. CASE OnMessage
  <2>1. /\ UNCHANGED <<headersReceived, srvCtx, sawEOF, msgCh, msgChClosed, cur, req, eosSeen>>
        /\ pc[Pump] = "dispatch" /\ req \in {"msg", "msgEos", "eos", "nilPacket"}
    BY <1>4 DEF OnMessage
  <2>2. \/ pc'[Pump] = "close" /\ cur \notin headersReceived /\ UNCHANGED <<closed, recvClosed>>
        \/ pc'[Pump] = "idle" /\ cur \in recvClosed /\ UNCHANGED <<closed, recvClosed>>
        \/ pc'[Pump] = "idle" /\ req = "nilPacket" /\ UNCHANGED <<closed, recvClosed>>
        \/ /\ pc'[Pump] = "nilWait" /\ req = "nilPacket"
           /\ closed' = closed \cup {cur} /\ recvClosed' = recvClosed \cup {cur}
        \/ /\ pc'[Pump] = (IF req = "eos" THEN "pmEos" ELSE "pmLock") /\ cur \notin recvClosed
           /\ UNCHANGED <<closed, recvClosed>>
    BY <1>4, <1>p DEF OnMessage
  <2> QED
    BY <2>1, <2>2 DEF HalfClose, EosPending
<1>5. CASE MessageLock \/ MessageSend \/ MessageEos
  <2>1. UNCHANGED <<headersReceived, srvCtx, closed, sawEOF, cur, req, eosSeen>>
    BY <1>5 DEF MessageLock, MessageSend, MessageEos
  <2>2. \/ /\ pc[Pump] = "pmLock" /\ UNCHANGED <<recvClosed, msgCh, msgChClosed>>
           /\ pc'[Pump] = IF cur \in recvClosed THEN "idle" ELSE "pmSend"
        \/ /\ pc[Pump] = "pmSend" /\ UNCHANGED <<recvClosed, msgChClosed>>
           /\ pc'[Pump] = IF req = "msgEos" THEN "pmEos" ELSE "idle"
           /\ \A s \in Streams : cur # s => msgCh'[s] = msgCh[s]
        \/ /\ pc[Pump] = "pmEos" /\ pc'[Pump] = "idle" /\ UNCHANGED msgCh
           /\ recvClosed' = recvClosed \cup {cur} /\ msgChClosed' = msgChClosed \cup {cur}
    BY <1>5, <1>p DEF MessageLock, MessageSend, MessageEos, CloseInv, TypeOK, DataType
  <2>3. pc[Pump] \in {"pmLock", "pmSend"} => req # "eos"
    BY DEF HeadersFirst
  <2>4. pc[Pump] = "pmSend" => cur \notin msgChClosed
    BY DEF CloseInv, FlagOrder
  <2>5. sawEOF \subseteq Streams
    BY DEF CloseInv, TypeOK, StateType
  <2> QED
    BY <2>1, <2>2, <2>3, <2>4, <2>5 DEF HalfClose, EosPending
<1>6. CASE NilPacketClose \/ CloseStep(Pump)
  <2>1. UNCHANGED <<headersReceived, srvCtx, sawEOF, msgCh, cur, req, eosSeen>>
    BY <1>6 DEF NilPacketClose, CloseStep, CloseCAS, CloseCheck, HeaderCAS, HeaderWrite, TrailerWrite,
      CloseLock, CloseWait
  <2>2. /\ pc[Pump] \in CloseLabels \cup {"nilWait", "nilErr"}
        /\ pc'[Pump] \in CloseLabels \cup {"nilErr", "idle"}
    <3>1. CASE NilPacketClose
      BY <1>p, <3>1 DEF NilPacketClose
    <3>2. CASE CloseCAS(Pump) \/ CloseCheck(Pump) \/ CloseLock(Pump) \/ CloseWait(Pump)
      BY <1>p, <3>2 DEF CloseCAS, CloseCheck, CloseLock, CloseWait, CloseLabels, AfterClose
    <3>3. CASE HeaderCAS(Pump) \/ HeaderWrite(Pump) \/ TrailerWrite(Pump)
      <4>1. pc[Pump] \in {"closeHdr", "closeHdrW", "closeTrl"}
        BY <3>3 DEF HeaderCAS, HeaderWrite, TrailerWrite, CloseInv, TypeOK, ControlType, PumpLabels, CloseLabels
      <4> QED
        BY <1>p, <3>3, <4>1 DEF HeaderCAS, HeaderWrite, TrailerWrite, CloseLabels
    <3> QED
      BY <1>6, <3>1, <3>2, <3>3 DEF CloseStep
  <2>3. /\ msgChClosed \subseteq msgChClosed' /\ recvClosed \subseteq recvClosed' /\ closed \subseteq closed'
        /\ recvClosed' \subseteq recvClosed \cup closed'
    BY <1>6 DEF NilPacketClose, CloseStep, CloseCAS, CloseCheck, HeaderCAS, HeaderWrite, TrailerWrite,
      CloseLock, CloseWait
  <2> QED
    BY <2>1, <2>2, <2>3 DEF HalfClose, EosPending, CloseLabels
<1>7. CASE Elsewhere
  <2>1. /\ pc'[Pump] = pc[Pump] /\ UNCHANGED <<cur, req, headersReceived, eosSeen>>
        /\ (srvCtx => srvCtx') /\ closed \subseteq closed' /\ recvClosed \subseteq recvClosed'
        /\ recvClosed' \subseteq recvClosed \cup closed' /\ msgChClosed \subseteq msgChClosed'
    BY <1>7, ElsewhereFrame
  <2>2. \A s \in sawEOF' : msgCh'[s] = <<>> /\ s \in msgChClosed'
    <3>1. CASE UNCHANGED <<msgCh, rcvd, sawEOF>>
      BY <2>1, <3>1 DEF HalfClose
    <3>2. ASSUME NEW s \in Streams, RecvMsg(s) PROVE \A t \in sawEOF' : msgCh'[t] = <<>> /\ t \in msgChClosed'
      BY <2>1, <3>2 DEF RecvMsg, HalfClose, CloseInv, TypeOK, StateType, DataType
    <3> QED
      BY <1>7, <3>1, <3>2, ElsewhereFrame
  <2>3. EosPending' <=> EosPending
    BY <2>1 DEF EosPending
  <2> QED
    BY <2>1, <2>2, <2>3 DEF HalfClose
<1> QED
  BY <1>1, <1>2, <1>3, <1>4, <1>5, <1>6, <1>7 DEF Next, PumpStep, Elsewhere

\* A stream none of whose messages moves stays in order; the pump drops an
\* accepted message only of a stream that is closed or whose context is done.
LEMMA KeepsOrder ==
  ASSUME NEW s \in Streams, InOrder(s), NoGap(s),
         rcvd'[s] = rcvd[s], msgCh'[s] = msgCh[s], nmsg'[s] = nmsg[s],
         CtxDone(s) => CtxDone(s)', s \in closed => s \in closed',
         Pending(s)' => Pending(s), Pending(s) => Pending(s)' \/ s \in closed' \/ CtxDone(s)'
  PROVE  InOrder(s)' /\ NoGap(s)'
<1>1. InOrder(s)'
  BY DEF InOrder
<1>2. NoGap(s)'
  BY DEF NoGap
<1> QED
  BY <1>1, <1>2

\* Messages keep their order through the pump, msgCh and RecvMsg.
LEMMA OrderedStep ==
  ASSUME CallsInv, CloseInv, HeadersFirst, HalfClose, Ordered, [Next]_vars
  PROVE  Ordered'
<1> SUFFICES ASSUME NEW t \in Streams PROVE InOrder(t)' /\ NoGap(t)'
  BY DEF Ordered
<1> USE ServerStreamAssumption DEF Goto, StartClose, streamVars, mapVars, srvVars, connVars, chanVars, recvVars
<1>p. /\ pc \in [Procs -> PumpLabels \cup RunLabels \cup {"none", "ticket", "end"}]
      /\ Pump \in Procs /\ Pump \notin Streams /\ (pc[Pump] # "idle" => cur \in Streams)
      /\ Str(Pump) = cur
  BY DEF CloseInv, TypeOK, ControlType, Procs, Str
<1>o. InOrder(t) /\ NoGap(t)
  BY DEF Ordered
<1>t. /\ rcvd \in [Streams -> Seq(Nat)] /\ msgCh \in [Streams -> Seq(Nat)] /\ nmsg \in [Streams -> Nat]
  BY DEF CloseInv, TypeOK, DataType
<1>1. ASSUME NEW s \in Streams, NEW r \in ClientSends, OnChannelMessage(s, r)
      PROVE  InOrder(t)' /\ NoGap(t)'
  <2>1. /\ UNCHANGED <<headersReceived, srvCtx, chCtx, cancelled, recvClosed, closed, rcvd, msgCh>>
        /\ pc[Pump] = "idle"
    BY <1>1 DEF OnChannelMessage
  <2>2. CtxDone(t)' <=> CtxDone(t)
    BY <2>1 DEF CtxDone, ChCtxDone
  <2>3. ~Pending(t)
    BY <2>1 DEF Pending
  <2>4. CASE UNCHANGED <<pc, cur, req, nmsg>>
    <3>1. ~Pending(t)'
      BY <2>1, <2>4 DEF Pending
    <3> QED
      BY <1>o, <2>1, <2>2, <2>3, <2>4, <3>1, KeepsOrder
  <2>5. CASE ~UNCHANGED <<pc, cur, req, nmsg>>
    <3>1. /\ cur' = s /\ req' = r /\ pc'[Pump] = "dispatch"
          /\ s \in streams \/ r \in Kinds
          /\ nmsg' = IF r \in {"msg", "msgEos"} /\ s \notin eosSeen
                     THEN [nmsg EXCEPT ![s] = @ + 1] ELSE nmsg
      BY <1>1, <1>p, <2>5 DEF OnChannelMessage
    <3>2. CASE t = s /\ r \in {"msg", "msgEos"} /\ s \notin eosSeen
      <4>1. nmsg'[t] = nmsg[t] + 1
        BY <1>t, <3>1, <3>2
      <4>2. InOrder(t)'
        BY <1>o, <1>t, <2>1, <4>1 DEF InOrder
      <4>3. NoGap(t)'
        <5>1. CASE CtxDone(t)
          BY <2>2, <5>1 DEF NoGap
        <5>2. CASE ~CtxDone(t) /\ Pending(t)'
          <6>1. t \notin closed
            BY <3>1, <5>2, <2>1 DEF Pending, CloseInv, FlagOrder
          <6> QED
            BY <1>o, <1>t, <2>1, <2>2, <2>3, <4>1, <5>2, <6>1 DEF NoGap
        <5>3. CASE ~CtxDone(t) /\ ~Pending(t)'
          <6>1. t \in headersReceived
            BY <2>1, <3>1, <3>2, <5>3 DEF HeadersFirst, CtxDone, ChCtxDone, Kinds
          <6>2. t \in closed
            BY <2>1, <3>1, <3>2, <5>3, <6>1 DEF Pending, HalfClose
          <6> QED
            BY <1>o, <2>1, <2>2, <5>3, <6>2 DEF NoGap
        <5> QED
          BY <5>1, <5>2, <5>3
      <4> QED
        BY <4>2, <4>3
    <3>3. CASE ~(t = s /\ r \in {"msg", "msgEos"} /\ s \notin eosSeen)
      <4>1. nmsg'[t] = nmsg[t]
        BY <1>t, <3>1, <3>3
      <4>2. ~Pending(t)'
        BY <2>1, <3>1, <3>3 DEF Pending, HalfClose, EosPending
      <4> QED
        BY <1>o, <2>1, <2>2, <2>3, <4>1, <4>2, KeepsOrder
    <3> QED
      BY <3>2, <3>3
  <2> QED
    BY <2>4, <2>5
<1>2. CASE \/ OnHeaders \/ HeadersAdd \/ HeadersCheck \/ OnReset \/ TakeTicket \/ MessageEos
           \/ NilPacketClose \/ CloseStep(Pump)
  <2>1. /\ UNCHANGED <<srvCtx, chCtx, cur, req, nmsg, rcvd, msgCh>> /\ cancelled \subseteq cancelled'
        /\ closed \subseteq closed'
    BY <1>2 DEF OnHeaders, HeadersAdd, HeadersCheck, OnReset, TakeTicket, MessageEos, NilPacketClose,
      CloseStep, CloseCAS, CloseCheck, HeaderCAS, HeaderWrite, TrailerWrite, CloseLock, CloseWait
  <2>2. CtxDone(t) => CtxDone(t)'
    BY <2>1 DEF CtxDone, ChCtxDone
  <2>3. pc[Pump] \notin {"pmLock", "pmSend"} /\ (pc[Pump] = "dispatch" => req \notin {"msg", "msgEos"})
    BY <1>2 DEF OnHeaders, HeadersAdd, HeadersCheck, OnReset, TakeTicket, MessageEos, NilPacketClose, Kinds,
      CloseStep, CloseCAS, CloseCheck, HeaderCAS, HeaderWrite, TrailerWrite, CloseLock, CloseWait
  <2>4. pc'[Pump] \notin {"pmLock", "pmSend", "dispatch"}
    <3>1. CASE OnHeaders \/ HeadersAdd \/ HeadersCheck \/ OnReset \/ TakeTicket \/ MessageEos \/ NilPacketClose
      BY <1>p, <3>1 DEF OnHeaders, HeadersAdd, HeadersCheck, OnReset, TakeTicket, MessageEos, NilPacketClose, Procs
    <3>2. CASE CloseStep(Pump)
      BY <1>p, <3>2 DEF AfterClose,
        CloseStep, CloseCAS, CloseCheck, HeaderCAS, HeaderWrite, TrailerWrite, CloseLock, CloseWait
    <3> QED
      BY <1>2, <3>1, <3>2
  <2>5. ~Pending(t) /\ ~Pending(t)'
    BY <2>3, <2>4 DEF Pending
  <2> QED
    BY <1>o, <2>1, <2>2, <2>5, KeepsOrder
<1>3. CASE OnMessage
  <2>1. /\ UNCHANGED <<headersReceived, srvCtx, chCtx, cancelled, cur, req, nmsg, rcvd, msgCh>>
        /\ closed \subseteq closed' /\ pc[Pump] = "dispatch" /\ req \in {"msg", "msgEos", "eos", "nilPacket"}
    BY <1>3 DEF OnMessage
  <2>2. CtxDone(t)' <=> CtxDone(t)
    BY <2>1 DEF CtxDone, ChCtxDone
  <2>3. \/ pc'[Pump] \in {"close", "idle", "nilWait", "pmEos"}
           /\ (cur \notin headersReceived \/ cur \in recvClosed \/ req \in {"eos", "nilPacket"})
        \/ pc'[Pump] = "pmLock" /\ cur \in headersReceived /\ cur \notin recvClosed /\ req \in {"msg", "msgEos"}
    BY <1>3, <1>p DEF OnMessage
  <2>4. Pending(t)' <=> Pending(t)
    BY <2>1, <2>3 DEF Pending
  <2> QED
    BY <1>o, <2>1, <2>2, <2>4, KeepsOrder
<1>4. CASE MessageLock
  <2>1. /\ UNCHANGED <<srvCtx, chCtx, cancelled, closed, recvClosed, cur, req, nmsg, rcvd, msgCh>>
        /\ pc[Pump] = "pmLock" /\ pc'[Pump] = IF cur \in recvClosed THEN "idle" ELSE "pmSend"
    BY <1>4, <1>p DEF MessageLock
  <2>2. CtxDone(t)' <=> CtxDone(t)
    BY <2>1 DEF CtxDone, ChCtxDone
  <2>3. Pending(t)' => Pending(t)
    BY <2>1 DEF Pending
  <2>4. Pending(t) => Pending(t)' \/ t \in closed
    BY <2>1 DEF Pending, HalfClose
  <2> QED
    BY <1>o, <2>1, <2>2, <2>3, <2>4, KeepsOrder
<1>5. CASE MessageSend
  <2>1. /\ UNCHANGED <<srvCtx, chCtx, cancelled, closed, recvClosed, cur, req, nmsg, rcvd>>
        /\ pc[Pump] = "pmSend" /\ pc'[Pump] \in {"pmEos", "idle"} /\ cur \notin msgChClosed
    BY <1>5, <1>p DEF MessageSend, CloseInv, FlagOrder
  <2>2. CtxDone(t)' <=> CtxDone(t)
    BY <2>1 DEF CtxDone, ChCtxDone
  <2>3. ~Pending(t)' /\ (Pending(t) <=> cur = t)
    BY <2>1 DEF Pending
  <2>4. CASE msgCh' = msgCh /\ CtxDone(cur)
    BY <1>o, <2>1, <2>2, <2>3, <2>4, KeepsOrder
  <2>5. CASE msgCh[cur] = <<>> /\ msgCh' = [msgCh EXCEPT ![cur] = <<nmsg[cur]>>]
    <3>1. CASE t = cur
      <4>1. msgCh'[t] = <<nmsg[t]>> /\ msgCh[t] = <<>> /\ Len(msgCh'[t]) = 1 /\ msgCh'[t][1] = nmsg[t]
        BY <1>t, <2>5, <3>1
      <4>2. Len(msgCh[t]) = 0 /\ Len(rcvd[t]) \in Nat /\ Pending(t)
        BY <1>t, <2>3, <3>1, <4>1
      <4>3. InOrder(t)'
        BY <1>o, <1>t, <2>1, <2>3, <4>1, <4>2 DEF InOrder
      <4>4. NoGap(t)'
        BY <1>o, <1>t, <2>1, <2>2, <2>3, <4>1, <4>2 DEF NoGap
      <4> QED
        BY <4>3, <4>4
    <3>2. CASE t # cur
      <4>1. msgCh'[t] = msgCh[t]
        BY <1>t, <2>5, <3>2
      <4> QED
        BY <1>o, <2>1, <2>2, <2>3, <3>2, <4>1, KeepsOrder
    <3> QED
      BY <3>1, <3>2
  <2> QED
    BY <1>5, <2>1, <2>4, <2>5 DEF MessageSend
<1>6. CASE Elsewhere
  <2>1. /\ pc'[Pump] = pc[Pump] /\ UNCHANGED <<cur, req, headersReceived, nmsg>>
        /\ (srvCtx => srvCtx') /\ (chCtx => chCtx') /\ cancelled \subseteq cancelled'
        /\ closed \subseteq closed' /\ recvClosed \subseteq recvClosed' /\ recvClosed' \subseteq recvClosed \cup closed'
    BY <1>6, ElsewhereFrame
  <2>2. CtxDone(t) => CtxDone(t)'
    BY <2>1 DEF CtxDone, ChCtxDone
  <2>3. (Pending(t)' => Pending(t)) /\ (Pending(t) => Pending(t)' \/ t \in closed')
    BY <2>1 DEF Pending
  <2>4. CASE UNCHANGED <<msgCh, rcvd>>
    BY <1>o, <2>1, <2>2, <2>3, <2>4, KeepsOrder
  <2>5. ASSUME NEW s \in Streams, RecvMsg(s), ~UNCHANGED <<msgCh, rcvd>> PROVE InOrder(t)' /\ NoGap(t)'
    <3>1. /\ msgCh[s] # <<>> /\ rcvd' = [rcvd EXCEPT ![s] = Append(@, Head(msgCh[s]))]
          /\ msgCh' = [msgCh EXCEPT ![s] = <<>>]
      BY <2>5 DEF RecvMsg
    <3>2. CASE s # t
      BY <1>o, <1>t, <2>1, <2>2, <2>3, <3>1, <3>2, KeepsOrder
    <3>3. CASE s = t
      <4>1. /\ rcvd'[t] = Append(rcvd[t], msgCh[t][1]) /\ msgCh'[t] = <<>> /\ msgCh[t] # <<>>
            /\ rcvd[t] \in Seq(Nat) /\ msgCh[t] \in Seq(Nat) /\ Len(msgCh[t]) = 1 /\ Len(msgCh'[t]) = 0
        BY <1>o, <1>t, <3>1, <3>3 DEF InOrder
      <4>2. /\ DOMAIN rcvd[t] = 1 .. Len(rcvd[t]) /\ DOMAIN rcvd'[t] = 1 .. (Len(rcvd[t]) + 1)
            /\ Len(rcvd[t]) \in Nat /\ Len(rcvd'[t]) = Len(rcvd[t]) + 1
            /\ rcvd'[t][Len(rcvd[t]) + 1] = msgCh[t][1]
            /\ \A i \in DOMAIN rcvd[t] : rcvd'[t][i] = rcvd[t][i]
        BY <4>1
      <4>3. InOrder(t)'
        <5>1. nmsg[t] \in Nat /\ msgCh[t][1] \in Nat /\ \A i \in DOMAIN rcvd[t] : rcvd[t][i] \in Nat
          BY <1>t, <4>1
        <5>2. \A i, j \in DOMAIN rcvd'[t] : i < j => rcvd'[t][i] < rcvd'[t][j]
          <6> SUFFICES ASSUME NEW i \in DOMAIN rcvd'[t], NEW j \in DOMAIN rcvd'[t], i < j
                       PROVE  rcvd'[t][i] < rcvd'[t][j]
            OBVIOUS
          <6>1. i \in DOMAIN rcvd[t] /\ (j \in DOMAIN rcvd[t] \/ j = Len(rcvd[t]) + 1)
            BY <4>2
          <6> QED
            BY <1>o, <4>1, <4>2, <6>1 DEF InOrder
        <5>3. \A i \in DOMAIN rcvd'[t] : rcvd'[t][i] <= nmsg'[t]
          BY <1>o, <2>1, <4>1, <4>2, <5>1 DEF InOrder
        <5>4. Pending(t)' => \A i \in DOMAIN rcvd'[t] : rcvd'[t][i] < nmsg'[t]
          BY <1>o, <2>1, <2>3, <4>1, <4>2, <5>1 DEF InOrder
        <5> QED
          BY <4>1, <5>2, <5>3, <5>4 DEF InOrder
      <4>4. NoGap(t)'
        BY <1>o, <1>t, <2>1, <2>2, <2>3, <4>1, <4>2 DEF NoGap
      <4> QED
        BY <4>3, <4>4
    <3> QED
      BY <3>2, <3>3
  <2> QED
    BY <1>6, <2>4, <2>5, ElsewhereFrame
<1> QED
  BY <1>1, <1>2, <1>3, <1>4, <1>5, <1>6 DEF Next, PumpStep, Elsewhere

\* Nothing is received, sent or half-closed initially.
LEMMA InitRecv == Init => RecvInv
<1> SUFFICES ASSUME Init PROVE RecvInv
  OBVIOUS
<1>1. HeadersFirst /\ HalfClose /\ pc[Pump] = "idle"
  BY ServerStreamAssumption DEF Init, HeadersFirst, HalfClose, EosPending, Procs
<1>2. ASSUME NEW s \in Streams PROVE InOrder(s) /\ NoGap(s)
  <2>1. rcvd[s] = <<>> /\ msgCh[s] = <<>> /\ nmsg[s] = 0 /\ ~Pending(s) /\ DOMAIN rcvd[s] = {} /\ Len(<<>>) = 0
    BY <1>1 DEF Init, Pending
  <2> QED
    BY <2>1 DEF InOrder, NoGap
<1> QED
  BY <1>1, <1>2 DEF RecvInv, Ordered

\* The invariant of the receiving side.
THEOREM RecvInvariant == Spec => []RecvInv
<1>1. CallsInv /\ CloseInv /\ RecvInv /\ [Next]_vars => RecvInv'
  BY HeadersFirstStep, HalfCloseStep, OrderedStep DEF RecvInv
<1> QED
  BY <1>1, InitRecv, CallsInvariant, CloseInvariant, PTL DEF Spec

\* RecvMsg returns the client's messages in order: all of them while the
\* stream's context is live, and io.EOF after a half-close only after the last.
THEOREM ReceivesEverything == Spec => [](ReceivesInOrder /\ EOFAfterLast)
<1>1. CloseInv /\ RecvInv => ReceivesInOrder
  BY DEF RecvInv, Ordered, InOrder, NoGap, ReceivesInOrder
<1>2. CloseInv /\ RecvInv => EOFAfterLast
  <2> SUFFICES ASSUME CloseInv, RecvInv, NEW s \in sawEOF, ~CtxDone(s), s \notin closed
               PROVE  Len(rcvd[s]) = nmsg[s]
    BY DEF EOFAfterLast
  <2>1. s \in Streams /\ msgCh[s] = <<>> /\ s \in msgChClosed /\ s \in recvClosed
    BY DEF CloseInv, TypeOK, StateType, FlagOrder, RecvInv, HalfClose
  <2>2. ~Pending(s)
    BY <2>1 DEF Pending, CloseInv, FlagOrder, RecvInv, HalfClose
  <2>3. Len(msgCh[s]) = 0 /\ Len(rcvd[s]) \in Nat
    BY <2>1 DEF CloseInv, TypeOK, DataType
  <2>4. nmsg[s] = Len(rcvd[s]) + Len(msgCh[s])
    BY <2>1, <2>2 DEF RecvInv, Ordered, NoGap
  <2> QED
    BY <2>3, <2>4
<1> QED
  BY <1>1, <1>2, CloseInvariant, RecvInvariant, PTL

----------------------------------------------------------------------------
(* Headers, messages and trailers on the wire. *)

HeaderLabels  == {"closeHdrW", "sendHdrW", "onlyHdrW"}
TrailerLabels == {"closeChk", "closeHdr", "closeHdrW", "closeTrl"}

\* x is not on the wire w; x is there at most once; v is w with x appended.
Absent(w, x) == \A i \in DOMAIN w : w[i] # x
Once(w, x)   == \A i, j \in DOMAIN w : w[i] = x /\ w[j] = x => i = j
Extends(w, v, x) ==
  /\ Len(w) \in Nat /\ DOMAIN w = 1 .. Len(w)
  /\ Len(v) = Len(w) + 1 /\ DOMAIN v = 1 .. (Len(w) + 1)
  /\ v[Len(w) + 1] = x /\ \A i \in DOMAIN w : v[i] = w[i]

\* The compare-and-swap on headersWritten lets one goroutine write the headers.
OneHeader ==
  /\ \A s \in Streams : s \notin headersWritten => Absent(wire[s], "H")
  /\ \A p \in Procs : pc[p] \in HeaderLabels =>
       Str(p) \in headersWritten /\ Absent(wire[Str(p)], "H")
  /\ \A p, q \in Procs : pc[p] \in HeaderLabels /\ pc[q] \in HeaderLabels /\ Str(p) = Str(q) => p = q
  /\ \A s \in Streams : Once(wire[s], "H")

\* The compare-and-swap on sendClosed lets one goroutine write the trailers.
OneTrailer ==
  /\ \A s \in Streams : s \notin sendClosed => Absent(wire[s], "T")
  /\ \A p \in Procs : pc[p] \in TrailerLabels =>
       Str(p) \in sendClosed /\ Absent(wire[Str(p)], "T")
  /\ \A p, q \in Procs : pc[p] \in TrailerLabels /\ pc[q] \in TrailerLabels /\ Str(p) = Str(q) => p = q
  /\ \A s \in Streams : Once(wire[s], "T")

\* On a stream the pump does not close only the handler writes: its headers
\* first, unless their write failed and so will every later one, and nothing
\* after its trailers.
HandlerWrites ==
  /\ pc[Pump] \in CloseLabels \ {"close"} => cur \in pumpClosed
  /\ \A s \in Streams \ pumpClosed :
       /\ \A i \in DOMAIN wire[s] : wire[s][i] = "H" <=> i = 1
       /\ \A i \in DOMAIN wire[s] : wire[s][i] = "T" =>
            i = Len(wire[s]) /\ pc[s] \in {"closeLock", "closeWait", "done", "ticket", "end"}
       /\ pc[s] \in {"sendLock", "sendMsg", "closeTrl"} => s \in headersWritten
       /\ s \in headersWritten /\ pc[s] \notin HeaderLabels =>
            wire[s] # <<>> \/ ChCtxDone \/ ~link

WireInv == OneHeader /\ OneTrailer /\ HandlerWrites

\* The labels of a handler that has nothing more to write.
EndLabels == {"closeLock", "closeWait", "done", "ticket", "end"}

\* What is not on the wire is still not there when something else is written.
LEMMA ExtendAbsent ==
  ASSUME NEW w, NEW v, NEW x, NEW y, Extends(w, v, x), Absent(w, y), x # y
  PROVE  Absent(v, y)
  BY DEF Extends, Absent

\* What is on the wire at most once still is when something else is written, or
\* when it is written for the first time.
LEMMA ExtendOnce ==
  ASSUME NEW w, NEW v, NEW x, NEW y, Extends(w, v, x), Once(w, y), x = y => Absent(w, y)
  PROVE  Once(v, y)
  BY DEF Extends, Absent, Once

\* What a write leaves on the wire: nothing when the channel is down, which it
\* then stays, or one more response of one stream.
LEMMA PutEffect ==
  ASSUME TypeOK, NEW s \in Streams, NEW x \in {"H", "M", "T"}, NEW r \in WriteResults, Put(s, r, x)
  PROVE  \/ wire' = wire /\ r # "ok" /\ (ChCtxDone \/ ~link)
         \/ /\ r = "ok" /\ Extends(wire[s], wire'[s], x)
            /\ \A t \in Streams \ {s} : wire'[t] = wire[t]
<1>1. wire \in [Streams -> Seq({"H", "M", "T"})] /\ wire[s] \in Seq({"H", "M", "T"})
  BY DEF TypeOK, DataType
<1>2. CASE r = "ok"
  <2>1. wire'[s] = Append(wire[s], x) /\ \A t \in Streams \ {s} : wire'[t] = wire[t]
    BY <1>1, <1>2 DEF Put
  <2> QED
    BY <1>1, <1>2, <2>1 DEF Extends
<1>3. CASE r # "ok"
  BY <1>3 DEF Put, WriteResults
<1> QED
  BY <1>2, <1>3

\* A step that writes nothing and enters no label from which headers or
\* trailers are still to be written keeps the invariant of the wire.
LEMMA WireKeeps ==
  ASSUME CloseInv, WireInv, NEW p \in Procs, NEW l,
         pc' = [pc EXCEPT ![p] = l], pc[p] \notin HeaderLabels \cup {"none"}, l \notin HeaderLabels,
         l \in TrailerLabels => pc[p] \in TrailerLabels,
         p = Pump /\ l \in CloseLabels \ {"close"} => pc[p] \in CloseLabels \ {"close"},
         p # Pump /\ pc[p] \in EndLabels => l \in EndLabels,
         p # Pump /\ l \in {"sendLock", "sendMsg", "closeTrl"} =>
           p \in headersWritten \/ pc[p] \in {"sendLock", "sendMsg", "closeTrl"},
         cur' = cur \/ (p = Pump /\ pc[p] = "idle" /\ l = "dispatch"),
         UNCHANGED <<wire, headersWritten, sendClosed, pumpClosed, srvCtx, chCtx, link>>
  PROVE  WireInv'
<1> USE ServerStreamAssumption
<1>p. pc \in [Procs -> PumpLabels \cup RunLabels \cup {"none", "ticket", "end"}]
  BY DEF CloseInv, TypeOK, ControlType
<1>1. pc'[p] = l /\ \A q \in Procs \ {p} : pc'[q] = pc[q]
  BY <1>p
<1>2. \A q \in Procs : Str(q)' = Str(q) \/ (q = Pump /\ pc[q] = "idle" /\ pc'[q] = "dispatch")
  BY <1>1 DEF Str
<1>3. OneHeader'
  BY <1>1, <1>2 DEF WireInv, OneHeader, HeaderLabels
<1>4. OneTrailer'
  BY <1>1, <1>2 DEF WireInv, OneTrailer, TrailerLabels
<1>5. HandlerWrites'
  <2>1. pc'[Pump] \in CloseLabels \ {"close"} => cur' \in pumpClosed'
    BY <1>1 DEF WireInv, HandlerWrites, CloseLabels, Procs
  <2>2. ASSUME NEW s \in Streams \ pumpClosed
        PROVE  /\ \A i \in DOMAIN wire[s] : wire[s][i] = "T" => i = Len(wire[s]) /\ pc'[s] \in EndLabels
               /\ pc'[s] \in {"sendLock", "sendMsg", "closeTrl"} => s \in headersWritten
               /\ s \in headersWritten /\ pc'[s] \notin HeaderLabels => wire[s] # <<>> \/ ChCtxDone \/ ~link
    BY <1>1, <2>2 DEF WireInv, HandlerWrites, Procs, EndLabels
  <2>3. ChCtxDone' <=> ChCtxDone
    BY DEF ChCtxDone
  <2> QED
    BY <2>1, <2>2, <2>3 DEF WireInv, HandlerWrites, EndLabels
<1> QED
  BY <1>3, <1>4, <1>5 DEF WireInv

\* The writes of closeWithSendError and writeHeaders, by pump or handler.
LEMMA CloseWire ==
  ASSUME CallsInv, CloseInv, WireInv, NEW p \in Procs, CloseStep(p)
  PROVE  WireInv'
<1> USE ServerStreamAssumption DEF Goto, StartClose, streamVars, srvVars, connVars, sendVars
<1>p. /\ pc \in [Procs -> PumpLabels \cup RunLabels \cup {"none", "ticket", "end"}]
      /\ pc[p] \in CloseLabels \cup SendLabels \cup HdrLabels /\ Str(p) \in Streams
      /\ UNCHANGED <<cur, srvCtx, chCtx, link>> /\ Pump \notin Streams /\ Pump \in Procs
  <2>1. /\ pc[p] \in CloseLabels \cup SendLabels \cup HdrLabels
        /\ UNCHANGED <<cur, srvCtx, chCtx, link>>
    BY DEF CloseStep, CloseCAS, CloseCheck, HeaderCAS, HeaderWrite, TrailerWrite, CloseLock, CloseWait,
      CloseLabels, SendLabels, HdrLabels
  <2>2. Str(p) \in Streams
    BY <2>1, StrType DEF CloseInv, CloseLabels, SendLabels, HdrLabels
  <2> QED
    BY <2>1, <2>2 DEF CloseInv, TypeOK, ControlType, Procs
<1>s. /\ \A q \in Procs : Str(q)' = Str(q)
      /\ Str(Pump) = cur /\ (p # Pump => Str(p) = p) /\ (ChCtxDone' <=> ChCtxDone)
  BY <1>p DEF Str, ChCtxDone
<1>q. \A q \in Procs : pc[q] # "idle" => Str(q) \in Streams
  BY StrType DEF CloseInv
<1>h. p = Pump => pc[p] \in CloseLabels
  BY <1>p DEF CloseInv, TypeOK, ControlType, PumpLabels, CloseLabels, SendLabels, HdrLabels
<1>1. CASE CloseCheck(p) \/ CloseLock(p) \/ CloseWait(p)
  <2>1. UNCHANGED <<wire, headersWritten, sendClosed, pumpClosed>>
    BY <1>1 DEF CloseCheck, CloseLock, CloseWait
  <2>2. \/ pc[p] = "closeChk" /\ (pc' = [pc EXCEPT ![p] = "closeLock"] \/ pc' = [pc EXCEPT ![p] = "closeHdr"])
        \/ /\ pc[p] \in {"closeLock", "closeWait"}
           /\ pc' = [pc EXCEPT ![p] = "closeWait"] \/ pc' = [pc EXCEPT ![p] = AfterClose(p)]
    BY <1>1 DEF CloseCheck, CloseLock, CloseWait
  <2>3. PICK l \in {"closeLock", "closeHdr", "closeWait", AfterClose(p)} :
          /\ pc' = [pc EXCEPT ![p] = l]
          /\ \/ pc[p] = "closeChk" /\ l \in {"closeLock", "closeHdr"}
             \/ pc[p] \in {"closeLock", "closeWait"} /\ l \in {"closeWait", AfterClose(p)}
    BY <2>2
  <2>4. AfterClose(p) = IF p = Pump THEN "idle" ELSE "done"
    BY DEF AfterClose
  <2> QED
    BY <1>p, <2>1, <2>3, <2>4, WireKeeps DEF HeaderLabels, TrailerLabels, EndLabels, CloseLabels
<1>2. CASE CloseCAS(p) /\ Str(p) \in sendClosed
  <2>1. /\ pc' = [pc EXCEPT ![p] = AfterClose(p)] /\ pc[p] = "close"
        /\ UNCHANGED <<wire, headersWritten, sendClosed, pumpClosed>>
    BY <1>2 DEF CloseCAS
  <2>2. AfterClose(p) = IF p = Pump THEN "idle" ELSE "done"
    BY DEF AfterClose
  <2> QED
    BY <1>p, <2>1, <2>2, WireKeeps DEF HeaderLabels, TrailerLabels, EndLabels, CloseLabels
<1>3. CASE CloseCAS(p) /\ Str(p) \notin sendClosed
  <2>1. /\ pc[p] = "close" /\ sendClosed' = sendClosed \cup {Str(p)}
        /\ pumpClosed' = IF p = Pump THEN pumpClosed \cup {cur} ELSE pumpClosed
        /\ UNCHANGED <<wire, headersWritten>>
    BY <1>3 DEF CloseCAS
  <2>2. pc'[p] \in {"closeLock", "closeChk"} /\ \A q \in Procs \ {p} : pc'[q] = pc[q]
    BY <1>3, <1>p DEF CloseCAS
  <2>3. OneHeader'
    BY <1>p, <1>s, <2>1, <2>2 DEF WireInv, OneHeader, HeaderLabels
  <2>4. OneTrailer'
    BY <1>3, <1>p, <1>s, <2>1, <2>2 DEF WireInv, OneTrailer, TrailerLabels
  <2>5. HandlerWrites'
    BY <1>3, <1>p, <1>s, <2>1, <2>2
    DEF WireInv, HandlerWrites, OneTrailer, Absent, HeaderLabels, CloseLabels, Procs
  <2> QED
    BY <2>3, <2>4, <2>5 DEF WireInv
<1>4. CASE HeaderCAS(p) /\ Str(p) \in headersWritten
  <2>1. UNCHANGED <<wire, headersWritten, sendClosed, pumpClosed>>
    BY <1>4 DEF HeaderCAS
  <2>2. PICK l \in {"closeTrl", "sendLock", "run"} :
          /\ pc' = [pc EXCEPT ![p] = l]
          /\ \/ pc[p] = "closeHdr" /\ l = "closeTrl"
             \/ pc[p] \in {"sendHdr", "onlyHdr"} /\ l # "closeTrl"
    BY <1>4 DEF HeaderCAS
  <2> QED
    BY <1>4, <1>p, <1>s, <1>h, <2>1, <2>2, WireKeeps
    DEF HeaderLabels, TrailerLabels, EndLabels, CloseLabels
<1>5. CASE HeaderCAS(p) /\ Str(p) \notin headersWritten
  <2>1. headersWritten' = headersWritten \cup {Str(p)} /\ UNCHANGED <<wire, sendClosed, pumpClosed>>
    BY <1>5 DEF HeaderCAS
  <2>2. /\ \A q \in Procs \ {p} : pc'[q] = pc[q]
        /\ \/ pc[p] = "closeHdr" /\ pc'[p] = "closeHdrW"
           \/ pc[p] \in {"sendHdr", "onlyHdr"} /\ pc'[p] \in {"sendHdrW", "onlyHdrW"}
    BY <1>5, <1>p DEF HeaderCAS
  <2>3. OneHeader'
    BY <1>5, <1>p, <1>s, <2>1, <2>2 DEF WireInv, OneHeader, HeaderLabels
  <2>4. OneTrailer'
    BY <1>p, <1>s, <2>1, <2>2 DEF WireInv, OneTrailer, TrailerLabels
  <2>5. HandlerWrites'
    BY <1>p, <1>s, <1>h, <2>1, <2>2 DEF WireInv, HandlerWrites, HeaderLabels, CloseLabels, Procs
  <2> QED
    BY <2>3, <2>4, <2>5 DEF WireInv
<1>6. CASE HeaderWrite(p)
  <2>1. PICK r \in WriteResults :
          /\ Put(Str(p), r, "H")
          /\ CASE pc[p] = "closeHdrW" -> Goto(p, IF r = "ok" THEN "closeTrl" ELSE "closeLock")
               [] pc[p] = "sendHdrW" /\ r = "ok" -> Goto(p, "sendLock")
               [] pc[p] = "sendHdrW" /\ r # "ok" -> Goto(p, "close")
               [] OTHER -> Goto(p, "run")
    BY <1>6 DEF HeaderWrite
  <2>2. pc[p] \in HeaderLabels /\ UNCHANGED <<headersWritten, sendClosed, pumpClosed>>
    BY <1>6 DEF HeaderWrite, HeaderLabels
  <2>3. /\ \A q \in Procs \ {p} : pc'[q] = pc[q]
        /\ \/ pc[p] = "closeHdrW" /\ pc'[p] = (IF r = "ok" THEN "closeTrl" ELSE "closeLock")
           \/ pc[p] \in {"sendHdrW", "onlyHdrW"} /\ pc'[p] \in {"sendLock", "close", "run"}
    BY <1>p, <2>1, <2>2 DEF HeaderLabels
  <2>4. \/ wire' = wire /\ r # "ok" /\ (ChCtxDone \/ ~link)
        \/ /\ r = "ok" /\ Extends(wire[Str(p)], wire'[Str(p)], "H")
           /\ \A t \in Streams \ {Str(p)} : wire'[t] = wire[t]
    BY <1>p, <2>1, PutEffect DEF CloseInv
  <2>5. OneHeader'
    <3>1. \A s \in Streams : Once(wire'[s], "H")
      BY <1>p, <2>2, <2>4, ExtendOnce DEF WireInv, OneHeader
    <3>2. \A q \in Procs : pc'[q] \in HeaderLabels => pc[q] \in HeaderLabels /\ wire'[Str(q)] = wire[Str(q)]
      BY <1>p, <1>q, <2>2, <2>3, <2>4 DEF WireInv, OneHeader, HeaderLabels
    <3>3. \A s \in Streams : s \notin headersWritten => wire'[s] = wire[s]
      BY <1>p, <2>2, <2>4 DEF WireInv, OneHeader
    <3> QED
      BY <1>s, <2>2, <3>1, <3>2, <3>3 DEF WireInv, OneHeader
  <2>6. OneTrailer'
    <3>1. \A s \in Streams : Once(wire'[s], "T")
      BY <1>p, <2>2, <2>4, ExtendOnce DEF WireInv, OneTrailer
    <3>2. \A s \in Streams : Absent(wire[s], "T") => Absent(wire'[s], "T")
      BY <1>p, <2>4, ExtendAbsent
    <3>3. \A q \in Procs : pc'[q] \in TrailerLabels => pc[q] \in TrailerLabels /\ Str(q) \in Streams
      BY <1>p, <1>q, <2>2, <2>3 DEF TrailerLabels
    <3> QED
      BY <1>s, <2>2, <3>1, <3>2, <3>3 DEF WireInv, OneTrailer
  <2>7. HandlerWrites'
    BY <1>p, <1>s, <1>h, <2>2, <2>3, <2>4
    DEF WireInv, OneHeader, HandlerWrites, HeaderLabels, CloseLabels, Procs, Absent, Extends
  <2> QED
    BY <2>5, <2>6, <2>7 DEF WireInv
<1>7. CASE TrailerWrite(p)
  <2>1. PICK r \in WriteResults : Put(Str(p), r, "T")
    BY <1>7 DEF TrailerWrite
  <2>2. pc[p] = "closeTrl" /\ UNCHANGED <<headersWritten, sendClosed, pumpClosed>>
    BY <1>7 DEF TrailerWrite
  <2>3. pc'[p] = "closeLock" /\ \A q \in Procs \ {p} : pc'[q] = pc[q]
    BY <1>7, <1>p DEF TrailerWrite
  <2>4. \/ wire' = wire
        \/ /\ Extends(wire[Str(p)], wire'[Str(p)], "T") /\ ~ChCtxDone /\ link
           /\ \A t \in Streams \ {Str(p)} : wire'[t] = wire[t]
    BY <1>p, <2>1, PutEffect DEF CloseInv, WriteResults
  <2>5. OneHeader'
    <3>1. \A s \in Streams : Once(wire'[s], "H")
      BY <1>p, <2>4, ExtendOnce DEF WireInv, OneHeader
    <3>2. \A s \in Streams : Absent(wire[s], "H") => Absent(wire'[s], "H")
      BY <1>p, <2>4, ExtendAbsent
    <3>3. \A q \in Procs : pc'[q] \in HeaderLabels => pc[q] \in HeaderLabels /\ Str(q) \in Streams
      BY <1>p, <1>q, <2>3 DEF HeaderLabels
    <3> QED
      BY <1>s, <2>2, <3>1, <3>2, <3>3 DEF WireInv, OneHeader
  <2>6. OneTrailer'
    <3>1. \A s \in Streams : Once(wire'[s], "T")
      BY <1>p, <2>2, <2>4, ExtendOnce DEF WireInv, OneTrailer, TrailerLabels
    <3>2. \A q \in Procs : pc'[q] \in TrailerLabels => pc[q] \in TrailerLabels /\ wire'[Str(q)] = wire[Str(q)]
      BY <1>p, <1>q, <2>2, <2>3, <2>4 DEF WireInv, OneTrailer, TrailerLabels
    <3>3. \A s \in Streams : s \notin sendClosed => wire'[s] = wire[s]
      BY <1>p, <2>2, <2>4 DEF WireInv, OneTrailer, TrailerLabels
    <3> QED
      BY <1>s, <2>2, <3>1, <3>2, <3>3 DEF WireInv, OneTrailer
  <2>7. HandlerWrites'
    <3>1. Absent(wire[Str(p)], "T")
      BY <1>p, <2>2 DEF WireInv, OneTrailer, TrailerLabels
    <3> QED
      BY <1>p, <1>s, <1>h, <2>2, <2>3, <2>4, <3>1
      DEF WireInv, HandlerWrites, HeaderLabels, CloseLabels, Procs, Absent, Extends
  <2> QED
    BY <2>5, <2>6, <2>7 DEF WireInv
<1> QED
  BY <1>1, <1>2, <1>3, <1>4, <1>5, <1>6, <1>7 DEF CloseStep

\* Every step keeps the invariant of the wire.
LEMMA NextWire ==
  ASSUME CallsInv, CloseInv, WireInv, [Next]_vars
  PROVE  WireInv'
<1> USE ServerStreamAssumption DEF Goto, StartClose, streamVars, srvVars, connVars, sendVars, procVars
<1>p. /\ pc \in [Procs -> PumpLabels \cup RunLabels \cup {"none", "ticket", "end"}]
      /\ Pump \notin Streams /\ Pump \in Procs /\ Str(Pump) = cur
  BY DEF CloseInv, TypeOK, ControlType, Procs, Str
<1>q. \A q \in Procs : pc[q] # "idle" => Str(q) \in Streams
  BY StrType DEF CloseInv
<1>1. ASSUME NEW s \in Streams, NEW r \in ClientSends, OnChannelMessage(s, r)
      PROVE  WireInv'
  <2>1. /\ UNCHANGED <<wire, headersWritten, sendClosed, pumpClosed, srvCtx, chCtx, link>>
        /\ pc[Pump] = "idle"
    BY <1>1 DEF OnChannelMessage
  <2>2. PICK l \in {"idle", "dispatch"} : pc' = [pc EXCEPT ![Pump] = l] /\ (l = "dispatch" \/ cur' = cur)
    BY <1>1, <1>p, <2>1 DEF OnChannelMessage
  <2> QED
    BY <1>p, <2>1, <2>2, WireKeeps DEF HeaderLabels, TrailerLabels, CloseLabels
<1>2. CASE \/ OnHeaders \/ HeadersAdd \/ HeadersCheck \/ OnReset
           \/ OnMessage \/ MessageLock \/ MessageSend \/ MessageEos \/ NilPacketClose
  <2>1. UNCHANGED <<cur, wire, headersWritten, sendClosed, pumpClosed, srvCtx, chCtx, link>>
    BY <1>2 DEF OnHeaders, HeadersAdd, HeadersCheck, OnReset, OnMessage, MessageLock, MessageSend,
      MessageEos, NilPacketClose
  <2>2. PICK l \in {"idle", "close", "phAdd", "phCheck", "phTicket", "nilWait", "nilErr", "pmLock", "pmSend", "pmEos"} :
          pc' = [pc EXCEPT ![Pump] = l]
    BY <1>2 DEF OnHeaders, HeadersAdd, HeadersCheck, OnReset, OnMessage, MessageLock, MessageSend,
      MessageEos, NilPacketClose
  <2>3. pc[Pump] \notin HeaderLabels \cup {"none"}
    BY <1>2 DEF OnHeaders, HeadersAdd, HeadersCheck, OnReset, OnMessage, MessageLock, MessageSend,
      MessageEos, NilPacketClose, HeaderLabels
  <2> QED
    BY <1>p, <2>1, <2>2, <2>3, WireKeeps DEF HeaderLabels, TrailerLabels, CloseLabels
<1>3. CASE TakeTicket
  <2>1. /\ UNCHANGED <<cur, wire, headersWritten, sendClosed, pumpClosed, srvCtx, chCtx, link>>
        /\ pc[Pump] = "phTicket"
    BY <1>3 DEF TakeTicket
  <2>2. CASE pc' = [pc EXCEPT ![Pump] = "close"]
    BY <1>p, <2>1, <2>2, WireKeeps DEF HeaderLabels, TrailerLabels, CloseLabels
  <2>3. CASE pc' = [pc EXCEPT ![Pump] = "idle", ![cur] = "run"]
    <3>1. cur \in Streams /\ pc[cur] = "none"
      BY <1>p, <1>q, <2>1 DEF CallsInv, HandlersStarted, HeadersOnce
    <3>2. pc'[Pump] = "idle" /\ pc'[cur] = "run" /\ \A q \in Streams \ {cur} : pc'[q] = pc[q]
      BY <1>p, <2>3, <3>1 DEF Procs
    <3>3. (\A q \in Procs : Str(q)' = Str(q)) /\ (ChCtxDone' <=> ChCtxDone)
      BY <2>1 DEF Str, ChCtxDone
    <3>4. OneHeader' /\ OneTrailer'
      BY <2>1, <3>1, <3>2, <3>3 DEF WireInv, OneHeader, OneTrailer, HeaderLabels, TrailerLabels, Procs
    <3>5. HandlerWrites'
      BY <2>1, <3>1, <3>2, <3>3 DEF WireInv, HandlerWrites, HeaderLabels, CloseLabels
    <3> QED
      BY <3>4, <3>5 DEF WireInv
  <2> QED
    BY <1>3, <2>2, <2>3 DEF TakeTicket
<1>4. CASE CloseStep(Pump)
  BY <1>p, <1>4, CloseWire
<1>5. ASSUME NEW s \in Streams, HandlerStep(s), ~CloseStep(s), ~SendWrite(s) PROVE WireInv'
  <2>1. UNCHANGED <<cur, wire, headersWritten, sendClosed, pumpClosed, srvCtx, chCtx, link>>
    BY <1>5 DEF HandlerStep, HandlerRecv, RecvMsg, HandlerSendHeader, HandlerSend, SendCheck, SendLock,
      HandlerReturn, HandlerQuit, HandlerDone, ReturnTicket
  <2>2. PICK l \in {"recv", "run", "onlyHdr", "send", "sendHdr", "done", "sendMsg", "close", "ticket", "end"} :
          /\ pc' = [pc EXCEPT ![s] = l]
          /\ \/ pc[s] \in {"run", "recv", "send"} /\ l \notin {"sendMsg", "ticket", "end"}
             \/ pc[s] = "sendLock" /\ l = "sendMsg"
             \/ pc[s] \in {"done", "ticket"} /\ l \in {"ticket", "end"}
    BY <1>5 DEF HandlerStep, HandlerRecv, RecvMsg, HandlerSendHeader, HandlerSend, SendCheck, SendLock,
      HandlerReturn, HandlerQuit, HandlerDone, ReturnTicket
  <2>3. s \in Procs /\ s # Pump
    BY <1>p DEF Procs
  <2> QED
    BY <1>p, <2>1, <2>2, <2>3, WireKeeps DEF HeaderLabels, TrailerLabels, CloseLabels, EndLabels
<1>6. ASSUME NEW s \in Streams, SendWrite(s) PROVE WireInv'
  <2>1. PICK r \in WriteResults : Put(s, r, "M")
    BY <1>6 DEF SendWrite
  <2>2. /\ UNCHANGED <<cur, headersWritten, sendClosed, pumpClosed, srvCtx, chCtx, link>>
        /\ pc[s] = "sendMsg" /\ s \in Procs /\ s # Pump /\ Str(s) = s
    BY <1>6, <1>p DEF SendWrite, Procs, Str
  <2>3. pc'[s] \in {"close", "run"} /\ \A q \in Procs \ {s} : pc'[q] = pc[q]
    BY <1>6, <1>p, <2>2 DEF SendWrite
  <2>4. \/ wire' = wire
        \/ /\ Extends(wire[s], wire'[s], "M") /\ ~ChCtxDone /\ link
           /\ \A t \in Streams \ {s} : wire'[t] = wire[t]
    BY <2>1, PutEffect DEF CloseInv, WriteResults
  <2>5. \A t \in Streams, x \in {"H", "T"} :
          /\ Absent(wire[t], x) => Absent(wire'[t], x)
          /\ Once(wire[t], x) => Once(wire'[t], x)
    BY <2>4, ExtendAbsent, ExtendOnce
  <2>6. (\A q \in Procs : Str(q)' = Str(q)) /\ (ChCtxDone' <=> ChCtxDone)
    BY <2>2 DEF Str, ChCtxDone
  <2>7. OneHeader' /\ OneTrailer'
    BY <1>q, <2>2, <2>3, <2>5, <2>6 DEF WireInv, OneHeader, OneTrailer, HeaderLabels, TrailerLabels
  <2>8. HandlerWrites'
    BY <1>p, <2>2, <2>3, <2>4, <2>6
    DEF WireInv, HandlerWrites, HeaderLabels, CloseLabels, Procs, Extends
  <2> QED
    BY <2>7, <2>8 DEF WireInv
<1>7. ASSUME NEW s \in Streams, CloseStep(s) PROVE WireInv'
  BY <1>7, CloseWire DEF Procs
<1>8. CASE \/ (\E s \in Streams : StreamTimeout(s)) \/ StopCancel \/ StopStep
           \/ ChannelClose \/ PeerDone \/ LinkDown \/ UNCHANGED vars
  <2>1. /\ UNCHANGED <<pc, cur, wire, headersWritten, sendClosed, pumpClosed>>
        /\ (srvCtx => srvCtx') /\ (chCtx => chCtx') /\ (~link => ~link')
    BY <1>8 DEF StreamTimeout, StopCancel, StopStep, StopLock, StopWait, StopPeers, StopGraceful, ChannelClose, PeerDone,
      LinkDown, vars
  <2>2. (\A q \in Procs : Str(q)' = Str(q)) /\ (ChCtxDone => ChCtxDone')
    BY <2>1 DEF Str, ChCtxDone
  <2> QED
    BY <2>1, <2>2 DEF WireInv, OneHeader, OneTrailer, HandlerWrites
<1> QED
  BY <1>1, <1>2, <1>3, <1>4, <1>5, <1>6, <1>7, <1>8 DEF Next, PumpStep, HandlerStep

\* The wire is empty and nobody writes initially.
LEMMA InitWire == Init => WireInv
<1> SUFFICES ASSUME Init PROVE WireInv
  OBVIOUS
<1>1. /\ pc[Pump] = "idle" /\ \A s \in Streams : pc[s] = "none" /\ wire[s] = <<>> /\ DOMAIN wire[s] = {}
  BY ServerStreamAssumption DEF Init, Procs
<1> QED
  BY <1>1 DEF Init, WireInv, OneHeader, OneTrailer, HandlerWrites, HeaderLabels, TrailerLabels, CloseLabels,
    Absent, Once, Procs

\* The invariant of the sending side.
THEOREM WireInvariant == Spec => []WireInv
<1>1. CallsInv /\ CloseInv /\ WireInv /\ [Next]_vars => WireInv'
  BY NextWire
<1> QED
  BY <1>1, InitWire, CallsInvariant, CloseInvariant, PTL DEF Spec

\* What is on a wire at most once is counted at most once.
LEMMA CountOnce ==
  ASSUME NEW w, NEW x, Once(w, x)
  PROVE  Count(w, x) <= 1
<1>1. CASE {i \in DOMAIN w : w[i] = x} = {}
  BY <1>1, FS_EmptySet DEF Count
<1>2. CASE {i \in DOMAIN w : w[i] = x} # {}
  <2>1. PICK k \in DOMAIN w : w[k] = x
    BY <1>2
  <2>2. {i \in DOMAIN w : w[i] = x} = {k}
    BY <2>1 DEF Once
  <2>3. Count(w, x) = Cardinality({k})
    BY <2>2, Zenon DEF Count
  <2>4. Cardinality({k}) = 1
    BY FS_Singleton
  <2> QED
    BY <2>3, <2>4
<1> QED
  BY <1>1, <1>2

\* Whatever the interleaving of pump, handlers, Stop and a failing connection:
\* responses go out as headers, messages, trailers, each of headers and trailers
\* at most once even when pump and handler both close the stream; the handler
\* receives the client's messages in order and without a gap; and a stream ends
\* with its channel closed, its context cancelled and its id free.
THEOREM Delivers == Spec => []DeliveryInv
<1>1. WireInv => WireOrder
  BY CountOnce DEF WireInv, OneHeader, OneTrailer, HandlerWrites, WireOrder
<1>2. CloseInv => ClosedIsReleased
  BY DEF CloseInv
<1> QED
  BY <1>1, <1>2, WireInvariant, CloseInvariant, ReceivesEverything, PTL DEF DeliveryInv
====
