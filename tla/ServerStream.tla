---------------------------- MODULE ServerStream ----------------------------
(***************************************************************************)
(* The server end of a gRPC connection carried by a WebRTC data channel:   *)
(* webrtcServer, one webrtcServerChannel and its webrtcServerStreams       *)
(* (rpc/wrtc_server.go, rpc/wrtc_server_channel.go,                        *)
(* rpc/wrtc_server_stream.go, rpc/wrtc_base_stream.go).                    *)
(*                                                                         *)
(* Two kinds of goroutine share a stream. The pump is pion's read loop,    *)
(* which calls onChannelMessage for one request at a time. A handler       *)
(* goroutine, identified here with its stream, is started by               *)
(* processHeaders. Both may run closeWithSendError on the same stream; a   *)
(* third goroutine runs webrtcServer.Stop.                                 *)
(*                                                                         *)
(* An action is one critical section or one atomic operation of the code.  *)
(* Boolean fields of the streams (atomic.Bool, closed channels, cancelled  *)
(* contexts) are the sets of the streams for which they are true. Messages *)
(* of a stream are numbered in the order the client sends them; a message  *)
(* is one packet here (the reassembly of packets is not modelled), and     *)
(* write does not block (module BaseChannel is about flow control).        *)
(***************************************************************************)
EXTENDS Naturals, Sequences, FiniteSets

CONSTANTS
  Streams,      \* stream ids of the channel; a client never reuses an id
  MaxTickets,   \* capacity of callTickets: DefaultWebRTCMaxGRPCCalls
  MaxStreams,   \* WebRTCMaxStreamCount
  MaxRequests,  \* bound: requests the client sends
  MaxSends,     \* bound: responses a handler sends
  MaxFaults,    \* bound: timeouts and failures of the connection
  MayStop,      \* whether Stop is called
  ClientSends,  \* the requests this client makes, among Requests
  Pump,         \* the goroutine of the data channel's read loop
  NoProc        \* "nobody"

Procs == Streams \cup {Pump}

\* Kinds of method a headers request can name: a unary one, a streaming one, or
\* one that no registered service has.
Kinds == {"unary", "stream", "unknown"}

\* The requests of a client: the oneof of webrtcpb.Request, with the payload of
\* RequestMessage reduced to HasMessage, a missing PacketMessage, and Eos.
Requests == {"unary", "stream", "unknown", "msg", "msgEos", "eos", "nilPacket", "rst"}

\* What closeWithSendError and SendMsg are given: no error, io.ErrClosedPipe,
\* any other error.
Errors == {"nil", "pipe", "err"}

ASSUME ServerStreamAssumption ==
  /\ MaxTickets \in Nat /\ MaxStreams \in Nat
  /\ MaxRequests \in Nat /\ MaxSends \in Nat /\ MaxFaults \in Nat
  /\ ClientSends \subseteq Requests /\ MayStop \in BOOLEAN
  /\ Pump \notin Streams /\ NoProc \notin Streams /\ Pump # NoProc

VARIABLES
  streams,          \* webrtcServerChannel.streams (its domain)
  used,             \* ids the client has opened
  kind,             \* the method a stream was opened with
  headersReceived, headersWritten, sendClosed, recvClosed, closed,
  cancelled,        \* streams whose own context is cancelled or timed out
  muW,              \* write holder of webrtcBaseStream.mu
  muR,              \* streams whose handler holds mu.RLock
  msgCh, msgChClosed,
  senders,          \* activeSenders: streams on whose msgCh the pump is sending
  panicked,         \* a send on a closed msgCh
  streamErr,        \* streams whose err is set
  pc, cur, req, cerr,
  nmsg,             \* messages of a stream the pump has accepted for delivery
  rcvd,             \* what the handler's RecvMsg calls returned
  recvOver,         \* streams whose RecvMsg returned an error
  sawEOF,           \* ... and that error was io.EOF
  eosSeen,          \* the client half-closed the stream
  nsend, wire,      \* SendMsg calls made; responses put on the data channel
  pumpClosed,       \* streams on which the pump ran closeWithSendError
  tickets, workers, \* callTickets and processHeadersWorkers, as sets of holders
  srvCtx, chCtx,    \* server.ctx and ch.ctx are cancelled
  chClosed,         \* webrtcBaseChannel.closed
  link,             \* the data channel accepts Send
  stop,             \* progress of webrtcServer.Stop
  nreq, nfault

streamVars == <<headersReceived, headersWritten, sendClosed, recvClosed, closed, cancelled>>
muVars     == <<muW, muR>>
chanVars   == <<msgCh, msgChClosed, senders, panicked, streamErr>>
procVars   == <<pc, cur, req, cerr>>
recvVars   == <<nmsg, rcvd, recvOver, sawEOF, eosSeen>>
sendVars   == <<nsend, wire, pumpClosed>>
srvVars    == <<tickets, workers, srvCtx, stop>>
connVars   == <<chCtx, chClosed, link, nfault>>
mapVars    == <<streams, used, kind, nreq>>
vars == <<streamVars, muVars, chanVars, procVars, recvVars, sendVars, srvVars,
          connVars, mapVars>>

----------------------------------------------------------------------------
(* State predicates and small helpers. *)

\* A stream's context derives from ch.ctx, which derives from server.ctx.
ChCtxDone   == srvCtx \/ chCtx
CtxDone(s)  == s \in cancelled \/ ChCtxDone

\* The stream a goroutine works on.
Str(p) == IF p = Pump THEN cur ELSE p

\* Where a goroutine goes when closeWithSendError returns. A handler has
\* nothing left to do: a handler whose SendMsg failed returns.
AfterClose(p) == IF p = Pump THEN "idle" ELSE "done"

Goto(p, label) == pc' = [pc EXCEPT ![p] = label]

\* mu.Lock can be acquired; mu.RLock can be acquired.
LockFree(s)  == muW[s] = NoProc /\ s \notin muR
RLockFree(s) == muW[s] = NoProc

\* The outcomes of webrtcBaseChannel.write.
WriteResults ==
  IF ChCtxDone THEN {"pipe"}
  ELSE IF link THEN {"ok"}
  ELSE {"pipe", "err"}

Put(s, r, x) == wire' = IF r = "ok" THEN [wire EXCEPT ![s] = Append(@, x)] ELSE wire

\* Labels of a handler goroutine that has not yet run its deferred function,
\* and of one that has marked processHeadersWorkers done.
SendLabels  == {"send", "sendHdr", "sendHdrW", "sendLock", "sendMsg"}
CloseLabels == {"close", "closeChk", "closeHdr", "closeHdrW", "closeTrl", "closeLock", "closeWait"}
HdrLabels   == {"onlyHdr", "onlyHdrW"}
RunLabels   == {"run", "recv", "done"} \cup SendLabels \cup CloseLabels \cup HdrLabels
PumpLabels  == {"idle", "dispatch", "phAdd", "phCheck", "phTicket", "pmLock", "pmSend",
                "pmEos", "nilWait", "nilErr"} \cup CloseLabels

Init ==
  /\ streams = {} /\ used = {} /\ kind = [s \in Streams |-> "unknown"] /\ nreq = 0
  /\ headersReceived = {} /\ headersWritten = {} /\ sendClosed = {}
  /\ recvClosed = {} /\ closed = {} /\ cancelled = {}
  /\ muW = [s \in Streams |-> NoProc] /\ muR = {}
  /\ msgCh = [s \in Streams |-> <<>>] /\ msgChClosed = {} /\ senders = {}
  /\ panicked = FALSE /\ streamErr = {}
  /\ pc = [p \in Procs |-> IF p = Pump THEN "idle" ELSE "none"]
  /\ cur = NoProc /\ req = "rst" /\ cerr = [p \in Procs |-> "nil"]
  /\ nmsg = [s \in Streams |-> 0] /\ rcvd = [s \in Streams |-> <<>>]
  /\ recvOver = {} /\ sawEOF = {} /\ eosSeen = {}
  /\ nsend = [s \in Streams |-> 0] /\ wire = [s \in Streams |-> <<>>] /\ pumpClosed = {}
  /\ tickets = {} /\ workers = {} /\ srvCtx = FALSE /\ stop = "no"
  /\ chCtx = FALSE /\ chClosed = FALSE /\ link = TRUE /\ nfault = 0

----------------------------------------------------------------------------
(* closeWithSendError, run by the pump or by a handler. *)

StartClose(p, e) == Goto(p, "close") /\ cerr' = [cerr EXCEPT ![p] = e]

\* Mutant: sendClosed is set without looking at its old value.
CloseNoCAS(p) ==
  /\ pc[p] = "close"
  /\ sendClosed' = sendClosed \cup {Str(p)}
  /\ pumpClosed' = IF p = Pump THEN pumpClosed \cup {cur} ELSE pumpClosed
  /\ Goto(p, IF cerr[p] = "pipe" THEN "closeLock" ELSE "closeChk")
  /\ UNCHANGED <<headersReceived, headersWritten, recvClosed, closed, cancelled, muVars,
                 chanVars, cur, req, cerr, recvVars, nsend, wire, srvVars, connVars, mapVars>>

\* The CompareAndSwap on sendClosed; an ErrClosedPipe skips every write.
CloseCAS(p) ==
  /\ pc[p] = "close"
  /\ IF Str(p) \in sendClosed
     THEN Goto(p, AfterClose(p)) /\ UNCHANGED <<sendClosed, pumpClosed>>
     ELSE /\ sendClosed' = sendClosed \cup {Str(p)}
          /\ pumpClosed' = IF p = Pump THEN pumpClosed \cup {cur} ELSE pumpClosed
          /\ Goto(p, IF cerr[p] = "pipe" THEN "closeLock" ELSE "closeChk")
  /\ UNCHANGED <<headersReceived, headersWritten, recvClosed, closed, cancelled, muVars,
                 chanVars, cur, req, cerr, recvVars, nsend, wire, srvVars, connVars, mapVars>>

\* A stream or channel that is already closed gets no response. Closed() takes
\* ch.mu; who holds that lock, and for how long, is in BaseChannel.
CloseCheck(p) ==
  /\ pc[p] = "closeChk"
  /\ Goto(p, IF Str(p) \in closed \/ chClosed THEN "closeLock" ELSE "closeHdr")
  /\ UNCHANGED <<streamVars, muVars, chanVars, cur, req, cerr, recvVars, sendVars, srvVars,
                 connVars, mapVars>>

\* writeHeaders, called by closeWithSendError, SendMsg and SendHeader: the
\* CompareAndSwap on headersWritten, then the write.
HeaderCAS(p) ==
  /\ pc[p] \in {"closeHdr", "sendHdr", "onlyHdr"}
  /\ IF Str(p) \in headersWritten
     THEN /\ Goto(p, CASE pc[p] = "closeHdr" -> "closeTrl"
                       [] pc[p] = "sendHdr"  -> "sendLock"
                       [] OTHER              -> "run")
          /\ UNCHANGED headersWritten
     ELSE /\ headersWritten' = headersWritten \cup {Str(p)}
          /\ Goto(p, CASE pc[p] = "closeHdr" -> "closeHdrW"
                       [] pc[p] = "sendHdr"  -> "sendHdrW"
                       [] OTHER              -> "onlyHdrW")
  /\ UNCHANGED <<headersReceived, sendClosed, recvClosed, closed, cancelled, muVars, chanVars,
                 cur, req, cerr, recvVars, sendVars, srvVars, connVars, mapVars>>

HeaderWrite(p) ==
  /\ pc[p] \in {"closeHdrW", "sendHdrW", "onlyHdrW"}
  /\ RLockFree(Str(p))
  /\ \E r \in WriteResults :
       /\ Put(Str(p), r, "H")
       /\ CASE pc[p] = "closeHdrW" ->
                 Goto(p, IF r = "ok" THEN "closeTrl" ELSE "closeLock") /\ UNCHANGED cerr
            [] pc[p] = "sendHdrW" /\ r = "ok" -> Goto(p, "sendLock") /\ UNCHANGED cerr
            [] pc[p] = "sendHdrW" /\ r # "ok" -> StartClose(p, r)
            [] OTHER -> Goto(p, "run") /\ UNCHANGED cerr
  /\ UNCHANGED <<streamVars, muVars, chanVars, cur, req, recvVars, nsend, pumpClosed, srvVars,
                 connVars, mapVars>>

TrailerWrite(p) ==
  /\ pc[p] = "closeTrl"
  /\ \E r \in WriteResults : Put(Str(p), r, "T")
  /\ Goto(p, "closeLock")
  /\ UNCHANGED <<streamVars, muVars, chanVars, cur, req, cerr, recvVars, nsend, pumpClosed,
                 srvVars, connVars, mapVars>>

\* The deferred mu.Lock and close(): closeWithError up to activeSenders.Wait.
CloseLock(p) ==
  /\ pc[p] = "closeLock"
  /\ LockFree(Str(p))
  /\ IF Str(p) \in closed
     THEN Goto(p, AfterClose(p)) /\ UNCHANGED <<muW, closed, recvClosed>>
     ELSE /\ muW' = [muW EXCEPT ![Str(p)] = p]
          /\ closed' = closed \cup {Str(p)}
          /\ recvClosed' = recvClosed \cup {Str(p)}
          /\ Goto(p, "closeWait")
  /\ UNCHANGED <<headersReceived, headersWritten, sendClosed, cancelled, muR, chanVars, cur, req,
                 cerr, recvVars, sendVars, srvVars, connVars, mapVars>>

\* Mutant: closeRecv does not wait for activeSenders.
CloseNoWait(p) ==
  /\ pc[p] = "closeWait"
  /\ msgChClosed' = msgChClosed \cup {Str(p)}
  /\ cancelled' = cancelled \cup {Str(p)}
  /\ streams' = streams \ {Str(p)}
  /\ muW' = [muW EXCEPT ![Str(p)] = NoProc]
  /\ Goto(p, AfterClose(p))
  /\ UNCHANGED <<headersReceived, headersWritten, sendClosed, recvClosed, closed, muR, msgCh,
                 senders, panicked, streamErr, cur, req, cerr, recvVars, sendVars, srvVars,
                 connVars, used, kind, nreq>>

\* activeSenders.Wait returns; the rest of closeWithError: close(msgCh),
\* s.cancel, onDone (removeStreamByID), then mu.Unlock.
CloseWait(p) ==
  /\ pc[p] = "closeWait"
  /\ Str(p) \notin senders
  /\ msgChClosed' = msgChClosed \cup {Str(p)}
  /\ cancelled' = cancelled \cup {Str(p)}
  /\ streams' = streams \ {Str(p)}
  /\ muW' = [muW EXCEPT ![Str(p)] = NoProc]
  /\ Goto(p, AfterClose(p))
  /\ UNCHANGED <<headersReceived, headersWritten, sendClosed, recvClosed, closed, muR, msgCh,
                 senders, panicked, streamErr, cur, req, cerr, recvVars, sendVars, srvVars,
                 connVars, used, kind, nreq>>

CloseStep(p) ==
  \/ CloseCAS(p) \/ CloseCheck(p) \/ HeaderCAS(p) \/ HeaderWrite(p)
  \/ TrailerWrite(p) \/ CloseLock(p) \/ CloseWait(p)

----------------------------------------------------------------------------
(* The pump. *)

\* onChannelMessage up to the call of onRequest: the lookup of the stream, or its
\* creation by a headers request.
OnChannelMessage(s, r) ==
  /\ pc[Pump] = "idle" /\ link /\ nreq < MaxRequests
  /\ r \in Kinds /\ s \in used => s \in streams
  /\ nreq' = nreq + 1
  /\ IF s \notin streams /\ (Cardinality(streams) = MaxStreams \/ r \notin Kinds)
     THEN UNCHANGED <<streams, used, pc, cur, req, nmsg, eosSeen>>
     ELSE /\ streams' = streams \cup {s} /\ used' = used \cup {s}
          /\ cur' = s /\ req' = r /\ Goto(Pump, "dispatch")
          /\ nmsg' = IF r \in {"msg", "msgEos"} /\ s \notin eosSeen
                     THEN [nmsg EXCEPT ![s] = @ + 1] ELSE nmsg
          /\ eosSeen' = IF r \in {"eos", "msgEos"} THEN eosSeen \cup {s} ELSE eosSeen
  /\ UNCHANGED <<streamVars, muVars, chanVars, cerr, rcvd, recvOver, sawEOF, sendVars, srvVars,
                 connVars, kind>>

\* onRequest for headers, and processHeaders' lookup of the handler.
OnHeaders ==
  /\ pc[Pump] = "dispatch" /\ req \in Kinds
  /\ IF cur \in headersReceived \/ req = "unknown"
     THEN StartClose(Pump, "err")
     ELSE Goto(Pump, "phAdd") /\ UNCHANGED cerr
  /\ UNCHANGED <<streamVars, muVars, chanVars, cur, req, recvVars, sendVars, srvVars, connVars,
                 mapVars>>

\* processHeadersWorkers.Add under processHeadersMu.RLock, which Stop holds
\* exclusively while it waits.
HeadersAdd ==
  /\ pc[Pump] = "phAdd" /\ stop # "waiting"
  /\ workers' = workers \cup {cur}
  /\ Goto(Pump, "phCheck")
  /\ UNCHANGED <<streamVars, muVars, chanVars, cur, req, cerr, recvVars, sendVars, tickets,
                 srvCtx, stop, connVars, mapVars>>

\* Mutant: the context is not checked after the Add.
HeadersNoCheck ==
  /\ pc[Pump] = "phCheck"
  /\ Goto(Pump, "phTicket")
  /\ UNCHANGED <<streamVars, muVars, chanVars, cur, req, cerr, recvVars, sendVars, srvVars,
                 connVars, mapVars>>

HeadersCheck ==
  /\ pc[Pump] = "phCheck"
  /\ IF srvCtx
     THEN workers' = workers \ {cur} /\ Goto(Pump, "idle")
     ELSE UNCHANGED workers /\ Goto(Pump, "phTicket")
  /\ UNCHANGED <<streamVars, muVars, chanVars, cur, req, cerr, recvVars, sendVars, tickets,
                 srvCtx, stop, connVars, mapVars>>

\* Mutant: one ticket too many.
TakeTicketOffByOne ==
  /\ pc[Pump] = "phTicket"
  /\ IF Cardinality(tickets) <= MaxTickets
     THEN /\ tickets' = tickets \cup {cur}
          /\ headersReceived' = headersReceived \cup {cur}
          /\ kind' = [kind EXCEPT ![cur] = req]
          /\ pc' = [pc EXCEPT ![Pump] = "idle", ![cur] = "run"]
          /\ UNCHANGED cerr
     ELSE StartClose(Pump, "err") /\ UNCHANGED <<tickets, headersReceived, kind>>
  /\ UNCHANGED <<headersWritten, sendClosed, recvClosed, closed, cancelled, muVars, chanVars, cur,
                 req, recvVars, sendVars, workers, srvCtx, stop, connVars, streams, used, nreq>>

\* Take a ticket and start the handler, or refuse the call with
\* ResourceExhausted. Nothing undoes the Add of a refused call.
TakeTicket ==
  /\ pc[Pump] = "phTicket"
  /\ IF Cardinality(tickets) < MaxTickets
     THEN /\ tickets' = tickets \cup {cur}
          /\ headersReceived' = headersReceived \cup {cur}
          /\ kind' = [kind EXCEPT ![cur] = req]
          /\ pc' = [pc EXCEPT ![Pump] = "idle", ![cur] = "run"]
          /\ UNCHANGED cerr
     ELSE StartClose(Pump, "err") /\ UNCHANGED <<tickets, headersReceived, kind>>
  /\ UNCHANGED <<headersWritten, sendClosed, recvClosed, closed, cancelled, muVars, chanVars, cur,
                 req, recvVars, sendVars, workers, srvCtx, stop, connVars, streams, used, nreq>>

\* onRequest for a message and the start of processMessage. A message without
\* its packet runs closeWithError, and does so without mu.
OnMessage ==
  /\ pc[Pump] = "dispatch" /\ req \in {"msg", "msgEos", "eos", "nilPacket"}
  /\ CASE cur \notin headersReceived -> StartClose(Pump, "err") /\ UNCHANGED <<closed, recvClosed>>
       [] cur \in headersReceived /\ cur \in recvClosed ->
            Goto(Pump, "idle") /\ UNCHANGED <<cerr, closed, recvClosed>>
       [] cur \in headersReceived /\ cur \notin recvClosed /\ req = "nilPacket" ->
            IF cur \in closed
            THEN Goto(Pump, "idle") /\ UNCHANGED <<cerr, closed, recvClosed>>
            ELSE /\ closed' = closed \cup {cur} /\ recvClosed' = recvClosed \cup {cur}
                 /\ Goto(Pump, "nilWait") /\ UNCHANGED cerr
       [] OTHER -> /\ Goto(Pump, IF req = "eos" THEN "pmEos" ELSE "pmLock")
                   /\ UNCHANGED <<cerr, closed, recvClosed>>
  /\ UNCHANGED <<headersReceived, headersWritten, sendClosed, cancelled, muVars, chanVars, cur,
                 req, recvVars, sendVars, srvVars, connVars, mapVars>>

\* processMessage registers itself as a sender, under mu.
MessageLock ==
  /\ pc[Pump] = "pmLock" /\ LockFree(cur)
  /\ IF cur \in recvClosed
     THEN Goto(Pump, "idle") /\ UNCHANGED senders
     ELSE Goto(Pump, "pmSend") /\ senders' = senders \cup {cur}
  /\ UNCHANGED <<streamVars, muVars, msgCh, msgChClosed, panicked, streamErr, cur, req, cerr,
                 recvVars, sendVars, srvVars, connVars, mapVars>>

\* The select between the send on msgCh (of capacity 1) and the context.
MessageSend ==
  /\ pc[Pump] = "pmSend"
  /\ \/ /\ cur \in msgChClosed
        /\ panicked' = TRUE /\ UNCHANGED msgCh
     \/ /\ cur \notin msgChClosed /\ msgCh[cur] = <<>>
        /\ msgCh' = [msgCh EXCEPT ![cur] = <<nmsg[cur]>>] /\ UNCHANGED panicked
     \/ /\ CtxDone(cur)
        /\ UNCHANGED <<msgCh, panicked>>
  /\ senders' = senders \ {cur}
  /\ Goto(Pump, IF req = "msgEos" THEN "pmEos" ELSE "idle")
  /\ UNCHANGED <<streamVars, muVars, msgChClosed, streamErr, cur, req, cerr, recvVars, sendVars,
                 srvVars, connVars, mapVars>>

\* CloseRecv.
MessageEos ==
  /\ pc[Pump] = "pmEos" /\ LockFree(cur) /\ cur \notin senders
  /\ recvClosed' = recvClosed \cup {cur}
  /\ msgChClosed' = msgChClosed \cup {cur}
  /\ Goto(Pump, "idle")
  /\ UNCHANGED <<headersReceived, headersWritten, sendClosed, closed, cancelled, muVars, msgCh,
                 senders, panicked, streamErr, cur, req, cerr, recvVars, sendVars, srvVars,
                 connVars, mapVars>>

\* closeWithError without mu: closeRecv, then err, cancel and onDone.
NilPacketClose ==
  /\ \/ /\ pc[Pump] = "nilWait" /\ cur \notin senders
        /\ msgChClosed' = msgChClosed \cup {cur}
        /\ Goto(Pump, "nilErr")
        /\ UNCHANGED <<streamErr, cancelled, streams>>
     \/ /\ pc[Pump] = "nilErr"
        /\ streamErr' = streamErr \cup {cur}
        /\ cancelled' = cancelled \cup {cur}
        /\ streams' = streams \ {cur}
        /\ Goto(Pump, "idle")
        /\ UNCHANGED msgChClosed
  /\ UNCHANGED <<headersReceived, headersWritten, sendClosed, recvClosed, closed, muVars, msgCh,
                 senders, panicked, cur, req, cerr, recvVars, sendVars, srvVars, connVars, used,
                 kind, nreq>>

\* onRequest for a reset.
OnReset ==
  /\ pc[Pump] = "dispatch" /\ req = "rst"
  /\ StartClose(Pump, "err")
  /\ UNCHANGED <<streamVars, muVars, chanVars, cur, req, recvVars, sendVars, srvVars, connVars,
                 mapVars>>

PumpStep ==
  \/ OnHeaders \/ HeadersAdd \/ HeadersCheck \/ TakeTicket
  \/ OnMessage \/ MessageLock \/ MessageSend \/ MessageEos \/ NilPacketClose \/ OnReset
  \/ CloseStep(Pump)

----------------------------------------------------------------------------
(* A handler goroutine: unaryHandler or streamHandler around user code. The  *)
(* user code of a unary method decodes one message and returns a response or *)
(* an error; that of a streaming method calls RecvMsg and SendMsg as it      *)
(* likes, but RecvMsg no more once it failed.                                *)

HandlerRecv(s) ==
  /\ pc[s] = "run" /\ s \notin recvOver
  /\ kind[s] = "unary" => rcvd[s] = <<>>
  /\ Goto(s, "recv")
  /\ UNCHANGED <<streamVars, muVars, chanVars, cur, req, cerr, recvVars, sendVars, srvVars,
                 connVars, mapVars>>

\* Mutant: RecvMsg waits on msgCh only.
RecvMsgNoCtx(s) ==
  /\ pc[s] = "recv"
  /\ \/ /\ msgCh[s] # <<>>
        /\ rcvd' = [rcvd EXCEPT ![s] = Append(@, Head(msgCh[s]))]
        /\ msgCh' = [msgCh EXCEPT ![s] = <<>>]
        /\ UNCHANGED <<recvOver, sawEOF>>
     \/ /\ msgCh[s] = <<>> /\ s \in msgChClosed /\ LockFree(s)
        /\ recvOver' = recvOver \cup {s}
        /\ sawEOF' = sawEOF \cup {s}
        /\ UNCHANGED <<rcvd, msgCh>>
  /\ Goto(s, "run")
  /\ UNCHANGED <<streamVars, muVars, msgChClosed, senders, panicked, streamErr, cur, req, cerr,
                 nmsg, eosSeen, sendVars, srvVars, connVars, mapVars>>

\* RecvMsg. A buffered message wins over a done context (checkLastOrErr); on a
\* closed and drained msgCh the result is the stream's err, else io.EOF or the
\* context's error, as the select falls.
RecvMsg(s) ==
  /\ pc[s] = "recv"
  /\ \/ /\ msgCh[s] # <<>>
        /\ rcvd' = [rcvd EXCEPT ![s] = Append(@, Head(msgCh[s]))]
        /\ msgCh' = [msgCh EXCEPT ![s] = <<>>]
        /\ UNCHANGED <<recvOver, sawEOF>>
     \/ /\ msgCh[s] = <<>> /\ s \in msgChClosed /\ LockFree(s)
        /\ recvOver' = recvOver \cup {s}
        /\ \/ s \notin streamErr /\ sawEOF' = sawEOF \cup {s}
           \/ (s \in streamErr \/ CtxDone(s)) /\ UNCHANGED sawEOF
        /\ UNCHANGED <<rcvd, msgCh>>
     \/ /\ msgCh[s] = <<>> /\ s \notin msgChClosed /\ CtxDone(s)
        /\ recvOver' = recvOver \cup {s}
        /\ UNCHANGED <<rcvd, msgCh, sawEOF>>
  /\ Goto(s, "run")
  /\ UNCHANGED <<streamVars, muVars, msgChClosed, senders, panicked, streamErr, cur, req, cerr,
                 nmsg, eosSeen, sendVars, srvVars, connVars, mapVars>>

\* SendHeader: SetHeader refuses once headersWritten, then writeHeaders.
HandlerSendHeader(s) ==
  /\ pc[s] = "run" /\ LockFree(s) /\ s \notin headersWritten
  /\ Goto(s, "onlyHdr")
  /\ UNCHANGED <<streamVars, muVars, chanVars, cur, req, cerr, recvVars, sendVars, srvVars,
                 connVars, mapVars>>

HandlerSend(s) ==
  /\ pc[s] = "run" /\ nsend[s] < MaxSends
  /\ kind[s] = "unary" => rcvd[s] # <<>>
  /\ nsend' = [nsend EXCEPT ![s] = @ + 1]
  /\ Goto(s, "send")
  /\ UNCHANGED <<streamVars, muVars, chanVars, cur, req, cerr, recvVars, wire, pumpClosed,
                 srvVars, connVars, mapVars>>

\* SendMsg's first check.
SendCheck(s) ==
  /\ pc[s] = "send"
  /\ Goto(s, IF s \notin sendClosed THEN "sendHdr"
             ELSE IF kind[s] = "unary" THEN "done" ELSE "run")
  /\ UNCHANGED <<streamVars, muVars, chanVars, cur, req, cerr, recvVars, sendVars, srvVars,
                 connVars, mapVars>>

SendLock(s) ==
  /\ pc[s] = "sendLock" /\ RLockFree(s)
  /\ muR' = muR \cup {s}
  /\ Goto(s, "sendMsg")
  /\ UNCHANGED <<streamVars, muW, chanVars, cur, req, cerr, recvVars, sendVars, srvVars,
                 connVars, mapVars>>

\* The write of the message under mu.RLock; an error makes SendMsg's deferred
\* function close the stream, and a unary handler closes it on success too.
SendWrite(s) ==
  /\ pc[s] = "sendMsg"
  /\ \E r \in WriteResults :
       /\ Put(s, r, "M")
       /\ IF r # "ok" THEN StartClose(s, r)
          ELSE IF kind[s] = "unary" THEN StartClose(s, "nil")
          ELSE Goto(s, "run") /\ UNCHANGED cerr
  /\ muR' = muR \ {s}
  /\ UNCHANGED <<streamVars, muW, chanVars, cur, req, recvVars, nsend, pumpClosed, srvVars,
                 connVars, mapVars>>

\* The handler returns and its result goes to closeWithSendError.
HandlerReturn(s, e) ==
  /\ pc[s] = "run"
  /\ kind[s] = "unary" => e = "err"
  /\ StartClose(s, e)
  /\ UNCHANGED <<streamVars, muVars, chanVars, cur, req, recvVars, sendVars, srvVars, connVars,
                 mapVars>>

\* A streaming handler returns io.EOF, or a handler panics: the stream is left
\* as it is.
HandlerQuit(s) ==
  /\ pc[s] = "run"
  /\ Goto(s, "done")
  /\ UNCHANGED <<streamVars, muVars, chanVars, cur, req, cerr, recvVars, sendVars, srvVars,
                 connVars, mapVars>>

\* Mutant: the handler goroutine forgets processHeadersWorkers.Done.
HandlerNoDone(s) ==
  /\ pc[s] = "done"
  /\ Goto(s, "ticket")
  /\ UNCHANGED <<streamVars, muVars, chanVars, cur, req, cerr, recvVars, sendVars, srvVars,
                 connVars, mapVars>>

\* The deferred function of the handler goroutine: processHeadersWorkers.Done,
\* then the ticket is given back.
HandlerDone(s) ==
  /\ pc[s] = "done"
  /\ workers' = workers \ {s}
  /\ Goto(s, "ticket")
  /\ UNCHANGED <<streamVars, muVars, chanVars, cur, req, cerr, recvVars, sendVars, tickets,
                 srvCtx, stop, connVars, mapVars>>

ReturnTicket(s) ==
  /\ pc[s] = "ticket"
  /\ tickets' = tickets \ {s}
  /\ Goto(s, "end")
  /\ UNCHANGED <<streamVars, muVars, chanVars, cur, req, cerr, recvVars, sendVars, workers,
                 srvCtx, stop, connVars, mapVars>>

HandlerStep(s) ==
  \/ HandlerRecv(s) \/ RecvMsg(s) \/ HandlerSendHeader(s) \/ HandlerSend(s)
  \/ SendCheck(s) \/ SendLock(s) \/ SendWrite(s)
  \/ \E e \in Errors : HandlerReturn(s, e)
  \/ HandlerQuit(s) \/ HandlerDone(s) \/ ReturnTicket(s)
  \/ CloseStep(s)

----------------------------------------------------------------------------
(* webrtcServer.Stop. *)

StopCancel ==
  /\ MayStop /\ stop = "no"
  /\ stop' = "cancelled" /\ srvCtx' = TRUE
  /\ UNCHANGED <<streamVars, muVars, chanVars, procVars, recvVars, sendVars, tickets, workers,
                 connVars, mapVars>>

StopLock ==
  /\ stop = "cancelled"
  /\ stop' = "waiting"
  /\ UNCHANGED <<streamVars, muVars, chanVars, procVars, recvVars, sendVars, tickets, workers,
                 srvCtx, connVars, mapVars>>

\* processHeadersWorkers.Wait returns and processHeadersMu is released.
StopWait ==
  /\ stop = "waiting" /\ workers = {}
  /\ stop' = "waited"
  /\ UNCHANGED <<streamVars, muVars, chanVars, procVars, recvVars, sendVars, tickets, workers,
                 srvCtx, connVars, mapVars>>

\* Lingering peer connections are closed, under peerConnsMu ...
StopPeers ==
  /\ stop = "waited"
  /\ stop' = "closing" /\ link' = FALSE
  /\ UNCHANGED <<streamVars, muVars, chanVars, procVars, recvVars, sendVars, tickets, workers,
                 srvCtx, chCtx, chClosed, nfault, mapVars>>

\* ... and GracefulClose waits for the read loop. That the read loop may wait
\* for ch.mu, and who holds it for peerConnsMu, is in BaseChannel.
StopGraceful ==
  /\ stop = "closing" /\ pc[Pump] = "idle"
  /\ stop' = "stopped"
  /\ UNCHANGED <<streamVars, muVars, chanVars, procVars, recvVars, sendVars, tickets, workers,
                 srvCtx, connVars, mapVars>>

StopStep == StopLock \/ StopWait \/ StopPeers \/ StopGraceful

----------------------------------------------------------------------------
(* Events of the connection. *)

Fault == nfault < MaxFaults /\ nfault' = nfault + 1

\* A stream's timeout expires.
StreamTimeout(s) ==
  /\ s \in streams /\ s \notin cancelled /\ Fault
  /\ cancelled' = cancelled \cup {s}
  /\ UNCHANGED <<headersReceived, headersWritten, sendClosed, recvClosed, closed, muVars, chanVars,
                 procVars, recvVars, sendVars, srvVars, chCtx, chClosed, link, mapVars>>

\* onChannelClose or onChannelError: closeWithReason.
ChannelClose ==
  /\ ~chClosed /\ Fault
  /\ chClosed' = TRUE /\ chCtx' = TRUE /\ link' = FALSE
  /\ UNCHANGED <<streamVars, muVars, chanVars, procVars, recvVars, sendVars, srvVars, mapVars>>

\* The ICE connection is lost: doPeerDone cancels ch.ctx and the peer connection
\* is closed (removePeer).
PeerDone ==
  /\ ~chCtx /\ Fault
  /\ chCtx' = TRUE /\ link' = FALSE
  /\ UNCHANGED <<streamVars, muVars, chanVars, procVars, recvVars, sendVars, srvVars, chClosed,
                 mapVars>>

\* The transport fails before any callback says so.
LinkDown ==
  /\ link /\ Fault
  /\ link' = FALSE
  /\ UNCHANGED <<streamVars, muVars, chanVars, procVars, recvVars, sendVars, srvVars, chCtx,
                 chClosed, mapVars>>

Next ==
  \/ \E s \in Streams, r \in ClientSends : OnChannelMessage(s, r)
  \/ PumpStep
  \/ \E s \in Streams : HandlerStep(s)
  \/ StopCancel \/ StopStep
  \/ \E s \in Streams : StreamTimeout(s)
  \/ ChannelClose \/ PeerDone \/ LinkDown

\* The Go scheduler runs every goroutine that can run. Nothing is assumed of
\* the client, of timeouts, of the connection, or of who calls Stop.
Fairness ==
  /\ WF_vars(PumpStep) /\ WF_vars(StopStep)
  /\ \A s \in Streams : WF_vars(HandlerStep(s))

Spec == Init /\ [][Next]_vars /\ Fairness

----------------------------------------------------------------------------
(* Properties. *)

\* Where the goroutines are.
ControlType ==
  /\ pc \in [Procs -> PumpLabels \cup RunLabels \cup {"none", "ticket", "end"}]
  /\ pc[Pump] \in PumpLabels
  /\ cur \in Streams \cup {NoProc}
  /\ pc[Pump] # "idle" => cur \in Streams
  /\ req \in Requests /\ cerr \in [Procs -> Errors]
  /\ pc[Pump] \in {"phAdd", "phCheck", "phTicket"} => req \in Kinds
  /\ muW \in [Streams -> Procs \cup {NoProc}]
  /\ stop \in {"no", "cancelled", "waiting", "waited", "closing", "stopped"}

\* What is true of which streams, and the flags of the channel.
StateType ==
  /\ streams \subseteq Streams /\ used \subseteq Streams
  /\ headersReceived \subseteq Streams /\ headersWritten \subseteq Streams
  /\ sendClosed \subseteq Streams /\ recvClosed \subseteq Streams
  /\ closed \subseteq Streams /\ cancelled \subseteq Streams /\ muR \subseteq Streams
  /\ msgChClosed \subseteq Streams /\ senders \subseteq Streams /\ streamErr \subseteq Streams
  /\ recvOver \subseteq Streams /\ sawEOF \subseteq Streams /\ eosSeen \subseteq Streams
  /\ pumpClosed \subseteq Streams /\ tickets \subseteq Streams /\ workers \subseteq Streams
  /\ panicked \in BOOLEAN /\ srvCtx \in BOOLEAN
  /\ chCtx \in BOOLEAN /\ chClosed \in BOOLEAN /\ link \in BOOLEAN

\* Messages and counters.
DataType ==
  /\ kind \in [Streams -> Kinds]
  /\ msgCh \in [Streams -> Seq(Nat)] /\ nmsg \in [Streams -> Nat] /\ rcvd \in [Streams -> Seq(Nat)]
  /\ nsend \in [Streams -> Nat] /\ wire \in [Streams -> Seq({"H", "M", "T"})]
  /\ nreq \in 0..MaxRequests /\ nfault \in 0..MaxFaults

\* Every variable stays in its type.
TypeOK == ControlType /\ StateType /\ DataType

\* processMessage never sends on a msgCh that closeRecv has closed (a panic
\* that would kill the read loop), although the handler closes it concurrently.
NoSendOnClosed == ~panicked

\* How often x was written to the wire w.
Count(w, x) == Cardinality({i \in DOMAIN w : w[i] = x})

\* On the wire a stream's responses are headers, messages, trailers, in this
\* order, with headers and trailers at most once. When the pump closes the
\* stream (a reset, say) it races with the handler's SendMsg and only "at most
\* once" is left.
WireOrder ==
  \A s \in Streams :
    /\ Count(wire[s], "H") <= 1 /\ Count(wire[s], "T") <= 1
    /\ s \notin pumpClosed =>
         \A i \in DOMAIN wire[s] :
           /\ wire[s][i] = "H" <=> i = 1
           /\ wire[s][i] = "T" => i = Len(wire[s])

\* While its context is live a handler has been given exactly the messages the
\* client sent, from the first on; a message may be skipped only once the
\* context is done, and none is ever repeated or reordered.
ReceivesInOrder ==
  \A s \in Streams :
    /\ \A i, j \in DOMAIN rcvd[s] : i < j => rcvd[s][i] < rcvd[s][j]
    /\ ~CtxDone(s) => \A i \in DOMAIN rcvd[s] : rcvd[s][i] = i

\* io.EOF after a clean half-close comes only when every message was received.
EOFAfterLast ==
  \A s \in sawEOF : s \in eosSeen /\ ~CtxDone(s) /\ s \notin closed => Len(rcvd[s]) = nmsg[s]

\* A closed stream that no goroutine is still closing has released everything:
\* its msgCh is closed, its context cancelled, its id free and its lock not held.
ClosedIsReleased ==
  \A s \in closed :
    \/ \E p \in {s, Pump} : Str(p) = s /\ pc[p] \in {"closeWait", "nilWait", "nilErr"}
    \/ s \in msgChClosed /\ s \in cancelled /\ s \notin streams /\ muW[s] = NoProc

\* A stream delivers in both directions in order, and ends released.
DeliveryInv == WireOrder /\ ReceivesInOrder /\ EOFAfterLast /\ ClosedIsReleased

\* Every running call holds a ticket, and there are at most MaxTickets of them.
TicketsBound ==
  /\ \A s \in Streams : s \in tickets <=> pc[s] \in RunLabels \cup {"ticket"}
  /\ Cardinality(tickets) <= MaxTickets

\* Once Stop has returned from Wait no handler runs, and none starts any more.
StopWaitsForHandlers ==
  stop \in {"waited", "closing", "stopped"} => \A s \in Streams : pc[s] \notin RunLabels

\* A call whose context is done is eventually over and its ticket is returned.
CancelledCallsEnd ==
  \A s \in Streams : (pc[s] \in RunLabels /\ CtxDone(s)) ~> pc[s] = "end"

\* A refused call: counted in processHeadersWorkers, never handled.
Refused(s) == s \in workers /\ pc[s] = "none" /\ (pc[Pump] \in {"phCheck", "phTicket"} => cur # s)

\* Stop returns, unless a call was refused for want of a ticket.
StopReturnsUnlessRefused == stop = "cancelled" ~> (stop = "stopped" \/ \E s \in Streams : Refused(s))

\* "It returns when all handlers are done executing": Stop returns once it is
\* called, the handlers being done when their contexts are. It does not after a
\* refused call.
StopReturns == stop = "cancelled" ~> stop = "stopped"
====
