---------------------------- MODULE ClientStream ----------------------------
(***************************************************************************)
(* The client end of a gRPC connection carried by a WebRTC data channel:   *)
(* webrtcClientChannel and its webrtcClientStreams                         *)
(* (rpc/wrtc_client_channel.go, rpc/wrtc_client_stream.go,                 *)
(* rpc/wrtc_base_stream.go).                                               *)
(*                                                                         *)
(* A stream is shared by the goroutine that sends on it, the one that      *)
(* receives, the watcher that newWebRTCClientStream starts and that resets *)
(* the stream when its context is done, the pump that calls                *)
(* onChannelMessage for one response at a time, and Close of the channel.  *)
(* Invoke is the case in which the receiver starts when the sender is      *)
(* through. A message is one packet, and write does not block (module      *)
(* BaseChannel).                                                           *)
(***************************************************************************)
EXTENDS Naturals, Sequences, FiniteSets

CONSTANTS
  Streams,     \* the ids nextStreamID hands out
  MaxStreams,  \* WebRTCMaxStreamCount
  MaxSends,    \* bound: messages sent on a stream
  MaxResponses,\* bound: responses of the server
  MaxFaults,   \* bound: cancelled calls and failures of the connection
  Responses,   \* the responses this server makes, among {"H", "M", "Tok", "Terr"}
  MayClose     \* whether Close is called

ASSUME ClientStreamAssumption ==
  /\ MaxStreams \in Nat /\ MaxSends \in Nat /\ MaxResponses \in Nat /\ MaxFaults \in Nat
  /\ Responses \subseteq {"H", "M", "Tok", "Terr"} /\ MayClose \in BOOLEAN

VARIABLES
  streams,      \* webrtcClientChannel.streams (its domain)
  sendClosed, recvClosed, closed,
  cancelled,    \* streams whose cancel was called
  userDone,     \* streams whose caller's context is done
  headersRcvd, trailersRcvd,
  muW,          \* who holds mu: "snd", "watch", "closer" or "free"
  muR,          \* streams whose sender holds mu.RLock
  msgCh, msgChClosed, senders, panicked,
  serr,         \* the stream's err: none, ok (errExpectedClosure) or err
  sndPc, nsend, wire,
  rcvPc, rcvd, result,
  watch,
  pump, cur, nresp, nmsg,
  close, todo,
  chCtx, link, nfault,
  byTrailers    \* history: the status of the trailers that closed a stream

flagVars  == <<sendClosed, recvClosed, closed, cancelled, userDone, headersRcvd, trailersRcvd>>
muVars    == <<muW, muR>>
chanVars  == <<msgCh, msgChClosed, senders, panicked, serr>>
sndVars   == <<sndPc, nsend>>
rcvVars   == <<rcvPc, rcvd, result>>
pumpVars  == <<pump, cur, nresp, nmsg>>
closeVars == <<close, todo>>
connVars  == <<chCtx, link, nfault>>
vars == <<streams, flagVars, muVars, chanVars, sndVars, wire, rcvVars, watch, pumpVars,
          closeVars, connVars, byTrailers>>

\* MergeContext of the channel's and the caller's context.
CtxDone(s) == s \in cancelled \/ s \in userDone \/ chCtx

LockFree(s)  == muW[s] = "free" /\ s \notin muR
RLockFree(s) == muW[s] = "free"
Hold(s, who) == muW' = [muW EXCEPT ![s] = who]
Goto(s, l)   == sndPc' = [sndPc EXCEPT ![s] = l]

\* What ch.write may return. A write that looked at ch.ctx before it was done
\* can still fail in Send with an error of the data channel.
WriteResults == IF ~link THEN {"pipe", "err"} ELSE IF chCtx THEN {"pipe"} ELSE {"ok"}

\* A message that proto.Marshal refuses (bound: MaxFaults) ends the same way.
MessageResults == WriteResults \cup IF nfault < MaxFaults THEN {"err"} ELSE {}
MarshalFault(r) == nfault' = IF r = "err" /\ link THEN nfault + 1 ELSE nfault

Put(s, r, x) == wire' = IF r = "ok" THEN [wire EXCEPT ![s] = Append(@, x)] ELSE wire

Init ==
  /\ streams = {} /\ sendClosed = {} /\ recvClosed = {} /\ closed = {} /\ cancelled = {}
  /\ userDone = {} /\ headersRcvd = {} /\ trailersRcvd = {}
  /\ muW = [s \in Streams |-> "free"] /\ muR = {}
  /\ msgCh = [s \in Streams |-> <<>>] /\ msgChClosed = {} /\ senders = {} /\ panicked = FALSE
  /\ serr = [s \in Streams |-> "none"]
  /\ sndPc = [s \in Streams |-> "none"] /\ nsend = [s \in Streams |-> 0]
  /\ wire = [s \in Streams |-> <<>>]
  /\ rcvPc = [s \in Streams |-> "idle"] /\ rcvd = [s \in Streams |-> <<>>]
  /\ result = [s \in Streams |-> "none"]
  /\ watch = [s \in Streams |-> "none"]
  /\ pump = "idle" /\ cur \in Streams /\ nresp = 0 /\ nmsg = [s \in Streams |-> 0]
  /\ close = "no" /\ todo = {}
  /\ chCtx = FALSE /\ link = TRUE /\ nfault = 0
  /\ byTrailers = [s \in Streams |-> "none"]

----------------------------------------------------------------------------
(* closeWithError *)

\* It has work to do: the CompareAndSwap on closed succeeds, and closeRecv's.
CloseBegin(s) == closed' = closed \cup {s} /\ recvClosed' = recvClosed \cup {s}

\* Mutant: removeStreamByID is not called.
CloseFinishNoDone(s, e) ==
  /\ s \notin senders
  /\ msgChClosed' = msgChClosed \cup {s}
  /\ serr' = [serr EXCEPT ![s] = e]
  /\ cancelled' = cancelled \cup {s}
  /\ UNCHANGED streams

\* The rest of it, once activeSenders.Wait returns: close(msgCh), err, cancel
\* and onDone (removeStreamByID).
CloseFinish(s, e) ==
  /\ s \notin senders
  /\ msgChClosed' = msgChClosed \cup {s}
  /\ serr' = [serr EXCEPT ![s] = e]
  /\ cancelled' = cancelled \cup {s}
  /\ streams' = streams \ {s}

----------------------------------------------------------------------------
(* The sending goroutine: newStream, writeHeaders, SendMsg and CloseSend. *)

\* newStream and newWebRTCClientStream, which starts the watcher.
NewStream(s) ==
  /\ sndPc[s] = "none"
  /\ IF Cardinality(streams) = MaxStreams
     THEN Goto(s, "over") /\ UNCHANGED <<streams, watch>>
     ELSE Goto(s, "hdr") /\ streams' = streams \cup {s} /\ watch' = [watch EXCEPT ![s] = "wait"]
  /\ UNCHANGED <<flagVars, muVars, chanVars, nsend, wire, rcvVars, pumpVars, closeVars,
                 connVars, byTrailers>>

\* writeHeaders, under mu; an error other than ErrClosedPipe closes the stream.
WriteHeaders(s) ==
  /\ sndPc[s] = "hdr" /\ LockFree(s)
  /\ \E r \in WriteResults :
       /\ Put(s, r, "H")
       /\ IF r = "err" /\ s \notin closed
          THEN CloseBegin(s) /\ Hold(s, "snd") /\ Goto(s, "wait")
          ELSE /\ Goto(s, IF r = "ok" THEN "ready" ELSE "over")
               /\ UNCHANGED <<closed, recvClosed, muW>>
  /\ UNCHANGED <<streams, sendClosed, cancelled, userDone, headersRcvd, trailersRcvd, muR,
                 chanVars, nsend, rcvVars, watch, pumpVars, closeVars, connVars, byTrailers>>

\* writeMessage without eos: the check of sendClosed under mu.RLock ...
SendMsg(s) ==
  /\ sndPc[s] = "ready" /\ nsend[s] < MaxSends /\ RLockFree(s)
  /\ nsend' = [nsend EXCEPT ![s] = @ + 1]
  /\ IF s \in sendClosed
     THEN Goto(s, "over") /\ UNCHANGED muR
     ELSE Goto(s, "wr") /\ muR' = muR \cup {s}
  /\ UNCHANGED <<streams, flagVars, muW, chanVars, wire, rcvVars, watch, pumpVars, closeVars,
                 connVars, byTrailers>>

\* ... and the write, whose error closes the stream under mu.RLock.
SendWrite(s) ==
  /\ sndPc[s] = "wr"
  /\ \E r \in MessageResults :
       /\ MarshalFault(r)
       /\ Put(s, r, "M")
       /\ IF r = "err" /\ s \notin closed
          THEN CloseBegin(s) /\ Goto(s, "wait") /\ UNCHANGED muR
          ELSE /\ Goto(s, IF r = "ok" THEN "ready" ELSE "over")
               /\ muR' = muR \ {s} /\ UNCHANGED <<closed, recvClosed>>
  /\ UNCHANGED <<streams, sendClosed, cancelled, userDone, headersRcvd, trailersRcvd, muW,
                 chanVars, nsend, rcvVars, watch, pumpVars, closeVars, chCtx, link, byTrailers>>

\* writeMessage with eos: mu.RLock is given up for mu.Lock, ...
CloseSend(s) ==
  /\ sndPc[s] = "ready" /\ RLockFree(s)
  /\ Goto(s, IF s \in sendClosed THEN "over" ELSE "eos")
  /\ UNCHANGED <<streams, flagVars, muVars, chanVars, nsend, wire, rcvVars, watch, pumpVars,
                 closeVars, connVars, byTrailers>>

\* ... sendClosed is looked at again, and the write is done under mu.Lock.
CloseSendWrite(s) ==
  /\ sndPc[s] = "eos" /\ LockFree(s)
  /\ IF s \in sendClosed
     THEN Goto(s, "over") /\ UNCHANGED <<sendClosed, wire, closed, recvClosed, muW, nfault>>
     ELSE /\ sendClosed' = sendClosed \cup {s}
          /\ \E r \in MessageResults :
               /\ MarshalFault(r)
               /\ Put(s, r, "E")
               /\ IF r = "err" /\ s \notin closed
                  THEN CloseBegin(s) /\ Hold(s, "snd") /\ Goto(s, "wait")
                  ELSE Goto(s, "over") /\ UNCHANGED <<closed, recvClosed, muW>>
  /\ UNCHANGED <<streams, cancelled, userDone, headersRcvd, trailersRcvd, muR, chanVars, nsend,
                 rcvVars, watch, pumpVars, closeVars, chCtx, link, byTrailers>>

\* closeWithError of the sender, and its lock is released.
SenderClosed(s) ==
  /\ sndPc[s] = "wait" /\ CloseFinish(s, "err")
  /\ Goto(s, "over")
  /\ muR' = muR \ {s} /\ (IF muW[s] = "snd" THEN Hold(s, "free") ELSE UNCHANGED muW)
  /\ UNCHANGED <<sendClosed, recvClosed, closed, userDone, headersRcvd, trailersRcvd, msgCh,
                 senders, panicked, nsend, wire, rcvVars, watch, pumpVars, closeVars, connVars,
                 byTrailers>>

----------------------------------------------------------------------------
(* The receiving goroutine *)

\* writeHeaders succeeded: only then does the caller get the stream.
Obtained(s) == \E i \in DOMAIN wire[s] : wire[s][i] = "H"

RecvCall(s) ==
  /\ Obtained(s) /\ rcvPc[s] = "idle" /\ result[s] = "none"
  /\ rcvPc' = [rcvPc EXCEPT ![s] = "recv"]
  /\ UNCHANGED <<streams, flagVars, muVars, chanVars, sndVars, wire, rcvd, result, watch,
                 pumpVars, closeVars, connVars, byTrailers>>

\* Mutant: a done context is reported without a look at msgCh and err.
RecvMsgCtxFirst(s) ==
  /\ rcvPc[s] = "recv" /\ rcvPc' = [rcvPc EXCEPT ![s] = "idle"]
  /\ \/ /\ msgCh[s] # <<>>
        /\ rcvd' = [rcvd EXCEPT ![s] = Append(@, Head(msgCh[s]))]
        /\ msgCh' = [msgCh EXCEPT ![s] = <<>>] /\ UNCHANGED result
     \/ /\ CtxDone(s)
        /\ result' = [result EXCEPT ![s] = "ctx"] /\ UNCHANGED <<rcvd, msgCh>>
     \/ /\ msgCh[s] = <<>> /\ s \in msgChClosed /\ LockFree(s)
        /\ result' = [result EXCEPT ![s] = IF serr[s] = "err" THEN "err" ELSE "eof"]
        /\ UNCHANGED <<rcvd, msgCh>>
  /\ UNCHANGED <<streams, flagVars, muVars, msgChClosed, senders, panicked, serr, sndVars, wire,
                 watch, pumpVars, closeVars, connVars, byTrailers>>

\* RecvMsg: a buffered message first; then, if msgCh is closed, what err says,
\* and without an err the context's error or io.EOF, as the select falls.
RecvMsg(s) ==
  /\ rcvPc[s] = "recv" /\ rcvPc' = [rcvPc EXCEPT ![s] = "idle"]
  /\ \/ /\ msgCh[s] # <<>>
        /\ rcvd' = [rcvd EXCEPT ![s] = Append(@, Head(msgCh[s]))]
        /\ msgCh' = [msgCh EXCEPT ![s] = <<>>] /\ UNCHANGED result
     \/ /\ msgCh[s] = <<>> /\ s \in msgChClosed /\ LockFree(s)
        /\ \E x \in CASE serr[s] = "err"  -> {"err"}
                      [] serr[s] = "ok"   -> {"eof"}
                      [] serr[s] = "none" -> {"eof"} \cup (IF CtxDone(s) THEN {"ctx"} ELSE {}) :
             result' = [result EXCEPT ![s] = x]
        /\ UNCHANGED <<rcvd, msgCh>>
     \/ /\ msgCh[s] = <<>> /\ s \notin msgChClosed /\ CtxDone(s)
        /\ result' = [result EXCEPT ![s] = "ctx"] /\ UNCHANGED <<rcvd, msgCh>>
  /\ UNCHANGED <<streams, flagVars, muVars, msgChClosed, senders, panicked, serr, sndVars, wire,
                 watch, pumpVars, closeVars, connVars, byTrailers>>

----------------------------------------------------------------------------
(* The watcher: it waits for the context and resets a stream that is open. *)

WatchWake(s) ==
  /\ watch[s] = "wait" /\ CtxDone(s)
  /\ watch' = [watch EXCEPT ![s] = IF s \in closed THEN "over" ELSE "lock"]
  /\ UNCHANGED <<streams, flagVars, muVars, chanVars, sndVars, wire, rcvVars, pumpVars,
                 closeVars, connVars, byTrailers>>

\* resetStream: writeReset, then closeWithError, both under mu.
WatchReset(s) ==
  /\ watch[s] = "lock" /\ LockFree(s)
  /\ sendClosed' = sendClosed \cup {s}
  /\ \E r \in WriteResults :
       /\ Put(s, r, "R")
       /\ watch' = [watch EXCEPT ![s] =
                     IF s \in closed THEN "over" ELSE IF r = "err" THEN "closeErr" ELSE "close"]
  /\ IF s \in closed
     THEN UNCHANGED <<closed, recvClosed, muW>>
     ELSE CloseBegin(s) /\ Hold(s, "watch")
  /\ UNCHANGED <<streams, cancelled, userDone, headersRcvd, trailersRcvd, muR, chanVars, sndVars,
                 rcvVars, pumpVars, closeVars, connVars, byTrailers>>

WatchClosed(s) ==
  /\ watch[s] \in {"close", "closeErr"}
  /\ CloseFinish(s, IF watch[s] = "closeErr" THEN "err" ELSE "none")
  /\ watch' = [watch EXCEPT ![s] = "over"] /\ Hold(s, "free")
  /\ UNCHANGED <<sendClosed, recvClosed, closed, userDone, headersRcvd, trailersRcvd, muR, msgCh,
                 senders, panicked, sndVars, wire, rcvVars, pumpVars, closeVars, connVars,
                 byTrailers>>

Watcher(s) == WatchWake(s) \/ WatchReset(s) \/ WatchClosed(s)

----------------------------------------------------------------------------
(* The pump: onChannelMessage and onResponse, one response at a time. *)

\* A response arrives for s; one for a stream that is gone is discarded.
OnChannelMessage(s, r) ==
  /\ pump = "idle" /\ link /\ nresp < MaxResponses /\ Obtained(s)
  /\ nresp' = nresp + 1
  /\ IF s \in streams
     THEN pump' = r /\ cur' = s
     ELSE UNCHANGED <<pump, cur>>
  /\ UNCHANGED <<streams, flagVars, muVars, chanVars, sndVars, wire, rcvVars, watch, nmsg,
                 closeVars, connVars, byTrailers>>

\* A response out of order makes onResponse close the stream without mu. The
\* pump is the only sender on msgCh, so closeRecv does not wait.
OutOfOrder == \/ pump = "H" /\ (cur \in headersRcvd \/ cur \in trailersRcvd)
              \/ pump = "M" /\ (cur \notin headersRcvd \/ cur \in trailersRcvd)

Refuse ==
  /\ OutOfOrder
  /\ IF cur \in closed
     THEN pump' = "idle" /\ UNCHANGED <<closed, recvClosed, msgChClosed>>
     ELSE pump' = "refuse" /\ CloseBegin(cur) /\ msgChClosed' = msgChClosed \cup {cur}
  /\ UNCHANGED <<streams, sendClosed, cancelled, userDone, headersRcvd, trailersRcvd, muVars, msgCh,
                 senders, panicked, serr, sndVars, wire, rcvVars, watch, cur, nresp, nmsg,
                 closeVars, connVars, byTrailers>>

Refused ==
  /\ pump = "refuse" /\ CloseFinish(cur, "err")
  /\ pump' = "idle"
  /\ UNCHANGED <<sendClosed, recvClosed, closed, userDone, headersRcvd, trailersRcvd, muVars, msgCh,
                 senders, panicked, sndVars, wire, rcvVars, watch, cur, nresp, nmsg,
                 closeVars, connVars, byTrailers>>

ProcessHeaders ==
  /\ pump = "H" /\ ~OutOfOrder /\ LockFree(cur)
  /\ headersRcvd' = headersRcvd \cup {cur}
  /\ pump' = "idle"
  /\ UNCHANGED <<streams, sendClosed, recvClosed, closed, cancelled, userDone, trailersRcvd, muVars,
                 chanVars, sndVars, wire, rcvVars, watch, cur, nresp, nmsg, closeVars,
                 connVars, byTrailers>>

\* processMessage: recvClosed is looked at and activeSenders counted under mu ...
ProcessMessage ==
  /\ pump = "M" /\ ~OutOfOrder /\ LockFree(cur)
  /\ IF cur \in recvClosed
     THEN pump' = "idle" /\ UNCHANGED <<senders, nmsg>>
     ELSE /\ pump' = "send" /\ senders' = senders \cup {cur}
          /\ nmsg' = [nmsg EXCEPT ![cur] = @ + 1]
  /\ UNCHANGED <<streams, flagVars, muVars, msgCh, msgChClosed, panicked, serr, sndVars, wire,
                 rcvVars, watch, cur, nresp, closeVars, connVars, byTrailers>>

\* ... and the send on msgCh waits, without mu, for room or for the context.
MessageSend ==
  /\ pump = "send" /\ pump' = "idle"
  /\ \/ /\ msgCh[cur] = <<>>
        /\ panicked' = (panicked \/ cur \in msgChClosed)
        /\ msgCh' = [msgCh EXCEPT ![cur] = <<nmsg[cur]>>]
     \/ CtxDone(cur) /\ UNCHANGED <<panicked, msgCh>>
  /\ senders' = senders \ {cur}
  /\ UNCHANGED <<streams, flagVars, muVars, msgChClosed, serr, sndVars, wire, rcvVars, watch,
                 cur, nresp, nmsg, closeVars, connVars, byTrailers>>

\* processTrailers: closeFromTrailers under mu, with nothing to wait for.
ProcessTrailers ==
  /\ pump \in {"Tok", "Terr"} /\ LockFree(cur)
  /\ trailersRcvd' = trailersRcvd \cup {cur}
  /\ LET status == IF pump = "Tok" THEN "ok" ELSE "err" IN
     IF cur \in closed
     THEN UNCHANGED <<closed, recvClosed, msgChClosed, serr, cancelled, streams, byTrailers>>
     ELSE /\ CloseBegin(cur) /\ CloseFinish(cur, status)
          /\ byTrailers' = [byTrailers EXCEPT ![cur] = status]
  /\ pump' = "idle"
  /\ UNCHANGED <<sendClosed, userDone, headersRcvd, muVars, msgCh, senders, panicked, sndVars, wire,
                 rcvVars, watch, cur, nresp, nmsg, closeVars, connVars>>

Pump == Refuse \/ Refused \/ ProcessHeaders \/ ProcessMessage \/ MessageSend \/ ProcessTrailers

----------------------------------------------------------------------------
(* Close of the channel *)

CloseCall ==
  /\ MayClose /\ close = "no"
  /\ close' = "streams" /\ todo' = streams
  /\ UNCHANGED <<streams, flagVars, muVars, chanVars, sndVars, wire, rcvVars, watch, pumpVars,
                 connVars, byTrailers>>

\* Mutant: the stream is closed before it is cancelled.
CloseStreamNoCancel(s) ==
  /\ close = "streams" /\ s \in todo /\ LockFree(s)
  /\ todo' = todo \ {s}
  /\ IF s \in closed
     THEN UNCHANGED <<closed, recvClosed, muW, close>>
     ELSE CloseBegin(s) /\ Hold(s, "closer") /\ close' = "wait"
  /\ UNCHANGED <<streams, cancelled, sendClosed, userDone, headersRcvd, trailersRcvd, muR, chanVars,
                 sndVars, wire, rcvVars, watch, pumpVars, connVars, byTrailers>>

\* webrtcClientStream.Close: mu, cancel, closeWithError(nil, false).
CloseStream(s) ==
  /\ close = "streams" /\ s \in todo /\ LockFree(s)
  /\ todo' = todo \ {s}
  /\ cancelled' = cancelled \cup {s}
  /\ IF s \in closed
     THEN UNCHANGED <<closed, recvClosed, muW, close>>
     ELSE CloseBegin(s) /\ Hold(s, "closer") /\ close' = "wait"
  /\ UNCHANGED <<streams, sendClosed, userDone, headersRcvd, trailersRcvd, muR, chanVars, sndVars,
                 wire, rcvVars, watch, pumpVars, connVars, byTrailers>>

CloseStreamEnd(s) ==
  /\ close = "wait" /\ muW[s] = "closer" /\ CloseFinish(s, "none")
  /\ Hold(s, "free") /\ close' = "streams"
  /\ UNCHANGED <<sendClosed, recvClosed, closed, userDone, headersRcvd, trailersRcvd, muR, msgCh,
                 senders, panicked, sndVars, wire, rcvVars, watch, pumpVars, todo, connVars,
                 byTrailers>>

\* webrtcBaseChannel.Close: the context, GracefulClose (which waits for the
\* pump), and the wait for the watchers.
CloseBase ==
  /\ close = "streams" /\ todo = {}
  /\ chCtx' = TRUE /\ close' = "graceful"
  /\ UNCHANGED <<streams, flagVars, muVars, chanVars, sndVars, wire, rcvVars, watch, pumpVars,
                 todo, link, nfault, byTrailers>>

CloseGraceful ==
  /\ close = "graceful" /\ pump = "idle"
  /\ link' = FALSE /\ close' = "workers"
  /\ UNCHANGED <<streams, flagVars, muVars, chanVars, sndVars, wire, rcvVars, watch, pumpVars,
                 todo, chCtx, nfault, byTrailers>>

CloseEnd ==
  /\ close = "workers" /\ \A s \in Streams : watch[s] \in {"none", "over"}
  /\ close' = "done"
  /\ UNCHANGED <<streams, flagVars, muVars, chanVars, sndVars, wire, rcvVars, watch, pumpVars,
                 todo, connVars, byTrailers>>

Closer ==
  \/ \E s \in Streams : CloseStream(s) \/ CloseStreamEnd(s)
  \/ CloseBase \/ CloseGraceful \/ CloseEnd

----------------------------------------------------------------------------
(* The callers' contexts and the connection *)

\* A caller cancels its context, or its deadline passes.
UserCancel(s) ==
  /\ nfault < MaxFaults /\ sndPc[s] # "none" /\ s \notin userDone
  /\ userDone' = userDone \cup {s} /\ nfault' = nfault + 1
  /\ UNCHANGED <<streams, sendClosed, recvClosed, closed, cancelled, headersRcvd, trailersRcvd,
                 muVars, chanVars, sndVars, wire, rcvVars, watch, pumpVars, closeVars, chCtx,
                 link, byTrailers>>

\* The peer closes the channel: closeWithReason cancels ch.ctx ...
ChannelDone ==
  /\ nfault < MaxFaults /\ ~chCtx
  /\ chCtx' = TRUE /\ nfault' = nfault + 1
  /\ UNCHANGED <<streams, flagVars, muVars, chanVars, sndVars, wire, rcvVars, watch, pumpVars,
                 closeVars, link, byTrailers>>

\* ... and the association goes down, at times before ch.ctx is cancelled.
LinkDown ==
  /\ nfault < MaxFaults /\ link
  /\ link' = FALSE /\ nfault' = nfault + 1
  /\ UNCHANGED <<streams, flagVars, muVars, chanVars, sndVars, wire, rcvVars, watch, pumpVars,
                 closeVars, chCtx, byTrailers>>

----------------------------------------------------------------------------

\* What a sender does once it is called; and what only its user decides.
Sender(s) == WriteHeaders(s) \/ SendWrite(s) \/ CloseSendWrite(s) \/ SenderClosed(s)
User(s)   == NewStream(s) \/ SendMsg(s) \/ CloseSend(s) \/ RecvCall(s)

Goroutines == Pump \/ Closer \/ \E s \in Streams : Sender(s) \/ Watcher(s) \/ RecvMsg(s)

Environment ==
  \/ \E s \in Streams : User(s) \/ UserCancel(s) \/ \E r \in Responses : OnChannelMessage(s, r)
  \/ CloseCall \/ ChannelDone \/ LinkDown

Next == Goroutines \/ Environment

\* A goroutine that can go on does, and a call a user has made goes on; users,
\* the server and the connection owe nothing. Every step uses up one of finitely
\* many sends, messages and calls, so no behaviour goes on for ever, and weak
\* fairness of the goroutines together is that of each of them.
Fairness == WF_vars(Goroutines)

Spec == Init /\ [][Next]_vars /\ Fairness

----------------------------------------------------------------------------
(* Properties *)

\* What is true of which streams, and of the channel.
FlagType ==
  /\ streams \subseteq Streams /\ sendClosed \subseteq Streams /\ recvClosed \subseteq Streams
  /\ closed = recvClosed /\ cancelled \subseteq Streams /\ userDone \subseteq Streams
  /\ headersRcvd \subseteq Streams /\ trailersRcvd \subseteq Streams
  /\ msgChClosed \subseteq recvClosed /\ todo \subseteq Streams
  /\ chCtx \in BOOLEAN /\ link \in BOOLEAN

\* The locks: mu is held for reading or for writing.
LockType ==
  /\ muW \in [Streams -> {"free", "snd", "watch", "closer"}] /\ muR \subseteq Streams
  /\ \A s \in muR : muW[s] = "free"

\* Where the goroutines are; activeSenders counts the pump.
ControlType ==
  /\ sndPc \in [Streams -> {"none", "hdr", "ready", "wr", "eos", "wait", "over"}]
  /\ rcvPc \in [Streams -> {"idle", "recv"}]
  /\ watch \in [Streams -> {"none", "wait", "lock", "close", "closeErr", "over"}]
  /\ pump \in {"idle", "refuse", "send"} \cup Responses /\ cur \in Streams
  /\ senders = IF pump = "send" THEN {cur} ELSE {}
  /\ close \in {"no", "streams", "wait", "graceful", "workers", "done"}

\* What the calls return, the one message msgCh has room for, and the bounds.
ValueType ==
  /\ serr \in [Streams -> {"none", "ok", "err"}]
  /\ result \in [Streams -> {"none", "eof", "err", "ctx"}]
  /\ byTrailers \in [Streams -> {"none", "ok", "err"}]
  /\ \A s \in Streams : Len(msgCh[s]) <= 1
  /\ nsend \in [Streams -> 0..MaxSends]
  /\ nresp \in 0..MaxResponses /\ nfault \in 0..MaxFaults

\* Every variable of the channel, of its streams and of their goroutines has
\* its type.
TypeOK == FlagType /\ LockType /\ ControlType /\ ValueType

\* processMessage sends on msgCh after it released mu, while a sender, the
\* watcher or Close may be closing the stream: the pump never sends on a channel
\* that closeRecv has closed, which would panic.
NoSendOnClosed == ~panicked

\* A stream that its trailers closed, and that nobody gave up, hands its
\* receiver every message in the server's order and then the status of the
\* trailers, although closing it also cancels the context RecvMsg selects on.
TrailersGiveStatus ==
  \A s \in Streams :
    byTrailers[s] # "none" /\ result[s] # "none" /\ s \notin userDone /\ ~chCtx /\ close = "no"
      => /\ result[s] = IF byTrailers[s] = "ok" THEN "eof" ELSE "err"
         /\ rcvd[s] = [i \in 1..nmsg[s] |-> i]

\* SendMsg, CloseSend and the watcher's reset race for mu: a stream has at most
\* one header, one end and one reset on the wire, no message after its end, and
\* neither a message nor an end after its reset.
RequestOrder ==
  \A s \in Streams : \A i, j \in DOMAIN wire[s] : i < j =>
    /\ wire[s][i] = wire[s][j] => wire[s][i] = "M"
    /\ wire[s][i] = "E" => wire[s][j] # "M"
    /\ wire[s][i] = "R" => wire[s][j] = "H"

\* What a stream exchanges with the wire and with its user is in order, whatever
\* its sender, its receiver, the watcher, the read loop and Close do.
StreamInv == TypeOK /\ NoSendOnClosed /\ TrailersGiveStatus /\ RequestOrder

\* A stream whose context is done leaves the table of streams, so that it does
\* not count against WebRTCMaxStreamCount, whoever holds mu or waits for it.
DoneStreamsReleased ==
  \A s \in Streams : (s \in streams /\ CtxDone(s)) ~> s \notin streams

\* A sender whose write failed closes its stream under mu and waits for the
\* pump, which waits for the receiver to empty msgCh.
SenderBlocked == \E s \in Streams : sndPc[s] = "wait" /\ s \in senders /\ msgCh[s] # <<>>

\* Close of the channel returns, unless a failed send has blocked a stream and
\* its user no longer receives.
CloseReturnsUnlessBlocked == (close # "no") ~> (close = "done" \/ []SenderBlocked)

\* Close of the channel returns: it is one of the ways NewStream's comment gives
\* to release a stream's resources. It does not while SenderBlocked.
CloseReturns == (close # "no") ~> (close = "done")

\* RecvMsg returns io.EOF only for a stream that completed successfully, as its
\* comment says. It also does for one closed without trailers.
EOFMeansOK == \A s \in Streams : result[s] = "eof" => byTrailers[s] = "ok"
====
