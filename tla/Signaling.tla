----------------------------- MODULE Signaling -----------------------------
(***************************************************************************)
(* How a caller and an answerer are brought together: the handlers of      *)
(* WebRTCSignalingServer (rpc/wrtc_signaling_server.go), the in-memory     *)
(* WebRTCCallQueue they share (rpc/wrtc_call_queue_memory.go) and the      *)
(* workers of webrtcSignalingAnswerer that open the Answer streams         *)
(* (rpc/wrtc_signaling_answerer.go).                                       *)
(*                                                                         *)
(* A call c is one Call RPC with its offer. An attempt a is one turn of a  *)
(* worker of startAnswerer, with the Answer RPC it opens; two FIFO         *)
(* sequences are the two directions of that gRPC stream. An unbuffered Go  *)
(* channel is a joint step of its two ends: an offer goes from             *)
(* SendOfferInit's goroutine to RecvOffer, an answer from AnswererRespond  *)
(* to the loop of Call, a candidate from SendOfferUpdate to callerLoop.    *)
(***************************************************************************)
EXTENDS Naturals, Sequences, FiniteSets

CONSTANTS
  Calls, Attempts,
  Hosts,
  HostOf,    \* the host a call is for
  AnswerHosts, \* the sequence of hosts the answerer answers for
  MaxAnswerers, \* defaultMaxAnswerers: workers of the answerer
  MaxCands,  \* bound: ICE candidates the answerer gathers
  NoTrickle, \* the calls that disable trickle ICE
  CallerCands, \* bound: ICE candidates the caller sends
  MaxFaults  \* bound: cancelled calls, failures, broken streams, Stop and Close

None == "none"

ASSUME SignalingAssumption ==
  /\ HostOf \in [Calls -> Hosts] /\ AnswerHosts \in Seq(Hosts)
  /\ MaxCands \in Nat /\ MaxAnswerers \in Nat /\ Attempts \subseteq Nat
  /\ NoTrickle \subseteq Calls /\ CallerCands \in Nat /\ MaxFaults \in Nat
  /\ None \notin Calls
  /\ IsFiniteSet(Hosts)
  /\ AnswerHosts # <<>>  \* HostsFromCtx

VARIABLES
  \* memoryWebRTCCallQueue
  hostQueues,  \* host -> queue, 0 if it has none; queues are numbered
  nqueues,
  active,      \* calls in some activeOffers
  offering,    \* calls whose goroutine waits to hand over the exchange
  qOf,         \* the host queue of a call
  answererDone, callerDone, callerErr,  \* per exchange
  expired,     \* offers past their deadline
  qClosed,     \* queue.cancelCtx is done
  \* the Call and CallUpdate handlers
  callPc, callCtx, got, result, errSend,
  upd, ncand,
  \* the Answer handlers
  ansPc, aq, cur, aLoop, cLoop, haveInit, stopped, cancelled, payload,
  toAns, toSrv, up,
  srvClosed, closePc, workers,
  \* the answerer's workers
  ansState,    \* Start and Stop: new, on, stopping, stopped
  wPc,         \* startAnswerer's loop and connect
  sentDone,    \* sendDoneErrOnce has fired
  readerDone,  \* the goroutine that reads the stream has returned
  wcand, pend, \* candidates gathered, and those whose goroutine is running
  gathering,   \* the ICE gatherer: on, ending (its last callback's goroutine runs), off
  \* history
  doneOK,      \* calls whose Answer handler read a done stage
  byGather,    \* attempts whose done was sent at the end of gathering
  silent,      \* attempts that failed without a message
  faults       \* how many faults there were

queueVars == <<hostQueues, nqueues, active, offering, qOf, answererDone, callerDone, callerErr,
               expired, qClosed>>
callVars  == <<callPc, callCtx, got, result, errSend, upd, ncand>>
loopVars  == <<aLoop, cLoop, haveInit, stopped, cancelled, payload>>
ansVars   == <<ansPc, aq, cur, loopVars>>
wireVars  == <<toAns, toSrv, up>>
srvVars   == <<srvClosed, closePc, workers>>
workVars  == <<ansState, wPc, sentDone, readerDone, wcand, pend, gathering>>
histVars  == <<doneOK, byGather, silent, faults>>
vars == <<queueVars, callVars, ansVars, wireVars, srvVars, workVars, histVars>>

Init ==
  /\ hostQueues = [h \in Hosts |-> 0] /\ nqueues = 0 /\ active = {} /\ offering = {}
  /\ qOf = [c \in Calls |-> 0] /\ answererDone = {} /\ callerDone = {} /\ callerErr = {}
  /\ expired = {} /\ qClosed = FALSE
  /\ callPc = [c \in Calls |-> "none"] /\ callCtx = {} /\ got = [c \in Calls |-> <<>>]
  /\ result = [c \in Calls |-> "none"] /\ errSend = {}
  /\ upd = [c \in Calls |-> "idle"] /\ ncand = [c \in Calls |-> 0]
  /\ ansPc = [a \in Attempts |-> "none"] /\ aq = [a \in Attempts |-> 0]
  /\ cur = [a \in Attempts |-> None]
  /\ aLoop = [a \in Attempts |-> "off"] /\ cLoop = [a \in Attempts |-> "off"]
  /\ haveInit = {} /\ stopped = {} /\ cancelled = {} /\ payload = [a \in Attempts |-> "init"]
  /\ toAns = [a \in Attempts |-> <<>>] /\ toSrv = [a \in Attempts |-> <<>>] /\ up = {}
  /\ srvClosed = FALSE /\ closePc = "no" /\ workers = {}
  /\ ansState = "new" /\ wPc = [a \in Attempts |-> "idle"] /\ sentDone = {} /\ readerDone = {}
  /\ wcand = [a \in Attempts |-> 0] /\ pend = [a \in Attempts |-> 0] 
  /\ gathering = [a \in Attempts |-> "on"]
  /\ doneOK = {} /\ byGather = {} /\ silent = {}
  /\ faults = 0

Fault == faults < MaxFaults /\ faults' = faults + 1
NoFault == UNCHANGED faults

\* histVars but faults
pastVars == <<doneOK, byGather, silent>>

----------------------------------------------------------------------------
(* memoryWebRTCCallQueue *)

\* The context of an offer (sendCtx, answererDoneCtx).
SendCtxDone(c) == c \in answererDone \/ c \in expired \/ qClosed

\* getOrMakeHostsQueue: the queue of the LAST of the hosts that has one, or a
\* new queue; the hosts that have none get it.
HostsQueue(hs) ==
  LET have == {i \in DOMAIN hs : hostQueues[hs[i]] # 0}
  IN  IF have = {} THEN nqueues + 1
      ELSE hostQueues[hs[CHOOSE i \in have : \A j \in have : j <= i]]

GetOrMakeHostsQueue(hs) ==
  /\ hostQueues' = [h \in Hosts |->
       IF hostQueues[h] = 0 /\ \E i \in DOMAIN hs : hs[i] = h THEN HostsQueue(hs)
       ELSE hostQueues[h]]
  /\ nqueues' = IF HostsQueue(hs) > nqueues THEN nqueues + 1 ELSE nqueues

\* SendOfferInit's goroutine gives up.
OfferGone(c) ==
  /\ c \in offering /\ (SendCtxDone(c) \/ c \in callCtx)
  /\ offering' = offering \ {c}
  /\ UNCHANGED <<hostQueues, nqueues, active, qOf, answererDone, callerDone, callerErr, expired,
                 qClosed, callVars, ansVars, wireVars, srvVars, workVars, histVars>>

\* The deadline of an offer passes.
Expire(c) ==
  /\ callPc[c] # "none" /\ c \notin expired
  /\ expired' = expired \cup {c}
  /\ UNCHANGED <<hostQueues, nqueues, active, offering, qOf, answererDone, callerDone, callerErr,
                 qClosed, callVars, ansVars, wireVars, srvVars, workVars, histVars>>

\* Mutant: only the offers whose caller is done are swept.
JanitorDoneOnly ==
  /\ ~qClosed /\ active \cap expired \cap callerDone # {}
  /\ active' = active \ (expired \cap callerDone)
  /\ UNCHANGED <<hostQueues, nqueues, offering, qOf, answererDone, callerDone, callerErr, expired,
                 qClosed, callVars, ansVars, wireVars, srvVars, workVars, histVars>>

\* The ticker's sweep over activeOffers.
Janitor ==
  /\ ~qClosed /\ active \cap expired # {}
  /\ active' = active \ expired
  /\ UNCHANGED <<hostQueues, nqueues, offering, qOf, answererDone, callerDone, callerErr, expired,
                 qClosed, callVars, ansVars, wireVars, srvVars, workVars, histVars>>

\* SendOfferError: an inactive offer is refused; one whose caller is done
\* already is left alone.
SendOfferError(c) ==
  IF c \in active /\ c \notin callerDone
  THEN /\ callerErr' = callerErr \cup {c}
       /\ callerDone' = callerDone \cup {c}
       /\ active' = active \ {c}
  ELSE UNCHANGED <<callerErr, callerDone, active>>

----------------------------------------------------------------------------
(* Call and CallUpdate *)

\* Call up to its loop, with SendOfferInit.
CallStart(c) ==
  /\ callPc[c] = "none"
  /\ GetOrMakeHostsQueue(<<HostOf[c]>>)
  /\ qOf' = [qOf EXCEPT ![c] = HostsQueue(<<HostOf[c]>>)]
  /\ active' = active \cup {c} /\ offering' = offering \cup {c}
  /\ callPc' = [callPc EXCEPT ![c] = "loop"]
  /\ UNCHANGED <<answererDone, callerDone, callerErr, expired, qClosed, callCtx, got, result,
                 errSend, upd, ncand, ansVars, wireVars, srvVars, workVars, histVars>>

\* The caller hangs up, or Call's own timeout passes.
CallCancel(c) ==
  /\ callPc[c] = "loop" /\ c \notin callCtx /\ Fault
  /\ callCtx' = callCtx \cup {c}
  /\ UNCHANGED <<queueVars, callPc, got, result, errSend, upd, ncand, ansVars, wireVars, srvVars,
                 workVars, pastVars>>

\* The loop of Call ends because of its context or of respDone.
CallEnd(c) ==
  /\ callPc[c] = "loop"
  /\ \/ c \in callCtx /\ result' = [result EXCEPT ![c] = "err"]
     \/ SendCtxDone(c) /\ result' = [result EXCEPT ![c] = "ok"]
  /\ callPc' = [callPc EXCEPT ![c] = "defer"]
  /\ UNCHANGED <<queueVars, callCtx, got, errSend, upd, ncand, ansVars, wireVars, srvVars,
                 workVars, histVars>>

\* The deferred functions of Call: an error, or a context that was cancelled
\* meanwhile, is passed on by a goroutine unless the server is closed; sendCancel
\* and cancel run last. callWorkers counts that goroutine for no time at all.
CallDefer(c) ==
  /\ callPc[c] = "defer"
  /\ errSend' = IF (result[c] = "err" \/ c \in callCtx) /\ ~srvClosed
                THEN errSend \cup {c} ELSE errSend
  /\ answererDone' = answererDone \cup {c}
  /\ callCtx' = callCtx \cup {c}
  /\ callPc' = [callPc EXCEPT ![c] = "over"]
  /\ UNCHANGED <<hostQueues, nqueues, active, offering, qOf, callerDone, callerErr, expired,
                 qClosed, got, result, upd, ncand, ansVars, wireVars, srvVars, workVars, histVars>>

\* That goroutine.
CallErrSend(c) ==
  /\ c \in errSend
  /\ errSend' = errSend \ {c}
  /\ SendOfferError(c)
  /\ UNCHANGED <<hostQueues, nqueues, offering, qOf, answererDone, expired, qClosed, callPc,
                 callCtx, got, result, upd, ncand, ansVars, wireVars, srvVars, workVars, histVars>>

\* CallUpdate with a candidate: SendOfferUpdate up to its select. The caller
\* knows the offer's uuid once it has the initial response.
UpdateCandidate(c) ==
  /\ got[c] # <<>> /\ upd[c] = "idle" /\ ncand[c] < CallerCands
  /\ ncand' = [ncand EXCEPT ![c] = @ + 1]
  /\ upd' = IF c \in active THEN [upd EXCEPT ![c] = "sending"] ELSE upd
  /\ UNCHANGED <<queueVars, callPc, callCtx, got, result, errSend, ansVars, wireVars, srvVars,
                 workVars, histVars>>

\* ... whose context ends before anyone takes the candidate.
UpdateTimeout(c) ==
  /\ upd[c] = "sending"
  /\ upd' = [upd EXCEPT ![c] = "idle"]
  /\ UNCHANGED <<queueVars, callPc, callCtx, got, result, errSend, ncand, ansVars, wireVars,
                 srvVars, workVars, histVars>>

\* CallUpdate with Done (SendOfferDone) or with an error (SendOfferError).
UpdateDone(c) ==
  /\ got[c] # <<>> /\ upd[c] = "idle" /\ c \in active
  /\ \/ callerDone' = callerDone \cup {c} /\ NoFault /\ UNCHANGED <<callerErr, active>>
     \/ SendOfferError(c) /\ Fault
  /\ upd' = [upd EXCEPT ![c] = "done"]
  /\ UNCHANGED <<hostQueues, nqueues, offering, qOf, answererDone, expired, qClosed, callPc,
                 callCtx, got, result, errSend, ncand, ansVars, wireVars, srvVars, workVars,
                 pastVars>>

----------------------------------------------------------------------------
(* Answer *)

\* offerCtx: the deadline of the offer, its cancel function, or the stream's end.
OfferCtxDone(a) == a \in cancelled \/ cur[a] \in expired \/ a \notin up

\* server.Send puts x on the stream, or fails when the stream is gone. What the
\* worker will not read any more is not kept.
SendToAnswerer(a, x) ==
  toAns' = IF a \in up /\ a \notin readerDone /\ wPc[a] # "over"
           THEN [toAns EXCEPT ![a] = Append(@, x)] ELSE toAns

\* Answer up to RecvOffer's select.
AnswerStart(a) ==
  /\ ansPc[a] = "start"
  /\ GetOrMakeHostsQueue(AnswerHosts)
  /\ aq' = [aq EXCEPT ![a] = HostsQueue(AnswerHosts)]
  /\ ansPc' = [ansPc EXCEPT ![a] = "recvOffer"]
  /\ UNCHANGED <<active, offering, qOf, answererDone, callerDone, callerErr, expired, qClosed,
                 callVars, cur, loopVars, wireVars, srvVars, workVars, histVars>>

\* RecvOffer takes an exchange of its host queue.
RecvOffer(a) ==
  /\ ansPc[a] = "recvOffer"
  /\ \E c \in offering :
       /\ qOf[c] = aq[a]
       /\ offering' = offering \ {c}
       /\ cur' = [cur EXCEPT ![a] = c]
  /\ ansPc' = [ansPc EXCEPT ![a] = "sendInit"]
  /\ UNCHANGED <<hostQueues, nqueues, active, qOf, answererDone, callerDone, callerErr, expired,
                 qClosed, callVars, aq, loopVars, wireVars, srvVars, workVars, histVars>>

\* Answer returns early: RecvOffer, additionalICEServers or the first Send
\* failed, or the server is closed. An offer taken by then is dropped.
AnswerFail(a) ==
  /\ \/ ansPc[a] = "recvOffer" /\ (a \notin up \/ qClosed) /\ NoFault
     \/ ansPc[a] = "sendInit" /\ (IF a \in up THEN Fault ELSE NoFault)
     \/ ansPc[a] = "register" /\ srvClosed /\ NoFault
  /\ ansPc' = [ansPc EXCEPT ![a] = "over"]
  /\ up' = up \ {a}
  /\ UNCHANGED <<queueVars, callVars, aq, cur, loopVars, toAns, toSrv, srvVars, workVars, pastVars>>

AnswerSendInit(a) ==
  /\ ansPc[a] = "sendInit" /\ a \in up
  /\ SendToAnswerer(a, "init")
  /\ ansPc' = [ansPc EXCEPT ![a] = "register"]
  /\ UNCHANGED <<queueVars, callVars, aq, cur, loopVars, toSrv, up, srvVars, workVars, histVars>>

\* callWorkers.Add, atomic with the test of cancelCtx, and the two loops start.
AnswerRegister(a) ==
  /\ ansPc[a] = "register" /\ ~srvClosed
  /\ workers' = workers \cup {a}
  /\ aLoop' = [aLoop EXCEPT ![a] = "loop"] /\ cLoop' = [cLoop EXCEPT ![a] = "loop"]
  /\ ansPc' = [ansPc EXCEPT ![a] = "loops"]
  /\ UNCHANGED <<queueVars, callVars, aq, cur, haveInit, stopped, cancelled, payload, wireVars,
                 srvClosed, closePc, workVars, histVars>>

\* callerLoop: one turn of its select.
CallerLoop(a) ==
  /\ cLoop[a] = "loop"
  /\ \/ /\ OfferCtxDone(a)
        /\ cLoop' = [cLoop EXCEPT ![a] = "end"] /\ UNCHANGED <<upd, toAns>>
     \/ /\ cur[a] \in callerDone
        /\ cLoop' = [cLoop EXCEPT ![a] = "end"]
        /\ IF cur[a] \in callerErr THEN SendToAnswerer(a, "err") ELSE UNCHANGED toAns
        /\ UNCHANGED upd
     \/ /\ upd[cur[a]] = "sending"
        /\ upd' = [upd EXCEPT ![cur[a]] = "idle"]
        /\ SendToAnswerer(a, "upd")
        /\ cLoop' = [cLoop EXCEPT ![a] = IF a \in up THEN "loop" ELSE "end"]
  /\ UNCHANGED <<queueVars, callPc, callCtx, got, result, errSend, ncand, ansPc, aq, cur, aLoop,
                 haveInit, stopped, cancelled, payload, toSrv, up, srvVars, workVars, histVars>>

\* The deferred functions of callerLoop and of its goroutine.
CallerLoopEnd(a) ==
  /\ cLoop[a] = "end"
  /\ IF a \in stopped THEN UNCHANGED toAns ELSE SendToAnswerer(a, "done")
  /\ cLoop' = [cLoop EXCEPT ![a] = "off"]
  /\ workers' = workers \ {a}
  /\ UNCHANGED <<queueVars, callVars, ansPc, aq, cur, aLoop, haveInit, stopped, cancelled, payload,
                 toSrv, up, srvClosed, closePc, workVars, histVars>>

\* answererLoop: server.Recv and the switch on the stage.
AnswererLoopRecv(a) ==
  /\ aLoop[a] = "loop"
  /\ \/ /\ a \notin up
        /\ aLoop' = [aLoop EXCEPT ![a] = "fail"]
        /\ UNCHANGED <<toSrv, haveInit, payload, stopped, cancelled, doneOK>>
     \/ /\ toSrv[a] # <<>>
        /\ toSrv' = [toSrv EXCEPT ![a] = Tail(@)]
        /\ LET x  == Head(toSrv[a])
               ok == (a \in haveInit) = (x \in {"upd", "done"}) \/ x = "err"
           IN  /\ aLoop' = [aLoop EXCEPT ![a] = IF ~ok THEN "fail"
                                                ELSE IF x = "done" THEN "ok" ELSE "respond"]
               /\ haveInit' = IF x = "init" THEN haveInit \cup {a} ELSE haveInit
               /\ payload' = [payload EXCEPT ![a] = x]
               /\ stopped' = IF x = "err" THEN stopped \cup {a} ELSE stopped
               /\ cancelled' = IF x = "err" THEN cancelled \cup {a} ELSE cancelled
               /\ doneOK' = IF ok /\ x = "done" THEN doneOK \cup {cur[a]} ELSE doneOK
  /\ UNCHANGED <<queueVars, callVars, ansPc, aq, cur, cLoop, toAns, up, srvVars, workVars,
                 byGather, silent, faults>>

\* AnswererRespond meets the loop of Call, which passes the answer on to the
\* caller or returns an error: a first response must have the answer, and only
\* the first is looked at for one.
Respond(a) ==
  /\ aLoop[a] = "respond" /\ callPc[cur[a]] = "loop"
  /\ aLoop' = [aLoop EXCEPT ![a] = IF payload[a] = "err" THEN "ok" ELSE "loop"]
  /\ LET c == cur[a]
         noInit == got[c] = <<>> /\ payload[a] # "init"
     IN  \/ /\ payload[a] # "err" /\ ~noInit
            /\ got' = IF payload[a] = "init" /\ got[c] # <<>> THEN got
                      ELSE [got EXCEPT ![c] = Append(@, payload[a])]
            /\ UNCHANGED <<callPc, result>>
         \/ /\ payload[a] = "err" \/ noInit \/ c \in callCtx  \* server.Send fails
            /\ callPc' = [callPc EXCEPT ![c] = "defer"]
            /\ result' = [result EXCEPT ![c] = "err"]
            /\ UNCHANGED got
  /\ UNCHANGED <<queueVars, callCtx, errSend, upd, ncand, ansPc, aq, cur, cLoop, haveInit,
                 stopped, cancelled, payload, wireVars, srvVars, workVars, histVars>>

RespondFail(a) ==
  /\ aLoop[a] = "respond" /\ (SendCtxDone(cur[a]) \/ a \notin up)
  /\ aLoop' = [aLoop EXCEPT ![a] = "fail"]
  /\ UNCHANGED <<queueVars, callVars, ansPc, aq, cur, cLoop, haveInit, stopped, cancelled, payload,
                 wireVars, srvVars, workVars, histVars>>

\* answererLoop has returned: an error cancels the other loop, then AnswererDone.
AnswererLoopEnd(a) ==
  /\ aLoop[a] \in {"ok", "fail"}
  /\ cancelled' = IF aLoop[a] = "fail" THEN cancelled \cup {a} ELSE cancelled
  /\ answererDone' = answererDone \cup {cur[a]}
  /\ aLoop' = [aLoop EXCEPT ![a] = "wait"]
  /\ toSrv' = [toSrv EXCEPT ![a] = <<>>] /\ payload' = [payload EXCEPT ![a] = "init"]
  /\ UNCHANGED <<hostQueues, nqueues, active, offering, qOf, callerDone, callerErr, expired,
                 qClosed, callVars, ansPc, aq, cur, cLoop, haveInit, stopped, toAns, up,
                 srvVars, workVars, histVars>>

\* Answer returns when callerErrCh is closed.
AnswerReturn(a) ==
  /\ aLoop[a] = "wait" /\ cLoop[a] = "off"
  /\ ansPc' = [ansPc EXCEPT ![a] = "over"] /\ aLoop' = [aLoop EXCEPT ![a] = "off"]
  /\ up' = up \ {a}
  /\ UNCHANGED <<queueVars, callVars, aq, cur, cLoop, haveInit, stopped, cancelled, payload, toAns,
                 toSrv, srvVars, workVars, histVars>>

----------------------------------------------------------------------------
(* webrtcSignalingAnswerer *)

Trickle(a) == cur[a] \notin NoTrickle

\* answerCtx: the deadline of the offer, Stop, or the end of the attempt.
AnswerCtxDone(a) == ansState # "on" \/ cur[a] \in expired \/ wPc[a] = "over"

\* initSent is closed. The reader exists only after that.
InitSent(a) == wPc[a] \in {"inited", "finish"} \/ a \in readerDone

\* client.Send. What answererLoop will not read any more is not kept.
SendToServer(a, x) ==
  toSrv' = IF a \in up /\ (ansPc[a] = "register" \/ aLoop[a] \in {"loop", "respond"})
           THEN [toSrv EXCEPT ![a] = Append(@, x)] ELSE toSrv

\* sendDone and sendError share one sync.Once.
SendOnce(a, x) ==
  /\ sentDone' = sentDone \cup {a}
  /\ IF a \in sentDone THEN UNCHANGED toSrv ELSE SendToServer(a, x)

AnswererStart ==
  /\ ansState = "new" /\ ansState' = "on"
  /\ UNCHANGED <<queueVars, callVars, ansVars, wireVars, srvVars, wPc, sentDone, readerDone, wcand,
                 pend, gathering, histVars>>

\* Stop cancels closeCtx, and with it every Answer stream, ...
AnswererStop ==
  /\ ansState = "on" /\ Fault
  /\ ansState' = "stopping" /\ up' = {}
  /\ UNCHANGED <<queueVars, callVars, ansVars, toAns, toSrv, srvVars, wPc, sentDone, readerDone,
                 wcand, pend, gathering, pastVars>>

\* ... and waits for bgWorkers.
AnswererStopped ==
  /\ ansState = "stopping"
  /\ \A a \in Attempts : wPc[a] \in {"idle", "over"} /\ pend[a] = 0 /\ gathering[a] # "ending"
  /\ ansState' = "stopped"
  /\ UNCHANGED <<queueVars, callVars, ansVars, wireVars, srvVars, wPc, sentDone, readerDone, wcand,
                 pend, gathering, histVars>>

\* A worker opens an Answer stream. Attempts are numbered in the order they start.
WOpen(a) ==
  /\ ansState = "on" /\ wPc[a] = "idle" /\ \A b \in Attempts : b < a => wPc[b] # "idle"
  /\ Cardinality({b \in Attempts : wPc[b] \notin {"idle", "over"}}) < MaxAnswerers
  /\ wPc' = [wPc EXCEPT ![a] = "recv"] /\ ansPc' = [ansPc EXCEPT ![a] = "start"]
  /\ up' = up \cup {a}
  /\ UNCHANGED <<queueVars, callVars, aq, cur, loopVars, toAns, toSrv, srvVars, ansState, sentDone,
                 readerDone, wcand, pend, gathering, histVars>>

\* client.Recv: the init stage, or the end of the stream.
WRecv(a) ==
  /\ wPc[a] = "recv"
  /\ \/ /\ toAns[a] # <<>> /\ Head(toAns[a]) = "init"
        /\ toAns' = [toAns EXCEPT ![a] = Tail(@)] /\ wPc' = [wPc EXCEPT ![a] = "connect"]
     \/ a \notin up /\ wPc' = [wPc EXCEPT ![a] = "over"] /\ UNCHANGED toAns
  /\ UNCHANGED <<queueVars, callVars, ansVars, toSrv, up, srvVars, ansState, sentDone, readerDone,
                 wcand, pend, gathering, histVars>>

\* OnICECandidate: a goroutine for each candidate, ...
WGather(a) ==
  /\ wPc[a] \in {"connect", "inited", "finish"} /\ Trickle(a) /\ ~AnswerCtxDone(a)
  /\ gathering[a] = "on" /\ wcand[a] < MaxCands
  /\ wcand' = [wcand EXCEPT ![a] = @ + 1] /\ pend' = [pend EXCEPT ![a] = @ + 1]
  /\ UNCHANGED <<queueVars, callVars, ansVars, wireVars, srvVars, ansState, wPc, sentDone,
                 readerDone, gathering, histVars>>

\* ... and one for the end of gathering.
WGatherEnd(a) ==
  /\ wPc[a] \in {"connect", "inited", "finish"} /\ Trickle(a) /\ ~AnswerCtxDone(a)
  /\ gathering[a] = "on" /\ gathering' = [gathering EXCEPT ![a] = "ending"]
  /\ UNCHANGED <<queueVars, callVars, ansVars, wireVars, srvVars, ansState, wPc, sentDone,
                 readerDone, wcand, pend, histVars>>

\* Mutant: a candidate is sent without waiting for initSent.
WCandEarly(a) ==
  /\ pend[a] > 0
  /\ SendToServer(a, "upd")
  /\ pend' = [pend EXCEPT ![a] = @ - 1]
  /\ UNCHANGED <<queueVars, callVars, ansVars, toAns, up, srvVars, ansState, wPc, sentDone,
                 readerDone, wcand, gathering, histVars>>

\* The goroutine of a candidate sends it after initSent, or sees answerCtx done.
WCand(a) ==
  /\ pend[a] > 0
  /\ \/ /\ InitSent(a)
        /\ IF a \in up THEN SendToServer(a, "upd") /\ UNCHANGED sentDone ELSE SendOnce(a, "err")
     \/ AnswerCtxDone(a) /\ UNCHANGED <<toSrv, sentDone>>
  /\ pend' = [pend EXCEPT ![a] = @ - 1]
  /\ UNCHANGED <<queueVars, callVars, ansVars, toAns, up, srvVars, ansState, wPc, readerDone, wcand,
                 gathering, histVars>>

\* The goroutine of the last callback waits for pendingCandidates and sends done.
WGathered(a) ==
  /\ gathering[a] = "ending"
  /\ \/ /\ InitSent(a) /\ pend[a] = 0
        /\ SendOnce(a, "done")
        /\ byGather' = IF a \in sentDone THEN byGather ELSE byGather \cup {a}
     \/ AnswerCtxDone(a) /\ UNCHANGED <<toSrv, sentDone, byGather>>
  /\ gathering' = [gathering EXCEPT ![a] = "off"]
  /\ UNCHANGED <<queueVars, callVars, ansVars, toAns, up, srvVars, ansState, wPc, readerDone, wcand,
                 pend, doneOK, silent, faults>>

\* connect: the answer is sent once there is one host candidate.
WInit(a) ==
  /\ wPc[a] = "connect" /\ a \in up /\ (Trickle(a) => wcand[a] > 0)
  /\ SendToServer(a, "init")
  /\ wPc' = [wPc EXCEPT ![a] = "inited"]
  /\ UNCHANGED <<queueVars, callVars, ansVars, toAns, up, srvVars, ansState, sentDone, readerDone,
                 wcand, pend, gathering, histVars>>

\* No peer connection or data channel, an offer that cannot be decoded or set,
\* or the attempt over while a connection without trickle gathers candidates.
NewPeerConnectionForServerFails(a) ==
  \/ Fault
  \/ ~Trickle(a) /\ AnswerCtxDone(a) /\ NoFault

\* connect returns an error that it reports.
WConnectError(a) ==
  /\ wPc[a] = "connect"
  /\ NewPeerConnectionForServerFails(a)
  /\ SendOnce(a, "err")
  /\ wPc' = [wPc EXCEPT ![a] = "over"]
  /\ UNCHANGED <<queueVars, callVars, ansVars, toAns, up, srvVars, ansState, readerDone, wcand,
                 pend, gathering, pastVars>>

\* connect returns an error that it does not report: CreateAnswer or
\* SetLocalDescription fails, answerCtx is done before there is a host candidate,
\* or the Send of the answer fails.
WConnectSilent(a) ==
  /\ wPc[a] = "connect"
  /\ \/ Fault
     \/ ((Trickle(a) /\ AnswerCtxDone(a)) \/ a \notin up) /\ NoFault
  /\ wPc' = [wPc EXCEPT ![a] = "over"] /\ silent' = silent \cup {a}
  /\ UNCHANGED <<queueVars, callVars, ansVars, wireVars, srvVars, ansState, sentDone, readerDone,
                 wcand, pend, gathering, doneOK, byGather>>

\* Mutant: the reader does not notice the end of the stream.
WReadNoEnd(a) ==
  /\ wPc[a] \in {"inited", "finish"} /\ Trickle(a) /\ a \notin readerDone /\ toAns[a] # <<>>
  /\ toAns' = [toAns EXCEPT ![a] = Tail(@)]
  /\ readerDone' = IF Head(toAns[a]) = "upd" THEN readerDone ELSE readerDone \cup {a}
  /\ IF Head(toAns[a]) = "err" THEN SendOnce(a, "err") ELSE UNCHANGED <<toSrv, sentDone>>
  /\ UNCHANGED <<queueVars, callVars, ansVars, up, srvVars, ansState, wPc, wcand, pend, gathering,
                 histVars>>

\* The goroutine that reads the stream after init.
WRead(a) ==
  /\ wPc[a] \in {"inited", "finish"} /\ Trickle(a) /\ a \notin readerDone
  /\ \/ /\ a \notin up
        /\ readerDone' = readerDone \cup {a} /\ NoFault /\ UNCHANGED <<toAns, toSrv, sentDone>>
     \/ /\ toAns[a] # <<>> /\ toAns' = [toAns EXCEPT ![a] = Tail(@)]
        /\ readerDone' = IF Head(toAns[a]) = "upd" THEN readerDone ELSE readerDone \cup {a}
        /\ IF Head(toAns[a]) = "err" THEN SendOnce(a, "err") ELSE UNCHANGED <<toSrv, sentDone>>
        /\ NoFault
     \/ /\ Fault /\ toAns[a] # <<>> /\ Head(toAns[a]) = "upd"  \* AddICECandidate
        /\ toAns' = [toAns EXCEPT ![a] = Tail(@)]
        /\ readerDone' = readerDone \cup {a} /\ SendOnce(a, "err")
  /\ UNCHANGED <<queueVars, callVars, ansVars, up, srvVars, ansState, wPc, wcand, pend, gathering,
                 pastVars>>

\* The data channel is open.
WReady(a) ==
  /\ wPc[a] = "inited"
  /\ SendOnce(a, "done")
  /\ wPc' = [wPc EXCEPT ![a] = "finish"]
  /\ UNCHANGED <<queueVars, callVars, ansVars, toAns, up, srvVars, ansState, readerDone, wcand,
                 pend, gathering, histVars>>

\* Mutant: the server is not told that the attempt timed out.
WTimeoutQuiet(a) ==
  /\ wPc[a] = "inited" /\ AnswerCtxDone(a)
  /\ wPc' = [wPc EXCEPT ![a] = "finish"]
  /\ UNCHANGED <<queueVars, callVars, ansVars, wireVars, srvVars, ansState, sentDone, readerDone,
                 wcand, pend, gathering, histVars>>

WTimeout(a) ==
  /\ wPc[a] = "inited" /\ AnswerCtxDone(a)
  /\ SendOnce(a, "err")
  /\ wPc' = [wPc EXCEPT ![a] = "finish"]
  /\ UNCHANGED <<queueVars, callVars, ansVars, toAns, up, srvVars, ansState, readerDone, wcand,
                 pend, gathering, histVars>>

\* connect waits for the reader.
WOver(a) ==
  /\ wPc[a] = "finish" /\ (Trickle(a) => a \in readerDone)
  /\ wPc' = [wPc EXCEPT ![a] = "over"] /\ toAns' = [toAns EXCEPT ![a] = <<>>]
  /\ UNCHANGED <<queueVars, callVars, ansVars, toSrv, up, srvVars, ansState, sentDone, readerDone,
                 wcand, pend, gathering, histVars>>

----------------------------------------------------------------------------
(* Failures and shutdown *)

\* The gRPC stream of an attempt breaks.
StreamBreaks(a) ==
  /\ a \in up /\ Fault
  /\ up' = up \ {a}
  /\ UNCHANGED <<queueVars, callVars, ansVars, toAns, toSrv, srvVars, workVars, pastVars>>

\* WebRTCSignalingServer.Close
SrvClose ==
  /\ closePc = "no" /\ Fault
  /\ srvClosed' = TRUE /\ closePc' = "wait"
  /\ UNCHANGED <<queueVars, callVars, ansVars, wireVars, workers, workVars, pastVars>>

SrvCloseWait ==
  /\ closePc = "wait" /\ workers = {}
  /\ closePc' = "closed"
  /\ UNCHANGED <<queueVars, callVars, ansVars, wireVars, srvClosed, workers, workVars, histVars>>

\* memoryWebRTCCallQueue.Close, after the signaling server's. Its wait ends at
\* once: the goroutines of SendOfferInit call Done before they do their work.
QueueClose ==
  /\ closePc = "closed" /\ ~qClosed
  /\ qClosed' = TRUE
  /\ UNCHANGED <<hostQueues, nqueues, active, offering, qOf, answererDone, callerDone, callerErr,
                 expired, callVars, ansVars, wireVars, srvVars, workVars, histVars>>

CallStep(c) ==
  OfferGone(c) \/ Expire(c) \/ CallEnd(c) \/ CallDefer(c) \/ CallErrSend(c)

\* What the goroutines of an attempt do by themselves.
AnswerStep(a) ==
  \/ AnswerStart(a) \/ RecvOffer(a) \/ AnswerSendInit(a) \/ AnswerRegister(a)
  \/ CallerLoop(a) \/ CallerLoopEnd(a) \/ AnswererLoopRecv(a) \/ Respond(a) \/ RespondFail(a)
  \/ AnswererLoopEnd(a) \/ AnswerReturn(a)

WorkerStep(a) ==
  WRecv(a) \/ WCand(a) \/ WGathered(a) \/ WInit(a) \/ WTimeout(a) \/ WOver(a)

\* What the program, its deadlines and its ticker do by themselves.
SystemStep ==
  \/ \E c \in Calls : CallStep(c) \/ UpdateTimeout(c)
  \/ \E a \in Attempts :
       AnswerStep(a) \/ AnswerFail(a) \/ WorkerStep(a) \/ WRead(a) \/ WConnectError(a)
         \/ WConnectSilent(a)
  \/ Janitor \/ AnswererStopped \/ SrvCloseWait

\* What the caller, the gatherer, the network and the operator may do.
EnvironmentStep ==
  \/ \E c \in Calls : CallStart(c) \/ CallCancel(c) \/ UpdateCandidate(c) \/ UpdateDone(c)
  \/ \E a \in Attempts : WOpen(a) \/ WGather(a) \/ WGatherEnd(a) \/ WReady(a) \/ StreamBreaks(a)
  \/ AnswererStart \/ AnswererStop \/ SrvClose \/ QueueClose

Next == SystemStep \/ EnvironmentStep

\* The program does not stop while one of its goroutines can run, a deadline is
\* to come or the ticker has something to sweep. No goroutine can be passed over
\* for ever by this: every one of them takes finitely many steps for a call.
Fairness == WF_vars(SystemStep)

Spec == Init /\ [][Next]_vars /\ Fairness

----------------------------------------------------------------------------
(* Properties *)

Stages == {"init", "upd", "done", "err"}

\* Every variable stays in its domain; a handler past RecvOffer has an offer.
TypeOK ==
  /\ hostQueues \in [Hosts -> 0..nqueues] /\ nqueues \in 0..Cardinality(Hosts)
  /\ qOf \in [Calls -> 0..nqueues] /\ aq \in [Attempts -> 0..nqueues]
  /\ active \subseteq Calls /\ offering \subseteq Calls /\ expired \subseteq Calls
  /\ answererDone \subseteq Calls /\ callerDone \subseteq Calls /\ callerErr \subseteq callerDone
  /\ qClosed \in BOOLEAN /\ srvClosed \in BOOLEAN /\ closePc \in {"no", "wait", "closed"}
  /\ callPc \in [Calls -> {"none", "loop", "defer", "over"}]
  /\ callCtx \subseteq Calls /\ errSend \subseteq Calls
  /\ \A c \in Calls : \A i \in DOMAIN got[c] : got[c][i] \in {"init", "upd"}
  /\ result \in [Calls -> {"none", "ok", "err"}]
  /\ upd \in [Calls -> {"idle", "sending", "done"}] /\ ncand \in [Calls -> 0..CallerCands]
  /\ ansPc \in [Attempts -> {"none", "start", "recvOffer", "sendInit", "register", "loops", "over"}]
  /\ cur \in [Attempts -> Calls \cup {None}]
  /\ \A a \in Attempts : ansPc[a] \in {"sendInit", "register", "loops"} => cur[a] # None
  /\ aLoop \in [Attempts -> {"off", "loop", "respond", "ok", "fail", "wait"}]
  /\ cLoop \in [Attempts -> {"off", "loop", "end"}]
  /\ haveInit \subseteq Attempts /\ stopped \subseteq cancelled /\ cancelled \subseteq Attempts
  /\ payload \in [Attempts -> Stages]
  /\ \A a \in Attempts : \A i \in DOMAIN toAns[a] : toAns[a][i] \in Stages
  /\ \A a \in Attempts : \A i \in DOMAIN toSrv[a] : toSrv[a][i] \in Stages
  /\ up \subseteq Attempts /\ workers \subseteq Attempts
  /\ ansState \in {"new", "on", "stopping", "stopped"}
  /\ wPc \in [Attempts -> {"idle", "recv", "connect", "inited", "finish", "over"}]
  /\ sentDone \subseteq Attempts /\ readerDone \subseteq Attempts
  /\ wcand \in [Attempts -> 0..MaxCands] /\ pend \in [Attempts -> 0..MaxCands]
  /\ gathering \in [Attempts -> {"on", "ending", "off"}]
  /\ doneOK \subseteq Calls
  /\ byGather \subseteq Attempts /\ silent \subseteq Attempts

\* The Answer handler never meets a stage out of order: nothing before init
\* except an error, and init once, although candidates are sent by goroutines of
\* their own while connect is still preparing the answer.
StagesInOrder ==
  \A a \in Attempts : aLoop[a] = "loop" /\ toSrv[a] # <<>> =>
    IF a \in haveInit THEN Head(toSrv[a]) # "init" ELSE Head(toSrv[a]) \in {"init", "err"}

\* Neither does the loop of Call: the response with the answer is the first it
\* takes, and the only one, however the other loop and the workers interleave.
CallStagesInOrder ==
  \A a \in Attempts : aLoop[a] = "respond" /\ callPc[cur[a]] = "loop" =>
    (payload[a] \in {"init", "err"} \/ got[cur[a]] # <<>>)
      /\ (payload[a] = "init" => got[cur[a]] = <<>>)

\* When the answerer ended the exchange because gathering was over, a Call that
\* returned without an error has passed every candidate on: done does not
\* overtake the goroutines that send candidates, and the end of the offer's
\* context does not overtake an answer on its way.
CompleteOnDone ==
  \A a \in Attempts :
    LET c == cur[a]
    IN  /\ a \in byGather /\ c \in doneOK
        /\ result[c] = "ok" /\ c \notin expired /\ ansState = "on"
        => Len(got[c]) = wcand[a] + 1

\* When Close of the signaling server returns, no callerLoop is running, and
\* none starts later.
CloseWaitsForExchanges == closePc = "closed" => \A a \in Attempts : cLoop[a] = "off"

\* The state an exchange is in: its stages come in order and are all passed on
\* by the time it is done, and Close leaves no loop behind.
ExchangeInv ==
  TypeOK /\ StagesInOrder /\ CallStagesInOrder /\ CompleteOnDone /\ CloseWaitsForExchanges

\* An attempt that has concluded, and told the server so, releases its Answer
\* handler: neither loop of the handler waits for the other for ever.
AnswerReturns == \A a \in Attempts : (wPc[a] = "over" /\ a \notin silent) ~> (ansPc[a] = "over")

\* The queue forgets every offer, also those whose caller never sends done.
OffersForgotten == \A c \in Calls : (c \in active) ~> (c \notin active \/ qClosed)

\* Stop of the answerer returns: no goroutine of an attempt waits for something
\* that cancelling closeCtx does not end.
AnswererStopReturns == (ansState = "stopping") ~> (ansState = "stopped")

\* What the answerer's comment on sendDoneErrOnce says: a concluded attempt lets
\* the signaling server release what it holds for it. It does not hold for the
\* attempts in silent.
EveryAttemptReleases == \A a \in Attempts : (wPc[a] = "over") ~> (ansPc[a] = "over")
====
