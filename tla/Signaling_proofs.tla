-------------------------- MODULE Signaling_proofs --------------------------
(***************************************************************************)
(* Proofs about Signaling, for any calls, attempts, hosts and candidates:  *)
(* an offer is handed out once (OfferHandedOnce), stages come in order,    *)
(* everything is passed on by the time an exchange is done, and Close      *)
(* leaves no loop behind (ExchangeInv).                                    *)
(***************************************************************************)
EXTENDS Signaling, FiniteSetTheorems, WellFoundedInduction, TLAPS

----------------------------------------------------------------------------
(* The inductive invariant. *)

\* Queues are numbered without a gap, and each is the queue of some host.
QueueTypes ==
  /\ nqueues \in Nat /\ hostQueues \in [Hosts -> 0..nqueues]
  /\ qOf \in [Calls -> 0..nqueues] /\ aq \in [Attempts -> 0..nqueues]
  /\ \A q \in 1..nqueues : \E h \in Hosts : hostQueues[h] = q

CallTypes ==
  /\ active \subseteq Calls /\ offering \subseteq Calls /\ expired \subseteq Calls
  /\ answererDone \subseteq Calls /\ callerDone \subseteq Calls /\ callerErr \subseteq callerDone
  /\ callPc \in [Calls -> {"none", "loop", "defer", "over"}]
  /\ callCtx \subseteq Calls /\ errSend \subseteq Calls /\ got \in [Calls -> Seq({"init", "upd"})]
  /\ result \in [Calls -> {"none", "ok", "err"}]
  /\ upd \in [Calls -> {"idle", "sending", "done"}] /\ ncand \in [Calls -> 0..CallerCands]
  /\ doneOK \subseteq Calls

AnswerTypes ==
  /\ ansPc \in [Attempts -> {"none", "start", "recvOffer", "sendInit", "register", "loops", "over"}]
  /\ cur \in [Attempts -> Calls \cup {None}]
  /\ aLoop \in [Attempts -> {"off", "loop", "respond", "ok", "fail", "wait"}]
  /\ cLoop \in [Attempts -> {"off", "loop", "end"}]
  /\ haveInit \subseteq Attempts /\ stopped \subseteq cancelled /\ cancelled \subseteq Attempts
  /\ payload \in [Attempts -> Stages]
  /\ toAns \in [Attempts -> Seq(Stages)] /\ toSrv \in [Attempts -> Seq(Stages)]
  /\ up \subseteq Attempts /\ workers \subseteq Attempts
  /\ qClosed \in BOOLEAN /\ srvClosed \in BOOLEAN /\ closePc \in {"no", "wait", "closed"}

WorkerTypes ==
  /\ ansState \in {"new", "on", "stopping", "stopped"}
  /\ wPc \in [Attempts -> {"idle", "recv", "connect", "inited", "finish", "over"}]
  /\ sentDone \subseteq Attempts /\ readerDone \subseteq Attempts
  /\ wcand \in [Attempts -> 0..MaxCands] /\ pend \in [Attempts -> 0..MaxCands]
  /\ gathering \in [Attempts -> {"on", "ending", "off"}]
  /\ byGather \subseteq Attempts /\ silent \subseteq Attempts

Types == QueueTypes /\ CallTypes /\ AnswerTypes /\ WorkerTypes

\* callWorkers counts every callerLoop, and none starts once Close has begun.
CloseOK ==
  /\ closePc # "no" => srvClosed
  /\ closePc = "closed" => workers = {}
  /\ \A a \in Attempts : cLoop[a] # "off" => a \in workers

\* An offer is taken at most once, and nothing is known of one that was not.
OfferOK(c) ==
  /\ callPc[c] = "none" => c \notin offering /\ \A a \in Attempts : cur[a] # c
  /\ callPc[c] \in {"none", "loop"} => result[c] = "none"
  /\ c \in offering => \A a \in Attempts : cur[a] # c
  /\ (\A a \in Attempts : cur[a] # c) => got[c] = <<>> /\ c \notin doneOK

OneHolder == \A a, b \in Attempts : cur[a] = cur[b] /\ cur[a] # None => a = b

\* The handler has not sent the offer to the worker.
Early(a) == ansPc[a] \in {"none", "start", "recvOffer", "sendInit"}

\* answererLoop reads the stream, or is about to.
Live(a) == ansPc[a] = "register" \/ aLoop[a] \in {"loop", "respond"}

\* Where handler and worker of an attempt are.
PhaseOK(a) ==
  /\ wPc[a] = "idle" => ansPc[a] = "none"
  /\ ansState = "new" => wPc[a] = "idle"
  /\ Early(a) => wPc[a] \in {"idle", "recv", "over"} /\ toAns[a] = <<>>
  /\ ansPc[a] \in {"none", "start", "recvOffer"} => cur[a] = None
  /\ ansPc[a] \in {"sendInit", "register", "loops"} => cur[a] # None
  /\ aLoop[a] # "off" \/ cLoop[a] # "off" => ansPc[a] = "loops"

\* Nothing is on the stream to the server, or passed on, before the answer.
BeforeInit(a) ==
  Early(a) \/ wPc[a] \in {"idle", "recv", "connect"} =>
    /\ toSrv[a] = <<>> /\ a \notin haveInit \cup sentDone \cup readerDone \cup byGather
    /\ aLoop[a] \notin {"respond", "ok"}
    /\ cur[a] # None => got[cur[a]] = <<>> /\ cur[a] \notin doneOK

\* Candidates and the goroutines that send them.
GatherOK(a) ==
  /\ pend[a] <= wcand[a]
  /\ Early(a) \/ wPc[a] \in {"idle", "recv"} => wcand[a] = 0 /\ gathering[a] = "on"
  /\ wPc[a] = "connect" /\ ansState = "on" /\ cur[a] \notin expired => pend[a] = wcand[a]
  /\ wPc[a] = "finish" => a \in sentDone
  /\ a \in readerDone => wPc[a] \in {"inited", "finish", "over"}
  /\ a \in readerDone /\ wPc[a] = "over" => a \in sentDone
  /\ a \in byGather => /\ a \in sentDone /\ gathering[a] = "off" /\ pend[a] = 0

\* What is on the stream to the server.
StreamOK(a) ==
  /\ \A i \in 1..Len(toSrv[a]) : toSrv[a][i] = "init" => i = 1 /\ a \notin haveInit
  /\ toSrv[a] # <<>> /\ a \notin haveInit => toSrv[a][1] = "init" \/ toSrv[a] = <<"err">>
  /\ InitSent(a) /\ Live(a) /\ a \notin haveInit => toSrv[a] # <<>> /\ toSrv[a][1] = "init"
  /\ aLoop[a] = "respond" => payload[a] # "done"
  /\ aLoop[a] = "respond" /\ payload[a] = "err" => a \in sentDone
  /\ \A i \in 1..Len(toSrv[a]) : toSrv[a][i] \in {"done", "err"} => a \in sentDone
  /\ cur[a] \in doneOK => a \in sentDone /\ ~Live(a)

\* The response that waits for the loop of Call.
Responding(a) == IF aLoop[a] = "respond" THEN 1 ELSE 0

\* Nothing has cut the exchange short.
Undisturbed(a) ==
  cur[a] # None /\ ansState = "on" /\ cur[a] \notin expired /\ result[cur[a]] # "err"

\* Every candidate is counted, on the stream, at the handler or with the caller.
CountOK(a) ==
  Undisturbed(a) =>
    /\ wPc[a] = "inited" /\ a \notin sentDone /\ Live(a) =>
         Len(got[cur[a]]) + Responding(a) + Len(toSrv[a]) = 1 + (wcand[a] - pend[a])
    /\ a \in byGather /\ Live(a) /\ (\E i \in 1..Len(toSrv[a]) : toSrv[a][i] = "done") =>
         /\ \A i \in 1..Len(toSrv[a]) : toSrv[a][i] \in {"done", "err"} => i = Len(toSrv[a])
         /\ aLoop[a] = "respond" => payload[a] # "err"
         /\ Len(got[cur[a]]) + Responding(a) + Len(toSrv[a]) = 2 + wcand[a]
    /\ a \in byGather /\ cur[a] \in doneOK => Len(got[cur[a]]) = 1 + wcand[a]

\* The loop of Call has the answer once answererLoop has passed it on.
ResponseOK(a) ==
  /\ a \in haveInit => ansPc[a] \in {"loops", "over"}
  /\ aLoop[a] = "respond" /\ payload[a] # "err" => a \in haveInit
  /\ cur[a] # None /\ callPc[cur[a]] = "loop" =>
       /\ a \notin haveInit => got[cur[a]] = <<>>
       /\ aLoop[a] = "respond" => (payload[a] = "init" <=> got[cur[a]] = <<>>) \/ payload[a] = "err"
       /\ aLoop[a] = "loop" /\ a \in haveInit => got[cur[a]] # <<>>

AttemptOK(a) == PhaseOK(a) /\ BeforeInit(a) /\ GatherOK(a) /\ StreamOK(a) /\ CountOK(a)

Inv ==
  /\ Types /\ CloseOK /\ OneHolder
  /\ \A c \in Calls : OfferOK(c)
  /\ \A a \in Attempts : AttemptOK(a) /\ ResponseOK(a)

----------------------------------------------------------------------------
(* Host queues. *)

\* A set of positions of a sequence has a last one.
LEMMA LastOf ==
  ASSUME NEW n \in Nat, NEW S, S \subseteq 1..n, S # {}
  PROVE  \E i \in S : \A j \in S : j <= i
<1>1. PICK T : T = {m \in Nat : n - m \in S}
  OBVIOUS
<1>2. T \subseteq Nat /\ T # {}
  <2>1. PICK i \in S : TRUE
    OBVIOUS
  <2>2. n - i \in Nat /\ n - (n - i) = i
    OBVIOUS
  <2> QED
    BY <1>1, <2>1, <2>2
<1>3. PICK x \in T : \A y \in T : ~(<<y, x>> \in OpToRel(<, Nat))
  BY <1>2, NatLessThanWellFounded, WFMin
<1>4. ASSUME NEW u \in Nat, NEW v \in Nat, u < v PROVE <<u, v>> \in OpToRel(<, Nat)
  <2>1. <<u, v>> \in Nat \X Nat /\ <<u, v>>[1] = u /\ <<u, v>>[2] = v
    OBVIOUS
  <2>2. <<u, v>>[1] < <<u, v>>[2]
    BY <1>4, <2>1
  <2> QED
    BY <2>1, <2>2, Zenon DEF OpToRel
<1>5. x \in Nat /\ \A y \in T : ~(y < x)
  BY <1>2, <1>3, <1>4, Zenon
<1>6. n - x \in S
  BY <1>1, <1>3
<1>7. ASSUME NEW j \in S PROVE j <= n - x
  <2>1. n - j \in Nat /\ n - (n - j) = j
    OBVIOUS
  <2>2. n - j \in T
    BY <1>1, <2>1
  <2>3. ~(n - j < x)
    BY <1>5, <2>2
  <2> QED
    BY <1>5, <2>1, <2>3
<1> QED
  BY <1>6, <1>7

\* getOrMakeHostsQueue returns a queue in use, or the next one when none of the
\* hosts has a queue.
LEMMA HostsQueueIs ==
  ASSUME QueueTypes, NEW hs \in Seq(Hosts)
  PROVE  \/ HostsQueue(hs) \in 1..nqueues
         \/ HostsQueue(hs) = nqueues + 1 /\ \A i \in DOMAIN hs : hostQueues[hs[i]] = 0
<1>1. PICK have : have = {i \in DOMAIN hs : hostQueues[hs[i]] # 0}
  OBVIOUS
<1>2. HostsQueue(hs) = IF have = {} THEN nqueues + 1
                       ELSE hostQueues[hs[CHOOSE i \in have : \A j \in have : j <= i]]
  BY <1>1 DEF HostsQueue
<1>3. CASE have = {}
  BY <1>1, <1>2, <1>3
<1>4. CASE have # {}
  <2>1. Len(hs) \in Nat /\ DOMAIN hs = 1..Len(hs) /\ have \subseteq 1..Len(hs)
    BY <1>1
  <2>2. \E i \in have : \A j \in have : j <= i
    BY <1>4, <2>1, LastOf
  <2>3. PICK k : k = CHOOSE i \in have : \A j \in have : j <= i
    OBVIOUS
  <2>4. k \in have
    BY <2>2, <2>3
  <2>5. HostsQueue(hs) = hostQueues[hs[k]] /\ hostQueues[hs[k]] # 0 /\ hs[k] \in Hosts
    BY <1>1, <1>2, <1>4, <2>1, <2>3, <2>4
  <2> QED
    BY <2>5 DEF QueueTypes
<1> QED
  BY <1>3, <1>4

\* It keeps the queues numbered without a gap.
LEMMA GetOrMakeKeeps ==
  ASSUME QueueTypes, NEW hs \in Seq(Hosts), hs # <<>>, GetOrMakeHostsQueue(hs)
  PROVE  /\ nqueues' \in Nat /\ nqueues <= nqueues'
         /\ hostQueues' \in [Hosts -> 0..nqueues']
         /\ HostsQueue(hs) \in 0..nqueues'
         /\ \A q \in 1..nqueues' : \E h \in Hosts : hostQueues'[h] = q
<1>1. PICK q : q = HostsQueue(hs)
  OBVIOUS
<1>2. \/ q \in 1..nqueues
      \/ q = nqueues + 1 /\ \A i \in DOMAIN hs : hostQueues[hs[i]] = 0
  BY <1>1, HostsQueueIs
<1>3. /\ hostQueues' = [h \in Hosts |->
           IF hostQueues[h] = 0 /\ \E i \in DOMAIN hs : hs[i] = h THEN q ELSE hostQueues[h]]
      /\ nqueues' = IF q > nqueues THEN nqueues + 1 ELSE nqueues
  BY <1>1 DEF GetOrMakeHostsQueue
<1>4. nqueues' \in Nat /\ nqueues <= nqueues' /\ q \in 0..nqueues'
  BY <1>2, <1>3 DEF QueueTypes
<1>5. hostQueues' \in [Hosts -> 0..nqueues']
  BY <1>3, <1>4 DEF QueueTypes
<1>6. ASSUME NEW p \in 1..nqueues' PROVE \E h \in Hosts : hostQueues'[h] = p
  <2>1. CASE p \in 1..nqueues
    BY <1>3, <2>1 DEF QueueTypes
  <2>2. CASE p \notin 1..nqueues
    <3>1. q = nqueues + 1 /\ p = q /\ \A i \in DOMAIN hs : hostQueues[hs[i]] = 0
      BY <1>2, <1>3, <2>2 DEF QueueTypes
    <3>2. 1 \in DOMAIN hs /\ hs[1] \in Hosts
      OBVIOUS
    <3> QED
      BY <1>3, <3>1, <3>2
  <2> QED
    BY <2>1, <2>2
<1> QED
  BY <1>1, <1>4, <1>5, <1>6

\* There are no more queues than hosts.
LEMMA QueueBound ==
  ASSUME QueueTypes
  PROVE  nqueues \in 0..Cardinality(Hosts)
<1>1. PICK S : S = {h \in Hosts : hostQueues[h] # 0}
  OBVIOUS
<1>2. PICK f : f = [h \in S |-> hostQueues[h]]
  OBVIOUS
<1>3. f \in Surjection(S, 1..nqueues)
  <2>1. f \in [S -> 1..nqueues]
    BY <1>1, <1>2 DEF QueueTypes
  <2>2. ASSUME NEW q \in 1..nqueues PROVE \E h \in S : f[h] = q
    BY <1>1, <1>2 DEF QueueTypes
  <2> QED
    BY <2>1, <2>2 DEF Surjection
<1>4. IsFiniteSet(Hosts)
  BY SignalingAssumption
<1>5. IsFiniteSet(S) /\ Cardinality(S) <= Cardinality(Hosts)
  BY <1>1, <1>4, FS_Subset
<1>6. Cardinality(1..nqueues) <= Cardinality(S)
  BY <1>3, <1>5, FS_Surjection
<1>7. Cardinality(1..nqueues) = nqueues /\ nqueues \in Nat
  <2>1. nqueues \in Nat
    BY DEF QueueTypes
  <2>2. 1 \in Int /\ nqueues \in Int
    BY <2>1
  <2>3. Cardinality(1..nqueues) = IF 1 > nqueues THEN 0 ELSE nqueues - 1 + 1
    BY <2>2, FS_Interval
  <2> QED
    BY <2>1, <2>3
<1>8. Cardinality(Hosts) \in Nat /\ Cardinality(S) \in Nat
  BY <1>4, <1>5, FS_CardinalityType
<1> QED
  BY <1>5, <1>6, <1>7, <1>8

----------------------------------------------------------------------------
(* The steps, by who takes them, and what each group leaves alone. *)

\* Steps of a call: its RPCs, its offer's goroutine and its deadline.
CallAct(c) ==
  \/ CallStart(c) \/ CallCancel(c) \/ CallEnd(c) \/ CallDefer(c) \/ CallErrSend(c)
  \/ UpdateCandidate(c) \/ UpdateTimeout(c) \/ UpdateDone(c) \/ OfferGone(c) \/ Expire(c)

\* Steps of an Answer handler and its two loops.
HandlerAct(a) ==
  \/ AnswerStart(a) \/ RecvOffer(a) \/ AnswerFail(a) \/ AnswerSendInit(a) \/ AnswerRegister(a)
  \/ CallerLoop(a) \/ CallerLoopEnd(a) \/ AnswererLoopRecv(a) \/ Respond(a) \/ RespondFail(a)
  \/ AnswererLoopEnd(a) \/ AnswerReturn(a)

\* Steps of a worker of the answerer and the goroutines of its attempt.
WorkerAct(a) ==
  \/ WOpen(a) \/ WRecv(a) \/ WGather(a) \/ WGatherEnd(a) \/ WCand(a) \/ WGathered(a) \/ WInit(a)
  \/ WConnectError(a) \/ WConnectSilent(a) \/ WRead(a) \/ WReady(a) \/ WTimeout(a) \/ WOver(a)

\* Start, Stop, Close, the ticker and broken streams.
OtherAct ==
  \/ Janitor \/ AnswererStart \/ AnswererStop \/ AnswererStopped
  \/ SrvClose \/ SrvCloseWait \/ QueueClose \/ \E a \in Attempts : StreamBreaks(a)

\* A step is one of a call, of the Answer handler of an attempt, of the
\* answerer's worker of an attempt, or another.
LEMMA NextCases ==
  ASSUME Next
  PROVE  \/ \E c \in Calls : CallAct(c)
         \/ \E a \in Attempts : HandlerAct(a)
         \/ \E a \in Attempts : WorkerAct(a)
         \/ OtherAct
<1>1. CASE SystemStep
  BY <1>1, Zenon DEF SystemStep, CallStep, AnswerStep, WorkerStep, CallAct, HandlerAct, WorkerAct, OtherAct
<1>2. CASE EnvironmentStep
  BY <1>2, Zenon DEF EnvironmentStep, CallAct, HandlerAct, WorkerAct, OtherAct
<1> QED
  BY <1>1, <1>2 DEF Next

\* What the steps of a call leave alone.
LEMMA CallFrame ==
  ASSUME NEW c \in Calls, CallAct(c)
  PROVE  /\ UNCHANGED <<aq, ansPc, cur, aLoop, cLoop, haveInit, stopped, cancelled, payload>>
         /\ UNCHANGED <<toAns, toSrv, up, qClosed, srvClosed, closePc, workers>>
         /\ UNCHANGED <<ansState, wPc, sentDone, readerDone, wcand, pend, gathering>>
         /\ UNCHANGED <<doneOK, byGather, silent>>
BY DEF CallAct, CallStart, CallCancel, CallEnd, CallDefer, CallErrSend, UpdateCandidate,
       UpdateTimeout, UpdateDone, OfferGone, Expire, queueVars, ansVars, loopVars, wireVars, srvVars,
       workVars, histVars, pastVars

\* What the steps of an Answer handler leave alone.
LEMMA HandlerFrame ==
  ASSUME NEW a \in Attempts, HandlerAct(a)
  PROVE  /\ UNCHANGED <<qOf, active, callerDone, callerErr, expired, qClosed>>
         /\ UNCHANGED <<callCtx, errSend, ncand, srvClosed, closePc>>
         /\ UNCHANGED <<ansState, wPc, sentDone, readerDone, wcand, pend, gathering>>
         /\ UNCHANGED <<byGather, silent>>
BY DEF HandlerAct, AnswerStart, RecvOffer, AnswerFail, AnswerSendInit, AnswerRegister, CallerLoop,
       CallerLoopEnd, AnswererLoopRecv, Respond, RespondFail, AnswererLoopEnd, AnswerReturn,
       queueVars, callVars, srvVars, workVars, histVars, pastVars

\* What the steps of the answerer's worker leave alone.
LEMMA WorkerFrame ==
  ASSUME NEW a \in Attempts, WorkerAct(a)
  PROVE  /\ UNCHANGED <<hostQueues, nqueues, active, offering, qOf, answererDone, callerDone>>
         /\ UNCHANGED <<callerErr, expired, qClosed, callPc, callCtx, got, result, errSend>>
         /\ UNCHANGED <<upd, ncand, aq, cur, aLoop, cLoop, haveInit, stopped, cancelled, payload>>
         /\ UNCHANGED <<srvClosed, closePc, workers, ansState, doneOK>>
BY DEF WorkerAct, WOpen, WRecv, WGather, WGatherEnd, WCand, WGathered, WInit, WConnectError,
       WConnectSilent, WRead, WReady, WTimeout, WOver,
       queueVars, callVars, ansVars, loopVars, srvVars, histVars, pastVars

\* What the rest leaves alone: Close, the janitor, the answerer's start and stop, a
\* stream that breaks.
LEMMA OtherFrame ==
  ASSUME OtherAct
  PROVE  /\ UNCHANGED <<hostQueues, nqueues, offering, qOf, answererDone, callerDone>>
         /\ UNCHANGED <<callerErr, expired, callPc, callCtx, got, result, errSend, upd, ncand>>
         /\ UNCHANGED <<aq, ansPc, cur, aLoop, cLoop, haveInit, stopped, cancelled, payload>>
         /\ UNCHANGED <<toAns, toSrv, workers, wPc, sentDone, readerDone, wcand, pend, gathering>>
         /\ UNCHANGED <<doneOK, byGather, silent>>
BY DEF OtherAct, Janitor, AnswererStart, AnswererStop, AnswererStopped, SrvClose, SrvCloseWait,
       QueueClose, StreamBreaks, queueVars, callVars, ansVars, loopVars, wireVars, srvVars,
       workVars, histVars, pastVars

----------------------------------------------------------------------------
(* Types. *)

\* A handler whose loops run has an offer.
LEMMA HasOffer ==
  ASSUME Types, NEW a \in Attempts, PhaseOK(a),
         aLoop[a] # "off" \/ cLoop[a] # "off" \/ ansPc[a] \in {"sendInit", "register", "loops"}
  PROVE  cur[a] \in Calls /\ cur[a] # None
BY DEF Types, AnswerTypes, PhaseOK

\* The loop of Call takes every response it is given, or returns an error: its
\* check that the first one has the answer never fails.
LEMMA RespondIs ==
  ASSUME Inv, NEW a \in Attempts, Respond(a)
  PROVE  \/ /\ payload[a] # "err" /\ UNCHANGED <<callPc, result>>
            /\ got' = [got EXCEPT ![cur[a]] = Append(@, payload[a])]
         \/ /\ callPc' = [callPc EXCEPT ![cur[a]] = "defer"]
            /\ result' = [result EXCEPT ![cur[a]] = "err"] /\ got' = got
<1>1. PhaseOK(a) /\ ResponseOK(a) /\ Types /\ aLoop[a] = "respond" /\ callPc[cur[a]] = "loop"
  BY DEF Inv, AttemptOK, Respond
<1>2. cur[a] # None
  BY <1>1, HasOffer
<1>3. payload[a] = "err" \/ ((payload[a] = "init") <=> (got[cur[a]] = <<>>))
  BY <1>1, <1>2 DEF ResponseOK
<1> QED
  BY <1>3 DEF Respond

\* A message on a stream, seen by one attempt.
LEMMA SendType ==
  ASSUME AnswerTypes, NEW a \in Attempts, NEW x \in Stages, SendToServer(a, x)
  PROVE  toSrv' \in [Attempts -> Seq(Stages)]
BY DEF AnswerTypes, SendToServer

\* The stream to the server keeps its type when done or an error is sent on
\* it.
LEMMA OnceType ==
  ASSUME AnswerTypes, NEW a \in Attempts, NEW x \in Stages, SendOnce(a, x)
  PROVE  toSrv' \in [Attempts -> Seq(Stages)]
BY SendType DEF AnswerTypes, SendOnce

\* The stream to the answerer keeps its type when something is sent on it.
LEMMA SendAnsType ==
  ASSUME AnswerTypes, NEW a \in Attempts, NEW x \in Stages, SendToAnswerer(a, x)
  PROVE  toAns' \in [Attempts -> Seq(Stages)]
BY DEF AnswerTypes, SendToAnswerer

\* A step keeps the types of the queues.
LEMMA QueueTypesNext ==
  ASSUME Inv, Next
  PROVE  QueueTypes'
<1>1. CASE UNCHANGED <<hostQueues, nqueues, qOf, aq>>
  BY <1>1 DEF Inv, Types, QueueTypes
<1>2. ASSUME NEW c \in Calls, CallStart(c) PROVE QueueTypes'
  <2>1. PICK hs : hs = <<HostOf[c]>>
    OBVIOUS
  <2>2. hs \in Seq(Hosts) /\ hs # <<>>
    BY <2>1, SignalingAssumption
  <2>3. GetOrMakeHostsQueue(hs)
    BY <1>2, <2>1 DEF CallStart
  <2>4. /\ nqueues' \in Nat /\ nqueues <= nqueues'
        /\ hostQueues' \in [Hosts -> 0..nqueues']
        /\ HostsQueue(hs) \in 0..nqueues'
        /\ \A q \in 1..nqueues' : \E h \in Hosts : hostQueues'[h] = q
    BY <2>2, <2>3, GetOrMakeKeeps DEF Inv, Types
  <2>5. PICK q : q = HostsQueue(hs)
    OBVIOUS
  <2>6. qOf' = [qOf EXCEPT ![c] = q] /\ aq' = aq
    BY <1>2, <2>1, <2>5 DEF CallStart, ansVars
  <2>7. qOf' \in [Calls -> 0..nqueues'] /\ aq' \in [Attempts -> 0..nqueues']
    BY <2>4, <2>5, <2>6 DEF Inv, Types, QueueTypes
  <2> QED
    BY <2>4, <2>7 DEF QueueTypes
<1>3. ASSUME NEW a \in Attempts, AnswerStart(a) PROVE QueueTypes'
  <2>1. AnswerHosts \in Seq(Hosts) /\ AnswerHosts # <<>>
    BY SignalingAssumption
  <2>2. GetOrMakeHostsQueue(AnswerHosts)
    BY <1>3 DEF AnswerStart
  <2>3. /\ nqueues' \in Nat /\ nqueues <= nqueues'
        /\ hostQueues' \in [Hosts -> 0..nqueues']
        /\ HostsQueue(AnswerHosts) \in 0..nqueues'
        /\ \A q \in 1..nqueues' : \E h \in Hosts : hostQueues'[h] = q
    BY <2>1, <2>2, GetOrMakeKeeps DEF Inv, Types
  <2>4. PICK q : q = HostsQueue(AnswerHosts)
    OBVIOUS
  <2>5. aq' = [aq EXCEPT ![a] = q] /\ qOf' = qOf
    BY <1>3, <2>4 DEF AnswerStart
  <2>6. qOf' \in [Calls -> 0..nqueues'] /\ aq' \in [Attempts -> 0..nqueues']
    BY <2>3, <2>4, <2>5 DEF Inv, Types, QueueTypes
  <2> QED
    BY <2>3, <2>6 DEF QueueTypes
<1>4. ASSUME NEW c \in Calls, CallAct(c) PROVE QueueTypes'
  <2>1. CASE CallStart(c)
    BY <1>2, <2>1
  <2>2. CASE ~CallStart(c)
    <3>1. UNCHANGED <<hostQueues, nqueues, qOf>>
      BY <1>4, <2>2 DEF CallAct, CallCancel, CallEnd, CallDefer, CallErrSend, UpdateCandidate,
         UpdateTimeout, UpdateDone, OfferGone, Expire, queueVars
    <3> QED
      BY <1>1, <1>4, <3>1, CallFrame
  <2> QED
    BY <2>1, <2>2
<1>5. ASSUME NEW a \in Attempts, HandlerAct(a) PROVE QueueTypes'
  <2>1. CASE AnswerStart(a)
    BY <1>3, <2>1
  <2>2. CASE ~AnswerStart(a)
    <3>1. UNCHANGED <<hostQueues, nqueues, qOf, aq>>
      BY <1>5, <2>2 DEF HandlerAct, RecvOffer, AnswerFail, AnswerSendInit, AnswerRegister,
         CallerLoop, CallerLoopEnd, AnswererLoopRecv, Respond, RespondFail, AnswererLoopEnd,
         AnswerReturn, queueVars
    <3> QED
      BY <1>1, <3>1
  <2> QED
    BY <2>1, <2>2
<1> QED
  BY <1>1, <1>4, <1>5, NextCases, WorkerFrame, OtherFrame

\* A step keeps the types of the calls.
LEMMA CallTypesNext ==
  ASSUME Inv, Next
  PROVE  CallTypes'
<1> USE DEF Inv, Types, CallTypes
<1>1. ASSUME NEW c \in Calls, CallAct(c) PROVE CallTypes'
  <2>1. doneOK' = doneOK
    BY <1>1, CallFrame
  <2>2. CASE CallStart(c) \/ CallCancel(c) \/ CallEnd(c) \/ CallDefer(c)
    BY <2>1, <2>2 DEF CallStart, CallCancel, CallEnd, CallDefer, queueVars
  <2>3. CASE CallErrSend(c) \/ UpdateTimeout(c) \/ OfferGone(c) \/ Expire(c)
    BY <2>1, <2>3 DEF CallErrSend, UpdateTimeout, OfferGone, Expire, SendOfferError, queueVars,
       callVars
  <2>4. CASE UpdateCandidate(c)
    BY <2>1, <2>4, SignalingAssumption DEF UpdateCandidate, queueVars
  <2>5. CASE UpdateDone(c)
    BY <2>1, <2>5 DEF UpdateDone, SendOfferError
  <2> QED
    BY <1>1, <2>2, <2>3, <2>4, <2>5 DEF CallAct
<1>2. ASSUME NEW a \in Attempts, HandlerAct(a) PROVE CallTypes'
  <2>1. UNCHANGED <<active, callerDone, callerErr, expired, callCtx, errSend, ncand>>
    BY <1>2, HandlerFrame
  <2>2. CASE UNCHANGED <<offering, answererDone, callPc, got, result, upd, doneOK>>
    BY <2>1, <2>2
  <2>3. CASE RecvOffer(a)
    BY <2>1, <2>3 DEF RecvOffer, callVars, histVars
  <2>4. CASE CallerLoop(a)
    <3>1. UNCHANGED <<offering, answererDone, callPc, got, result, doneOK>>
      BY <2>4 DEF CallerLoop, queueVars, histVars
    <3>2. cur[a] \in Calls
      BY <2>4, HasOffer DEF CallerLoop, AttemptOK
    <3>3. upd' = upd \/ upd' = [upd EXCEPT ![cur[a]] = "idle"]
      BY <2>4 DEF CallerLoop
    <3>4. upd' \in [Calls -> {"idle", "sending", "done"}]
      BY <3>2, <3>3
    <3> QED
      BY <2>1, <3>1, <3>4
  <2>5. CASE AnswererLoopRecv(a)
    <3>1. UNCHANGED <<offering, answererDone, callPc, got, result, upd>>
      BY <2>5 DEF AnswererLoopRecv, queueVars, callVars
    <3>2. cur[a] \in Calls
      BY <2>5, HasOffer DEF AnswererLoopRecv, AttemptOK
    <3>3. doneOK' = doneOK \/ doneOK' = doneOK \cup {cur[a]}
      BY <2>5 DEF AnswererLoopRecv
    <3> QED
      BY <2>1, <3>1, <3>2, <3>3
  <2>6. CASE Respond(a)
    <3>1. UNCHANGED <<offering, answererDone, upd, doneOK>>
      BY <2>6 DEF Respond, queueVars, histVars
    <3>2. cur[a] \in Calls /\ payload[a] \in {"init", "upd", "err"}
      BY <2>6, HasOffer DEF Respond, AttemptOK, AnswerTypes, StreamOK, Stages
    <3>3. \/ /\ payload[a] # "err" /\ UNCHANGED <<callPc, result>>
             /\ got' = [got EXCEPT ![cur[a]] = Append(@, payload[a])]
          \/ /\ callPc' = [callPc EXCEPT ![cur[a]] = "defer"]
             /\ result' = [result EXCEPT ![cur[a]] = "err"] /\ got' = got
      BY <2>6, RespondIs
    <3>4. /\ callPc' \in [Calls -> {"none", "loop", "defer", "over"}]
          /\ result' \in [Calls -> {"none", "ok", "err"}]
      BY <3>2, <3>3
    <3>5. got' \in [Calls -> Seq({"init", "upd"})]
      <4>1. CASE payload[a] # "err"
        <5>1. payload[a] \in {"init", "upd"} /\ got[cur[a]] \in Seq({"init", "upd"})
          BY <3>2, <4>1
        <5>2. Append(got[cur[a]], payload[a]) \in Seq({"init", "upd"})
          BY <5>1
        <5> QED
          BY <3>3, <5>2
      <4> QED
        BY <3>3, <4>1
    <3> QED
      BY <2>1, <3>1, <3>4, <3>5
  <2>7. CASE AnswererLoopEnd(a)
    <3>1. UNCHANGED <<offering, callPc, got, result, upd, doneOK>>
      BY <2>7 DEF AnswererLoopEnd, callVars, histVars
    <3>2. cur[a] \in Calls
      BY <2>7, HasOffer DEF AnswererLoopEnd, AttemptOK
    <3> QED
      BY <2>1, <2>7, <3>1, <3>2 DEF AnswererLoopEnd
  <2>8. CASE \/ AnswerStart(a) \/ AnswerFail(a) \/ AnswerSendInit(a) \/ AnswerRegister(a)
             \/ CallerLoopEnd(a) \/ RespondFail(a) \/ AnswerReturn(a)
    BY <2>2, <2>8 DEF AnswerStart, AnswerFail, AnswerSendInit, AnswerRegister, CallerLoopEnd,
       RespondFail, AnswerReturn, queueVars, callVars, histVars, pastVars
  <2> QED
    BY <1>2, <2>3, <2>4, <2>5, <2>6, <2>7, <2>8 DEF HandlerAct
<1>3. ASSUME NEW a \in Attempts, WorkerAct(a) PROVE CallTypes'
  BY <1>3, WorkerFrame
<1>4. ASSUME OtherAct PROVE CallTypes'
  <2>1. active' \subseteq active
    BY <1>4 DEF OtherAct, Janitor, AnswererStart, AnswererStop, AnswererStopped, SrvClose,
       SrvCloseWait, QueueClose, StreamBreaks, queueVars
  <2> QED
    BY <1>4, <2>1, OtherFrame
<1> QED
  BY <1>1, <1>2, <1>3, <1>4, NextCases

\* A step keeps the types of the Answer handlers.
LEMMA AnswerTypesNext ==
  ASSUME Inv, Next
  PROVE  AnswerTypes'
<1>0. AnswerTypes
  BY DEF Inv, Types
<1>1. ASSUME NEW c \in Calls, CallAct(c) PROVE AnswerTypes'
  BY <1>0, <1>1, CallFrame DEF AnswerTypes
<1>2. ASSUME NEW a \in Attempts, HandlerAct(a) PROVE AnswerTypes'
  <2>1. UNCHANGED <<qClosed, srvClosed, closePc>>
    BY <1>2, HandlerFrame
  <2>2. CASE AnswerStart(a) \/ AnswerFail(a)
    BY <1>0, <2>1, <2>2 DEF AnswerStart, AnswerFail, loopVars, wireVars, srvVars, AnswerTypes
  <2>3. CASE RecvOffer(a)
    <3>1. PICK c \in Calls : cur' = [cur EXCEPT ![a] = c]
      BY <2>3 DEF RecvOffer, Inv, Types, CallTypes
    <3> QED
      BY <1>0, <2>1, <2>3, <3>1 DEF RecvOffer, loopVars, wireVars, srvVars, AnswerTypes
  <2>4. CASE AnswerSendInit(a)
    <3>1. toAns' \in [Attempts -> Seq(Stages)]
      BY <1>0, <2>4, SendAnsType DEF AnswerSendInit, Stages
    <3> QED
      BY <1>0, <2>1, <2>4, <3>1 DEF AnswerSendInit, loopVars, srvVars, AnswerTypes
  <2>5. CASE AnswerRegister(a)
    BY <1>0, <2>1, <2>5 DEF AnswerRegister, wireVars, AnswerTypes
  <2>6. CASE CallerLoop(a)
    <3>1. toAns' = toAns \/ SendToAnswerer(a, "err") \/ SendToAnswerer(a, "upd")
      BY <2>6 DEF CallerLoop
    <3>2. toAns' \in [Attempts -> Seq(Stages)]
      BY <1>0, <3>1, SendAnsType DEF Stages, AnswerTypes
    <3>3. cLoop' = [cLoop EXCEPT ![a] = "end"] \/ cLoop' = [cLoop EXCEPT ![a] = "loop"]
      BY <2>6 DEF CallerLoop
    <3> QED
      BY <1>0, <2>1, <2>6, <3>2, <3>3 DEF CallerLoop, srvVars, AnswerTypes
  <2>7. CASE CallerLoopEnd(a)
    <3>1. toAns' = toAns \/ SendToAnswerer(a, "done")
      BY <2>7 DEF CallerLoopEnd
    <3>2. toAns' \in [Attempts -> Seq(Stages)]
      BY <1>0, <3>1, SendAnsType DEF Stages, AnswerTypes
    <3> QED
      BY <1>0, <2>1, <2>7, <3>2 DEF CallerLoopEnd, AnswerTypes
  <2>8. CASE AnswererLoopRecv(a)
    <3>1. UNCHANGED <<ansPc, cur, cLoop, toAns, up, workers>>
      BY <2>8 DEF AnswererLoopRecv, srvVars
    <3>2. \/ aLoop' = [aLoop EXCEPT ![a] = "fail"] \/ aLoop' = [aLoop EXCEPT ![a] = "ok"]
          \/ aLoop' = [aLoop EXCEPT ![a] = "respond"]
      BY <2>8 DEF AnswererLoopRecv
    <3>3. /\ haveInit' \subseteq haveInit \cup {a}
          /\ \/ UNCHANGED <<stopped, cancelled>>
             \/ stopped' = stopped \cup {a} /\ cancelled' = cancelled \cup {a}
      BY <2>8 DEF AnswererLoopRecv
    <3>4. payload' \in [Attempts -> Stages] /\ toSrv' \in [Attempts -> Seq(Stages)]
      <4>1. CASE UNCHANGED <<payload, toSrv>>
        BY <1>0, <4>1 DEF AnswerTypes
      <4>2. CASE /\ toSrv[a] # <<>> /\ toSrv' = [toSrv EXCEPT ![a] = Tail(@)]
                 /\ payload' = [payload EXCEPT ![a] = Head(toSrv[a])]
        <5>1. Head(toSrv[a]) \in Stages /\ Tail(toSrv[a]) \in Seq(Stages)
          BY <1>0, <4>2 DEF AnswerTypes
        <5> QED
          BY <1>0, <4>2, <5>1 DEF AnswerTypes
      <4> QED
        BY <2>8, <4>1, <4>2 DEF AnswererLoopRecv
    <3> QED
      BY <1>0, <2>1, <3>1, <3>2, <3>3, <3>4 DEF AnswerTypes
  <2>9. CASE Respond(a) \/ RespondFail(a)
    BY <1>0, <2>1, <2>9 DEF Respond, RespondFail, wireVars, srvVars, AnswerTypes
  <2>10. CASE AnswererLoopEnd(a)
    <3>1. /\ toSrv' = [toSrv EXCEPT ![a] = <<>>] /\ payload' = [payload EXCEPT ![a] = "init"]
          /\ aLoop' = [aLoop EXCEPT ![a] = "wait"] /\ cancelled' \in {cancelled, cancelled \cup {a}}
          /\ UNCHANGED <<ansPc, cur, cLoop, haveInit, stopped, toAns, up, workers>>
      BY <2>10 DEF AnswererLoopEnd, srvVars
    <3>2. payload' \in [Attempts -> Stages] /\ toSrv' \in [Attempts -> Seq(Stages)]
      BY <1>0, <3>1 DEF AnswerTypes, Stages
    <3>3. stopped' \subseteq cancelled' /\ cancelled' \subseteq Attempts
      BY <1>0, <3>1 DEF AnswerTypes
    <3> QED
      BY <1>0, <2>1, <3>1, <3>2, <3>3 DEF AnswerTypes
  <2>11. CASE AnswerReturn(a)
    BY <1>0, <2>1, <2>11 DEF AnswerReturn, srvVars, AnswerTypes
  <2> QED
    BY <1>2, <2>2, <2>3, <2>4, <2>5, <2>6, <2>7, <2>8, <2>9, <2>10, <2>11 DEF HandlerAct
<1>3. ASSUME NEW a \in Attempts, WorkerAct(a) PROVE AnswerTypes'
  <2>0. /\ UNCHANGED <<cur, aLoop, cLoop, haveInit, stopped, cancelled, payload, workers>>
        /\ UNCHANGED <<qClosed, srvClosed, closePc>>
    BY <1>3, WorkerFrame
  <2>1. /\ ansPc' \in [Attempts -> {"none", "start", "recvOffer", "sendInit", "register", "loops",
                                    "over"}]
        /\ up' \subseteq Attempts
    BY <1>0, <1>3 DEF WorkerAct, WOpen, WRecv, WGather, WGatherEnd, WCand, WGathered, WInit,
       WConnectError, WConnectSilent, WRead, WReady, WTimeout, WOver, ansVars, wireVars, AnswerTypes
  <2>2. \/ toAns' = toAns \/ toAns' = [toAns EXCEPT ![a] = <<>>]
        \/ toAns[a] # <<>> /\ toAns' = [toAns EXCEPT ![a] = Tail(@)]
    BY <1>3 DEF WorkerAct, WOpen, WRecv, WGather, WGatherEnd, WCand, WGathered, WInit,
       WConnectError, WConnectSilent, WRead, WReady, WTimeout, WOver, wireVars
  <2>3. toAns' \in [Attempts -> Seq(Stages)]
    <3>1. toAns \in [Attempts -> Seq(Stages)] /\ toAns[a] \in Seq(Stages) /\ <<>> \in Seq(Stages)
      BY <1>0 DEF AnswerTypes
    <3>2. toAns[a] # <<>> => Tail(toAns[a]) \in Seq(Stages)
      BY <3>1
    <3> QED
      BY <2>2, <3>1, <3>2
  <2>4. \/ toSrv' = toSrv
        \/ \E x \in Stages : SendToServer(a, x) \/ SendOnce(a, x)
    BY <1>3 DEF WorkerAct, WOpen, WRecv, WGather, WGatherEnd, WCand, WGathered, WInit,
       WConnectError, WConnectSilent, WRead, WReady, WTimeout, WOver, wireVars, Stages
  <2>5. toSrv' \in [Attempts -> Seq(Stages)]
    BY <1>0, <2>4, SendType, OnceType DEF AnswerTypes
  <2> QED
    BY <1>0, <2>0, <2>1, <2>3, <2>5 DEF AnswerTypes
<1>4. ASSUME OtherAct PROVE AnswerTypes'
  <2>1. /\ up' \subseteq up /\ qClosed' \in {qClosed, TRUE} /\ srvClosed' \in {srvClosed, TRUE}
        /\ closePc' \in {closePc, "wait", "closed"}
    BY <1>4 DEF OtherAct, Janitor, AnswererStart, AnswererStop, AnswererStopped, SrvClose,
       SrvCloseWait, QueueClose, StreamBreaks, queueVars, wireVars, srvVars
  <2> QED
    BY <1>0, <1>4, <2>1, OtherFrame DEF AnswerTypes
<1> QED
  BY <1>1, <1>2, <1>3, <1>4, NextCases

\* A step keeps the types of the answerer's workers.
LEMMA WorkerTypesNext ==
  ASSUME Inv, Next
  PROVE  WorkerTypes'
<1>0. WorkerTypes
  BY DEF Inv, Types
<1>1. ASSUME NEW c \in Calls, CallAct(c) PROVE WorkerTypes'
  BY <1>0, <1>1, CallFrame DEF WorkerTypes
<1>2. ASSUME NEW a \in Attempts, HandlerAct(a) PROVE WorkerTypes'
  BY <1>0, <1>2, HandlerFrame DEF WorkerTypes
<1>3. ASSUME NEW a \in Attempts, WorkerAct(a) PROVE WorkerTypes'
  <2>1. ansState' = ansState
    BY <1>3, WorkerFrame
  <2>2. wPc' = wPc \/ \E x \in {"recv", "connect", "inited", "finish", "over"} :
                          wPc' = [wPc EXCEPT ![a] = x]
    BY <1>3 DEF WorkerAct, WOpen, WRecv, WGather, WGatherEnd, WCand, WGathered, WInit,
       WConnectError, WConnectSilent, WRead, WReady, WTimeout, WOver
  <2>3. /\ sentDone' \subseteq sentDone \cup {a} /\ readerDone' \subseteq readerDone \cup {a}
        /\ byGather' \subseteq byGather \cup {a} /\ silent' \subseteq silent \cup {a}
    BY <1>3 DEF WorkerAct, WOpen, WRecv, WGather, WGatherEnd, WCand, WGathered, WInit,
       WConnectError, WConnectSilent, WRead, WReady, WTimeout, WOver, SendOnce, histVars, pastVars
  <2>4. gathering' = gathering \/ \E x \in {"ending", "off"} :
                                      gathering' = [gathering EXCEPT ![a] = x]
    BY <1>3 DEF WorkerAct, WOpen, WRecv, WGather, WGatherEnd, WCand, WGathered, WInit,
       WConnectError, WConnectSilent, WRead, WReady, WTimeout, WOver
  <2>5. \/ UNCHANGED <<wcand, pend>>
        \/ /\ wcand[a] < MaxCands /\ wcand' = [wcand EXCEPT ![a] = @ + 1]
           /\ pend' = [pend EXCEPT ![a] = @ + 1]
        \/ pend[a] > 0 /\ wcand' = wcand /\ pend' = [pend EXCEPT ![a] = @ - 1]
    BY <1>3 DEF WorkerAct, WOpen, WRecv, WGather, WGatherEnd, WCand, WGathered, WInit,
       WConnectError, WConnectSilent, WRead, WReady, WTimeout, WOver
  <2>6. pend[a] <= wcand[a]
    BY DEF Inv, AttemptOK, GatherOK
  <2>7. wcand' \in [Attempts -> 0..MaxCands] /\ pend' \in [Attempts -> 0..MaxCands]
    <3>1. /\ MaxCands \in Nat /\ wcand[a] \in 0..MaxCands /\ pend[a] \in 0..MaxCands
          /\ wcand \in [Attempts -> 0..MaxCands] /\ pend \in [Attempts -> 0..MaxCands]
      BY <1>0, SignalingAssumption DEF WorkerTypes
    <3>2. CASE wcand[a] < MaxCands
      <4>1. wcand[a] + 1 \in 0..MaxCands /\ pend[a] + 1 \in 0..MaxCands
        BY <2>6, <3>1, <3>2
      <4>2. pend[a] > 0 => pend[a] - 1 \in 0..MaxCands
        BY <3>1
      <4> QED
        BY <2>5, <3>1, <4>1, <4>2
    <3>3. CASE ~(wcand[a] < MaxCands)
      <4>1. pend[a] > 0 => pend[a] - 1 \in 0..MaxCands
        BY <3>1
      <4> QED
        BY <2>5, <3>1, <3>3, <4>1
    <3> QED
      BY <3>2, <3>3
  <2>8. ansState' \in {"new", "on", "stopping", "stopped"}
    BY <1>0, <2>1 DEF WorkerTypes
  <2>9. /\ wPc' \in [Attempts -> {"idle", "recv", "connect", "inited", "finish", "over"}]
        /\ gathering' \in [Attempts -> {"on", "ending", "off"}]
    BY <1>0, <2>2, <2>4 DEF WorkerTypes
  <2>10. /\ sentDone' \subseteq Attempts /\ readerDone' \subseteq Attempts
         /\ byGather' \subseteq Attempts /\ silent' \subseteq Attempts
    BY <1>0, <2>3 DEF WorkerTypes
  <2> QED
    BY <2>7, <2>8, <2>9, <2>10 DEF WorkerTypes
<1>4. ASSUME OtherAct PROVE WorkerTypes'
  <2>1. ansState' \in {ansState, "on", "stopping", "stopped"}
    BY <1>4 DEF OtherAct, Janitor, AnswererStart, AnswererStop, AnswererStopped, SrvClose,
       SrvCloseWait, QueueClose, StreamBreaks, workVars
  <2> QED
    BY <1>0, <1>4, <2>1, OtherFrame DEF WorkerTypes
<1> QED
  BY <1>1, <1>2, <1>3, <1>4, NextCases

\* A step keeps all types.
LEMMA TypesNext ==
  ASSUME Inv, Next
  PROVE  Types'
BY QueueTypesNext, CallTypesNext, AnswerTypesNext, WorkerTypesNext DEF Types

----------------------------------------------------------------------------
(* Close. *)

\* A step keeps what Close relies on.
LEMMA CloseNext ==
  ASSUME Inv, Next
  PROVE  CloseOK'
<1>0. CloseOK /\ AnswerTypes
  BY DEF Inv, Types
<1>1. CASE UNCHANGED <<closePc, srvClosed, workers, cLoop>>
  BY <1>0, <1>1 DEF CloseOK
<1>2. ASSUME NEW a \in Attempts, HandlerAct(a) PROVE CloseOK'
  <2>1. UNCHANGED <<srvClosed, closePc>>
    BY <1>2, HandlerFrame
  <2>2. CASE AnswerRegister(a)
    BY <1>0, <2>1, <2>2 DEF AnswerRegister, CloseOK, AnswerTypes
  <2>3. CASE CallerLoop(a)
    <3>1. workers' = workers /\ cLoop[a] = "loop"
      BY <2>3 DEF CallerLoop, srvVars
    <3>2. \A b \in Attempts : b # a => cLoop'[b] = cLoop[b]
      BY <1>0, <2>3 DEF CallerLoop, AnswerTypes
    <3> QED
      BY <1>0, <2>1, <3>1, <3>2 DEF CloseOK
  <2>4. CASE CallerLoopEnd(a)
    BY <1>0, <2>1, <2>4 DEF CallerLoopEnd, CloseOK, AnswerTypes
  <2>5. CASE ~(AnswerRegister(a) \/ CallerLoop(a) \/ CallerLoopEnd(a))
    <3>1. UNCHANGED <<workers, cLoop>>
      BY <1>2, <2>5 DEF HandlerAct, AnswerStart, RecvOffer, AnswerFail, AnswerSendInit,
         AnswererLoopRecv, Respond, RespondFail, AnswererLoopEnd, AnswerReturn, loopVars, srvVars
    <3> QED
      BY <1>1, <2>1, <3>1
  <2> QED
    BY <2>2, <2>3, <2>4, <2>5
<1>3. ASSUME OtherAct PROVE CloseOK'
  <2>1. UNCHANGED <<workers, cLoop>>
    BY <1>3, OtherFrame
  <2>2. \/ UNCHANGED <<closePc, srvClosed>>
        \/ srvClosed' = TRUE /\ closePc' = "wait"
        \/ closePc = "wait" /\ workers = {} /\ closePc' = "closed" /\ srvClosed' = srvClosed
    BY <1>3 DEF OtherAct, Janitor, AnswererStart, AnswererStop, AnswererStopped, SrvClose,
       SrvCloseWait, QueueClose, StreamBreaks, srvVars
  <2> QED
    BY <1>0, <2>1, <2>2 DEF CloseOK
<1> QED
  BY <1>1, <1>2, <1>3, NextCases, CallFrame, WorkerFrame

----------------------------------------------------------------------------
(* Offers. *)

\* A step keeps what is said of offers and their holders.
LEMMA OffersNext ==
  ASSUME Inv, Next
  PROVE  OneHolder' /\ \A d \in Calls : OfferOK(d)'
<1>0. OneHolder /\ CallTypes /\ AnswerTypes /\ \A d \in Calls : OfferOK(d)
  BY DEF Inv, Types
<1>1. CASE UNCHANGED <<callPc, offering, cur, result, got, doneOK>>
  BY <1>0, <1>1 DEF OneHolder, OfferOK
<1>2. ASSUME NEW c \in Calls, CallAct(c) PROVE OneHolder' /\ \A d \in Calls : OfferOK(d)'
  <2>1. cur' = cur /\ doneOK' = doneOK
    BY <1>2, CallFrame
  <2>2. OneHolder'
    BY <1>0, <2>1 DEF OneHolder
  <2>3. got' = got
    BY <1>2 DEF CallAct, CallStart, CallCancel, CallEnd, CallDefer, CallErrSend, UpdateCandidate,
       UpdateTimeout, UpdateDone, OfferGone, Expire, callVars
  <2>4. CASE CallStart(c)
    <3>1. offering' = offering \cup {c} /\ callPc' = [callPc EXCEPT ![c] = "loop"] /\ result' = result
      BY <2>4 DEF CallStart
    <3> QED
      BY <1>0, <2>1, <2>2, <2>3, <2>4, <3>1 DEF CallStart, OfferOK, CallTypes
  <2>5. CASE OfferGone(c)
    BY <1>0, <2>1, <2>2, <2>3, <2>5 DEF OfferGone, OfferOK, callVars
  <2>6. CASE CallEnd(c)
    <3>1. /\ callPc[c] = "loop" /\ callPc' = [callPc EXCEPT ![c] = "defer"] /\ offering' = offering
          /\ \/ result' = [result EXCEPT ![c] = "err"] \/ result' = [result EXCEPT ![c] = "ok"]
      BY <2>6 DEF CallEnd, queueVars
    <3> QED
      BY <1>0, <2>1, <2>2, <2>3, <3>1 DEF OfferOK, CallTypes
  <2>7. CASE CallDefer(c)
    BY <1>0, <2>1, <2>2, <2>3, <2>7 DEF CallDefer, OfferOK, CallTypes
  <2>8. CASE ~(CallStart(c) \/ OfferGone(c) \/ CallEnd(c) \/ CallDefer(c))
    <3>1. UNCHANGED <<callPc, offering, result>>
      BY <1>2, <2>8 DEF CallAct, CallCancel, CallErrSend, UpdateCandidate, UpdateTimeout, UpdateDone,
         Expire, queueVars, callVars
    <3> QED
      BY <1>1, <2>1, <2>3, <3>1
  <2> QED
    BY <2>4, <2>5, <2>6, <2>7, <2>8
<1>3. ASSUME NEW a \in Attempts, HandlerAct(a)
      PROVE  OneHolder' /\ \A d \in Calls : OfferOK(d)'
  <2>0. PhaseOK(a) /\ StreamOK(a)
    BY DEF Inv, AttemptOK
  <2>1. CASE RecvOffer(a)
    <3>1. PICK c \in offering : /\ offering' = offering \ {c}
                                /\ cur' = [cur EXCEPT ![a] = c]
      BY <2>1 DEF RecvOffer
    <3>2. UNCHANGED <<callPc, result, got, doneOK>>
      BY <2>1 DEF RecvOffer, callVars, histVars
    <3>3. c \in Calls /\ cur[a] = None /\ c # None /\ \A b \in Attempts : cur[b] # c
      BY <1>0, <2>0, <2>1, SignalingAssumption DEF RecvOffer, CallTypes, OfferOK, PhaseOK
    <3>4. cur'[a] = c /\ \A b \in Attempts : b # a => cur'[b] = cur[b]
      BY <1>0, <3>1 DEF AnswerTypes
    <3>5. OneHolder'
      BY <1>0, <3>3, <3>4 DEF OneHolder
    <3>6. ASSUME NEW d \in Calls PROVE OfferOK(d)'
      <4>1. CASE d = c
        BY <1>0, <3>1, <3>2, <3>4, <4>1 DEF OfferOK
      <4>2. CASE d # c
        <5>1. d # None
          BY SignalingAssumption
        <5>2. (\A b \in Attempts : cur'[b] # d) <=> (\A b \in Attempts : cur[b] # d)
          BY <3>3, <3>4, <4>2, <5>1
        <5>3. d \in offering' <=> d \in offering
          BY <3>1, <4>2
        <5> QED
          BY <1>0, <3>2, <5>2, <5>3 DEF OfferOK
      <4> QED
        BY <4>1, <4>2
    <3> QED
      BY <3>5, <3>6
  <2>2. CASE AnswererLoopRecv(a)
    <3>1. UNCHANGED <<callPc, offering, cur, result, got>>
      BY <2>2 DEF AnswererLoopRecv, queueVars, callVars
    <3>2. doneOK' \subseteq doneOK \cup {cur[a]}
      BY <2>2 DEF AnswererLoopRecv
    <3> QED
      BY <1>0, <3>1, <3>2 DEF OneHolder, OfferOK
  <2>3. CASE Respond(a)
    <3>1. UNCHANGED <<offering, cur, doneOK>> /\ cur[a] \in Calls /\ callPc[cur[a]] = "loop"
      BY <2>0, <2>3, HasOffer DEF Respond, queueVars, histVars, Inv
    <3>2. \/ UNCHANGED <<callPc, result>>
          \/ /\ callPc' = [callPc EXCEPT ![cur[a]] = "defer"]
             /\ result' = [result EXCEPT ![cur[a]] = "err"]
      BY <2>3, RespondIs
    <3>3. got' = got \/ got' = [got EXCEPT ![cur[a]] = Append(@, payload[a])]
      BY <2>3, RespondIs
    <3>4. \A d \in Calls : d # cur[a] => /\ callPc'[d] = callPc[d] /\ result'[d] = result[d]
                                         /\ got'[d] = got[d]
      BY <1>0, <3>1, <3>2, <3>3 DEF CallTypes
    <3>5. \/ callPc'[cur[a]] = "defer"
          \/ callPc'[cur[a]] = "loop" /\ result'[cur[a]] = result[cur[a]]
      BY <1>0, <3>1, <3>2 DEF CallTypes
    <3>6. ASSUME NEW d \in Calls PROVE OfferOK(d)'
      <4>1. CASE d = cur[a]
        BY <1>0, <3>1, <3>5, <4>1 DEF OfferOK
      <4>2. CASE d # cur[a]
        BY <1>0, <3>1, <3>4, <4>2 DEF OfferOK
      <4> QED
        BY <4>1, <4>2
    <3> QED
      BY <1>0, <3>1, <3>6 DEF OneHolder
  <2>4. CASE ~(RecvOffer(a) \/ AnswererLoopRecv(a) \/ Respond(a))
    <3>1. UNCHANGED <<callPc, offering, cur, result, got, doneOK>>
      BY <1>3, <2>4 DEF HandlerAct, AnswerStart, AnswerFail, AnswerSendInit, AnswerRegister,
         CallerLoop, CallerLoopEnd, RespondFail, AnswererLoopEnd, AnswerReturn, queueVars, callVars,
         histVars, pastVars
    <3> QED
      BY <1>1, <3>1
  <2> QED
    BY <2>1, <2>2, <2>3, <2>4
<1> QED
  BY <1>1, <1>2, <1>3, NextCases, WorkerFrame, OtherFrame

----------------------------------------------------------------------------
(* Attempts. *)

\* What AttemptOK(b) says of attempt b is as it was, but that the exchange may
\* be disturbed.
Kept(b) ==
  /\ cur'[b] = cur[b] /\ ansPc'[b] = ansPc[b] /\ aLoop'[b] = aLoop[b] /\ cLoop'[b] = cLoop[b]
  /\ payload'[b] = payload[b] /\ toAns'[b] = toAns[b] /\ toSrv'[b] = toSrv[b] /\ wPc'[b] = wPc[b]
  /\ wcand'[b] = wcand[b] /\ pend'[b] = pend[b] /\ gathering'[b] = gathering[b]
  /\ b \in haveInit' <=> b \in haveInit
  /\ b \in sentDone' <=> b \in sentDone
  /\ b \in readerDone' <=> b \in readerDone
  /\ b \in byGather' <=> b \in byGather
  /\ cur[b] \in doneOK' <=> cur[b] \in doneOK
  /\ cur[b] # None => got'[cur[b]] = got[cur[b]]
  /\ cur[b] \in expired => cur[b] \in expired'
  /\ cur[b] # None /\ result[cur[b]] = "err" => result'[cur[b]] = "err"
  /\ cur[b] # None /\ callPc'[cur[b]] = "loop" => callPc[cur[b]] = "loop"
  /\ ansState' = "on" => ansState = "on"
  /\ ansState' = "new" => ansState = "new"

\* An attempt nothing of which changed keeps its part of the invariant.
LEMMA KeptOK ==
  ASSUME NEW b \in Attempts, AttemptOK(b), Kept(b)
  PROVE  AttemptOK(b)'
<1>1. PhaseOK(b)'
  BY DEF AttemptOK, PhaseOK, Kept, Early
<1>2. BeforeInit(b)'
  BY DEF AttemptOK, BeforeInit, Kept, Early
<1>3. GatherOK(b)'
  BY DEF AttemptOK, GatherOK, Kept, Early
<1>4. StreamOK(b)'
  BY DEF AttemptOK, StreamOK, Kept, Live, InitSent
<1>5. CountOK(b)'
  BY DEF AttemptOK, CountOK, Kept, Live, Undisturbed, Responding
<1> QED
  BY <1>1, <1>2, <1>3, <1>4, <1>5 DEF AttemptOK

\* A step of a call disturbs no attempt.
LEMMA CallKeeps ==
  ASSUME Inv, NEW c \in Calls, CallAct(c), NEW b \in Attempts
  PROVE  Kept(b) /\ AttemptOK(b)'
<1>0. AttemptOK(b) /\ OfferOK(c) /\ CallTypes
  BY DEF Inv, Types
<1>1. got' = got
  BY DEF CallAct, CallStart, CallCancel, CallEnd, CallDefer, CallErrSend, UpdateCandidate,
     UpdateTimeout, UpdateDone, OfferGone, Expire, callVars
<1>2. expired \subseteq expired'
  BY DEF CallAct, CallStart, CallCancel, CallEnd, CallDefer, CallErrSend, UpdateCandidate,
     UpdateTimeout, UpdateDone, OfferGone, Expire, queueVars
<1>3. \/ result' = result
      \/ callPc[c] = "loop" /\ result' = [result EXCEPT ![c] = "err"]
      \/ callPc[c] = "loop" /\ result' = [result EXCEPT ![c] = "ok"]
  BY DEF CallAct, CallStart, CallCancel, CallEnd, CallDefer, CallErrSend, UpdateCandidate,
     UpdateTimeout, UpdateDone, OfferGone, Expire, callVars
<1>4. cur[b] # None /\ result[cur[b]] = "err" => result'[cur[b]] = "err"
  <2>1. cur[b] # None => cur[b] \in Calls
    BY DEF Inv, Types, AnswerTypes
  <2> QED
    BY <1>0, <1>3, <2>1 DEF OfferOK, CallTypes
<1>5. cur[b] # None /\ callPc'[cur[b]] = "loop" => callPc[cur[b]] = "loop"
  <2>1. \/ callPc' = callPc \/ CallStart(c)
        \/ callPc' = [callPc EXCEPT ![c] = "defer"] \/ callPc' = [callPc EXCEPT ![c] = "over"]
    BY DEF CallAct, CallCancel, CallEnd, CallDefer, CallErrSend, UpdateCandidate, UpdateTimeout,
       UpdateDone, OfferGone, Expire, callVars
  <2>2. CallStart(c) => cur[b] # c /\ callPc' = [callPc EXCEPT ![c] = "loop"]
    BY <1>0 DEF CallStart, OfferOK
  <2>3. cur[b] # None => cur[b] \in Calls
    BY DEF Inv, Types, AnswerTypes
  <2> QED
    BY <1>0, <2>1, <2>2, <2>3 DEF CallTypes
<1>6. Kept(b)
  BY <1>1, <1>2, <1>4, <1>5, CallFrame DEF Kept
<1> QED
  BY <1>0, <1>6, KeptOK

\* Nor does a step of the ticker, Stop or Close, and before Start there is none.
LEMMA OtherKeeps ==
  ASSUME Inv, OtherAct, NEW b \in Attempts
  PROVE  AttemptOK(b)'
<1>0. AttemptOK(b)
  BY DEF Inv
<1>1. CASE AnswererStart
  <2>1. ansState = "new" /\ ansState' = "on"
    BY <1>1 DEF AnswererStart
  <2>2. wPc[b] = "idle" /\ ansPc[b] = "none" /\ cur[b] = None
    BY <1>0, <2>1 DEF AttemptOK, PhaseOK
  <2>3. PhaseOK(b)' /\ BeforeInit(b)' /\ GatherOK(b)'
    BY <1>0, <2>1, <2>2, OtherFrame DEF AttemptOK, PhaseOK, BeforeInit, GatherOK, Early
  <2>4. StreamOK(b)'
    BY <1>0, OtherFrame DEF AttemptOK, StreamOK, Live, InitSent
  <2>5. CountOK(b)'
    BY <2>2, OtherFrame DEF CountOK, Undisturbed
  <2> QED
    BY <2>3, <2>4, <2>5 DEF AttemptOK
<1>2. CASE ~AnswererStart
  <2>1. (ansState' = "on" => ansState = "on") /\ (ansState' = "new" => ansState = "new")
    BY <1>2 DEF OtherAct, Janitor, AnswererStop, AnswererStopped, SrvClose, SrvCloseWait,
       QueueClose, StreamBreaks, workVars
  <2>2. Kept(b)
    BY <2>1, OtherFrame DEF Kept
  <2> QED
    BY <1>0, <2>2, KeptOK
<1> QED
  BY <1>1, <1>2

\* A step of one attempt does not touch another: no two hold the same offer.
LEMMA HandlerOthers ==
  ASSUME Inv, NEW a \in Attempts, HandlerAct(a), NEW b \in Attempts, b # a
  PROVE  Kept(b) /\ AttemptOK(b)'
<1>0. AttemptOK(b) /\ PhaseOK(a) /\ OneHolder /\ Types /\ AnswerTypes /\ CallTypes
  BY DEF Inv, Types, AttemptOK
<1>1. cur'[b] = cur[b] /\ ansPc'[b] = ansPc[b]
  BY <1>0 DEF HandlerAct, AnswerStart, RecvOffer, AnswerFail, AnswerSendInit, AnswerRegister,
     CallerLoop, CallerLoopEnd, AnswererLoopRecv, Respond, RespondFail, AnswererLoopEnd,
     AnswerReturn, ansVars, loopVars, AnswerTypes
<1>2. aLoop'[b] = aLoop[b] /\ cLoop'[b] = cLoop[b] /\ payload'[b] = payload[b]
  BY <1>0 DEF HandlerAct, AnswerStart, RecvOffer, AnswerFail, AnswerSendInit, AnswerRegister,
     CallerLoop, CallerLoopEnd, AnswererLoopRecv, Respond, RespondFail, AnswererLoopEnd,
     AnswerReturn, ansVars, loopVars, AnswerTypes
<1>3. toAns'[b] = toAns[b] /\ toSrv'[b] = toSrv[b]
  BY <1>0 DEF HandlerAct, AnswerStart, RecvOffer, AnswerFail, AnswerSendInit, AnswerRegister,
     CallerLoop, CallerLoopEnd, AnswererLoopRecv, Respond, RespondFail, AnswererLoopEnd,
     AnswerReturn, wireVars, AnswerTypes, SendToAnswerer
<1>4. b \in haveInit' <=> b \in haveInit
  BY DEF HandlerAct, AnswerStart, RecvOffer, AnswerFail, AnswerSendInit, AnswerRegister,
     CallerLoop, CallerLoopEnd, AnswererLoopRecv, Respond, RespondFail, AnswererLoopEnd,
     AnswerReturn, ansVars, loopVars
<1>5. CASE Respond(a)
  <2>1. cur[a] \in Calls /\ cur[a] # None
    BY <1>0, <1>5, HasOffer DEF Respond
  <2>2. cur[b] # cur[a]
    BY <1>0, <2>1 DEF OneHolder
  <2>3. doneOK' = doneOK
    BY <1>5 DEF Respond, histVars
  <2>4. cur[b] # None => /\ got'[cur[b]] = got[cur[b]] /\ result'[cur[b]] = result[cur[b]]
                         /\ callPc'[cur[b]] = callPc[cur[b]]
    <3>1. cur[b] # None => cur[b] \in Calls
      BY <1>0 DEF AnswerTypes
    <3> QED
      BY <1>0, <1>5, <2>1, <2>2, <3>1, RespondIs DEF CallTypes
  <2>5. Kept(b)
    BY <1>1, <1>2, <1>3, <1>4, <2>3, <2>4, HandlerFrame DEF Kept
  <2> QED
    BY <1>0, <2>5, KeptOK
<1>6. CASE ~Respond(a)
  <2>1. UNCHANGED <<got, result, callPc>>
    BY <1>6 DEF HandlerAct, AnswerStart, RecvOffer, AnswerFail, AnswerSendInit, AnswerRegister,
       CallerLoop, CallerLoopEnd, AnswererLoopRecv, RespondFail, AnswererLoopEnd, AnswerReturn,
       callVars
  <2>2. cur[b] \in doneOK' <=> cur[b] \in doneOK
    <3>1. CASE AnswererLoopRecv(a)
      <4>1. cur[a] \in Calls /\ cur[a] # None
        BY <1>0, <3>1, HasOffer DEF AnswererLoopRecv
      <4>2. cur[b] # cur[a]
        BY <1>0, <4>1 DEF OneHolder
      <4> QED
        BY <3>1, <4>2 DEF AnswererLoopRecv
    <3>2. CASE ~AnswererLoopRecv(a)
      BY <1>6, <3>2 DEF HandlerAct, AnswerStart, RecvOffer, AnswerFail, AnswerSendInit,
         AnswerRegister, CallerLoop, CallerLoopEnd, RespondFail, AnswererLoopEnd, AnswerReturn,
         histVars, pastVars
    <3> QED
      BY <3>1, <3>2
  <2>3. Kept(b)
    BY <1>1, <1>2, <1>3, <1>4, <2>1, <2>2, HandlerFrame DEF Kept
  <2> QED
    BY <1>0, <2>3, KeptOK
<1> QED
  BY <1>5, <1>6

\* A worker's step disturbs no other attempt.
LEMMA WorkerOthers ==
  ASSUME Inv, NEW a \in Attempts, WorkerAct(a), NEW b \in Attempts, b # a
  PROVE  AttemptOK(b)'
<1>0. AttemptOK(b) /\ AnswerTypes /\ WorkerTypes
  BY DEF Inv, Types
<1>1. ansPc'[b] = ansPc[b] /\ wPc'[b] = wPc[b]
  BY <1>0 DEF WorkerAct, WOpen, WRecv, WGather, WGatherEnd, WCand, WGathered, WInit, WConnectError,
     WConnectSilent, WRead, WReady, WTimeout, WOver, ansVars, AnswerTypes, WorkerTypes
<1>2. toAns'[b] = toAns[b]
  BY <1>0 DEF WorkerAct, WOpen, WRecv, WGather, WGatherEnd, WCand, WGathered, WInit, WConnectError,
     WConnectSilent, WRead, WReady, WTimeout, WOver, wireVars, AnswerTypes
<1>3. toSrv'[b] = toSrv[b]
  <2>1. toSrv' = toSrv \/ \E x \in Stages : toSrv' = [toSrv EXCEPT ![a] = Append(@, x)]
    BY DEF WorkerAct, WOpen, WRecv, WGather, WGatherEnd, WCand, WGathered, WInit, WConnectError,
       WConnectSilent, WRead, WReady, WTimeout, WOver, wireVars, SendToServer, SendOnce, Stages
  <2> QED
    BY <1>0, <2>1 DEF AnswerTypes
<1>4. wcand'[b] = wcand[b] /\ pend'[b] = pend[b] /\ gathering'[b] = gathering[b]
  BY <1>0 DEF WorkerAct, WOpen, WRecv, WGather, WGatherEnd, WCand, WGathered, WInit, WConnectError,
     WConnectSilent, WRead, WReady, WTimeout, WOver, WorkerTypes
<1>5. /\ b \in sentDone' <=> b \in sentDone
      /\ b \in readerDone' <=> b \in readerDone
      /\ b \in byGather' <=> b \in byGather
  BY DEF WorkerAct, WOpen, WRecv, WGather, WGatherEnd, WCand, WGathered, WInit, WConnectError,
     WConnectSilent, WRead, WReady, WTimeout, WOver, SendOnce, histVars, pastVars
<1>6. Kept(b)
  BY <1>1, <1>2, <1>3, <1>4, <1>5, WorkerFrame DEF Kept
<1> QED
  BY <1>0, <1>6, KeptOK

----------------------------------------------------------------------------
(* What a worker's step does to its own attempt. *)

\* What Append does to a stream.
LEMMA AppendIs ==
  ASSUME NEW s \in Seq(Stages), NEW x \in Stages
  PROVE  /\ Len(s) \in Nat /\ Len(Append(s, x)) = Len(s) + 1 /\ Append(s, x) # <<>>
         /\ \A i \in 1..Len(s) : Append(s, x)[i] = s[i]
         /\ Append(s, x)[Len(s) + 1] = x
OBVIOUS

\* What a receive does to a stream.
LEMMA TailIs ==
  ASSUME NEW s \in Seq(Stages), s # <<>>
  PROVE  /\ Len(s) \in Nat /\ Len(s) >= 1 /\ Len(Tail(s)) = Len(s) - 1
         /\ Head(s) = s[1] /\ Head(s) \in Stages /\ Tail(s) \in Seq(Stages)
         /\ \A i \in 1..Len(s) - 1 : Tail(s)[i] = s[i + 1]
OBVIOUS

\* A message that answererLoop will read is on the stream, another is not.
LEMMA SentIs ==
  ASSUME Inv, NEW a \in Attempts, NEW x \in Stages, SendToServer(a, x)
  PROVE  \/ a \in up /\ Live(a) /\ toSrv'[a] = Append(toSrv[a], x)
         \/ ~(a \in up /\ Live(a)) /\ toSrv'[a] = toSrv[a]
BY DEF Inv, Types, AnswerTypes, SendToServer, Live

\* What sendDoneErrorOnce puts on the stream: at most one message, and only
\* while the stream lives.
LEMMA OnceIs ==
  ASSUME Inv, NEW a \in Attempts, NEW x \in Stages, SendOnce(a, x)
  PROVE  /\ sentDone' = sentDone \cup {a}
         /\ \/ a \in up /\ Live(a) /\ a \notin sentDone /\ toSrv'[a] = Append(toSrv[a], x)
            \/ ~(a \in up /\ Live(a) /\ a \notin sentDone) /\ toSrv'[a] = toSrv[a]
BY SentIs DEF SendOnce

\* The handler does not move in a worker's step, but for the one that opens the stream.
StillThere(a) ==
  /\ ansPc' = ansPc /\ aLoop' = aLoop /\ cLoop' = cLoop /\ payload' = payload
  /\ haveInit' = haveInit /\ cur' = cur /\ doneOK' = doneOK /\ got' = got /\ result' = result
  /\ expired' = expired /\ ansState' = ansState

\* After it has opened its stream, a worker changes nothing of the server's
\* side.
LEMMA WorkerStill ==
  ASSUME NEW a \in Attempts, WorkerAct(a), ~WOpen(a)
  PROVE  StillThere(a)
<1>1. ansPc' = ansPc
  BY DEF WorkerAct, WRecv, WGather, WGatherEnd, WCand, WGathered, WInit, WConnectError,
     WConnectSilent, WRead, WReady, WTimeout, WOver, ansVars
<1> QED
  BY <1>1, WorkerFrame DEF StillThere

\* Nothing is sent.
LEMMA StreamQuiet ==
  ASSUME Inv, NEW a \in Attempts, StreamOK(a), StillThere(a),
         toSrv'[a] = toSrv[a], InitSent(a)' => InitSent(a), a \in sentDone => a \in sentDone'
  PROVE  StreamOK(a)'
BY DEF StreamOK, StillThere, Live

\* A message is sent after init.
LEMMA StreamSends ==
  ASSUME Inv, NEW a \in Attempts, StreamOK(a), StillThere(a),
         NEW x \in {"upd", "done", "err"}, Live(a), InitSent(a),
         toSrv'[a] = Append(toSrv[a], x), a \in sentDone => a \in sentDone',
         x # "upd" => a \in sentDone'
  PROVE  StreamOK(a)'
<1>1. toSrv[a] \in Seq(Stages) /\ x \in Stages
  BY DEF Inv, Types, AnswerTypes, Stages
<1>2. PICK s, t : s = toSrv[a] /\ t = Append(s, x)
  OBVIOUS
<1>3. /\ s \in Seq(Stages) /\ Len(s) \in Nat /\ Len(t) = Len(s) + 1 /\ t # <<>>
      /\ \A i \in 1..Len(s) : t[i] = s[i]
      /\ t[Len(s) + 1] = x /\ toSrv'[a] = t
  BY <1>1, <1>2, AppendIs
<1>4. \A i \in 1..Len(t) : i \in 1..Len(s) \/ i = Len(s) + 1
  BY <1>3
<1>5. \A i \in 1..Len(t) : t[i] = "init" => i = 1 /\ a \notin haveInit
  BY <1>2, <1>3, <1>4 DEF StreamOK
<1>6. a \notin haveInit => t[1] = "init"
  <2>1. a \notin haveInit => s # <<>> /\ s[1] = "init"
    BY <1>2 DEF StreamOK
  <2>2. s # <<>> => 1 \in 1..Len(s)
    BY <1>3
  <2> QED
    BY <1>3, <2>1, <2>2
<1>7. \A i \in 1..Len(t) : t[i] \in {"done", "err"} => a \in sentDone'
  BY <1>2, <1>3, <1>4 DEF StreamOK
<1> QED
  BY <1>3, <1>5, <1>6, <1>7 DEF StreamOK, StillThere, Live

\* The worker is past init and may have sent its last message.
LEMMA StreamOnce ==
  ASSUME Inv, NEW a \in Attempts, StreamOK(a), StillThere(a), InitSent(a),
         NEW x \in {"done", "err"}, SendOnce(a, x)
  PROVE  StreamOK(a)'
<1>1. x \in Stages
  BY DEF Stages
<1>2. sentDone' = sentDone \cup {a}
  BY DEF SendOnce
<1>3. CASE a \in up /\ Live(a) /\ a \notin sentDone /\ toSrv'[a] = Append(toSrv[a], x)
  BY <1>2, <1>3, StreamSends
<1>4. CASE toSrv'[a] = toSrv[a]
  BY <1>2, <1>4, StreamQuiet
<1> QED
  BY <1>1, <1>3, <1>4, OnceIs

\* The last message is sent, and not at the end of gathering.
LEMMA CountOver ==
  ASSUME NEW a \in Attempts, a \in sentDone', a \notin byGather'
  PROVE  CountOK(a)'
BY DEF CountOK

\* Once init is on its way the handler is past Early and the worker past connect.
LEMMA PastInit ==
  ASSUME Inv, NEW a \in Attempts,
         wPc[a] \in {"connect", "inited", "finish"} \/ pend[a] # 0 \/ gathering[a] # "on" \/ a \in readerDone
  PROVE  ~Early(a) /\ wPc[a] \notin {"idle", "recv"}
<1>1. WorkerTypes /\ PhaseOK(a) /\ GatherOK(a) /\ BeforeInit(a)
  BY DEF Inv, Types, AttemptOK
<1> QED
  BY <1>1 DEF WorkerTypes, PhaseOK, GatherOK, BeforeInit

\* The worker opens its stream.
LEMMA WOpenKeeps ==
  ASSUME Inv, NEW a \in Attempts, WOpen(a)
  PROVE  AttemptOK(a)'
<1>0. AttemptOK(a) /\ AnswerTypes /\ WorkerTypes
  BY DEF Inv, Types
<1>1. /\ wPc[a] = "idle" /\ wPc'[a] = "recv" /\ ansPc'[a] = "start" /\ ansState = "on"
      /\ UNCHANGED <<toAns, toSrv, sentDone, readerDone, wcand, pend, gathering, byGather>>
      /\ UNCHANGED <<cur, aLoop, cLoop, payload, haveInit, doneOK, got, result, expired, ansState>>
  BY <1>0 DEF WOpen, callVars, loopVars, queueVars, histVars, AnswerTypes, WorkerTypes
<1>2. ansPc[a] = "none"
  BY <1>0, <1>1 DEF AttemptOK, PhaseOK
<1>3. PhaseOK(a)'
  BY <1>0, <1>1, <1>2 DEF AttemptOK, PhaseOK, Early
<1>4. BeforeInit(a)' /\ GatherOK(a)'
  BY <1>0, <1>1, <1>2 DEF AttemptOK, BeforeInit, GatherOK, Early
<1>5. aLoop[a] = "off" /\ cur[a] = None /\ a \notin readerDone
  BY <1>0, <1>1, <1>2 DEF AttemptOK, PhaseOK, BeforeInit
<1>6. StreamOK(a)'
  BY <1>0, <1>1, <1>2, <1>5 DEF AttemptOK, StreamOK, Live, InitSent
<1>7. CountOK(a)'
  BY <1>1, <1>5 DEF CountOK, Undisturbed
<1> QED
  BY <1>3, <1>4, <1>6, <1>7 DEF AttemptOK

\* The worker receives the offer, or the end of the stream.
LEMMA WRecvKeeps ==
  ASSUME Inv, NEW a \in Attempts, WRecv(a)
  PROVE  AttemptOK(a)'
<1>0. AttemptOK(a) /\ AnswerTypes /\ WorkerTypes /\ StillThere(a)
  BY WorkerStill DEF Inv, Types, WorkerAct, WRecv, WOpen
<1>1. /\ wPc[a] = "recv"
      /\ UNCHANGED <<toSrv, sentDone, readerDone, wcand, pend, gathering, byGather>>
      /\ \/ toAns[a] # <<>> /\ wPc'[a] = "connect"
         \/ toAns' = toAns /\ wPc'[a] = "over"
  BY <1>0 DEF WRecv, histVars, WorkerTypes
<1>2. /\ ~(a \in readerDone) /\ ~(a \in byGather) /\ wcand[a] = 0 /\ pend[a] = 0
      /\ toAns[a] # <<>> => ~Early(a)
  BY <1>0, <1>1 DEF AttemptOK, BeforeInit, GatherOK, PhaseOK, WorkerTypes
<1>3. PhaseOK(a)' /\ BeforeInit(a)'
  BY <1>0, <1>1, <1>2 DEF AttemptOK, PhaseOK, BeforeInit, Early, StillThere
<1>4. GatherOK(a)'
  BY <1>0, <1>1, <1>2 DEF AttemptOK, GatherOK, Early, StillThere
<1>5. StreamOK(a)'
  <2>1. ~InitSent(a)'
    BY <1>1, <1>2 DEF InitSent
  <2> QED
    BY <1>0, <1>1, <2>1, StreamQuiet DEF AttemptOK
<1>6. CountOK(a)'
  BY <1>1, <1>2 DEF CountOK
<1> QED
  BY <1>3, <1>4, <1>5, <1>6 DEF AttemptOK

\* A candidate is found, or the last one was.
LEMMA WGatherKeeps ==
  ASSUME Inv, NEW a \in Attempts, WGather(a) \/ WGatherEnd(a)
  PROVE  AttemptOK(a)'
<1>0. AttemptOK(a) /\ AnswerTypes /\ WorkerTypes /\ StillThere(a)
  BY WorkerStill DEF Inv, Types, WorkerAct, WGather, WGatherEnd, WOpen
<1>1. /\ wPc[a] \in {"connect", "inited", "finish"} /\ gathering[a] = "on"
      /\ UNCHANGED <<toAns, toSrv, wPc, sentDone, readerDone, byGather>>
      /\ \/ wcand'[a] = wcand[a] + 1 /\ pend'[a] = pend[a] + 1 /\ gathering' = gathering
         \/ UNCHANGED <<wcand, pend>>
  BY <1>0 DEF WGather, WGatherEnd, wireVars, histVars, WorkerTypes
<1>2. ~Early(a) /\ wPc[a] \notin {"idle", "recv"} /\ a \notin byGather
  BY <1>0, <1>1, PastInit DEF AttemptOK, GatherOK
<1>3. /\ wcand'[a] - pend'[a] = wcand[a] - pend[a] /\ pend'[a] <= wcand'[a]
      /\ pend[a] = wcand[a] => pend'[a] = wcand'[a]
  <2>1. wcand[a] \in Nat /\ pend[a] \in Nat /\ pend[a] <= wcand[a]
    BY <1>0 DEF WorkerTypes, AttemptOK, GatherOK
  <2> QED
    BY <1>1, <2>1
<1>4. PhaseOK(a)' /\ BeforeInit(a)'
  BY <1>0, <1>1 DEF AttemptOK, PhaseOK, BeforeInit, Early, StillThere
<1>5. GatherOK(a)'
  BY <1>0, <1>1, <1>2, <1>3 DEF AttemptOK, GatherOK, Early, StillThere
<1>6. StreamOK(a)'
  BY <1>0, <1>1, StreamQuiet DEF AttemptOK, InitSent
<1>7. CountOK(a)'
  BY <1>0, <1>1, <1>2, <1>3 DEF AttemptOK, CountOK, StillThere, Live, Undisturbed, Responding
<1> QED
  BY <1>4, <1>5, <1>6, <1>7 DEF AttemptOK

\* A candidate's goroutine sends it.
LEMMA WCandKeeps ==
  ASSUME Inv, NEW a \in Attempts, WCand(a)
  PROVE  AttemptOK(a)'
<1>0. AttemptOK(a) /\ AnswerTypes /\ WorkerTypes /\ CallTypes /\ StillThere(a)
  <2>1. ~WOpen(a)
    BY DEF WCand, WOpen, Inv, AttemptOK, GatherOK, Types, WorkerTypes
  <2> QED
    BY <2>1, WorkerStill DEF Inv, Types, WorkerAct
<1>1. /\ pend[a] \in Nat /\ wcand[a] \in Nat /\ pend[a] > 0 /\ pend'[a] = pend[a] - 1
      /\ pend[a] <= wcand[a]
      /\ UNCHANGED <<toAns, wPc, readerDone, wcand, gathering, byGather>>
  BY <1>0 DEF WCand, histVars, WorkerTypes, AttemptOK, GatherOK
<1>2. ~Early(a) /\ wPc[a] \notin {"idle", "recv"} /\ a \notin byGather
  BY <1>0, <1>1, PastInit DEF AttemptOK, GatherOK
<1>3. PhaseOK(a)'
  BY <1>0, <1>1 DEF AttemptOK, PhaseOK, Early, StillThere
<1>4. CASE AnswerCtxDone(a) /\ UNCHANGED <<toSrv, sentDone>>
  <2>1. BeforeInit(a)'
    BY <1>0, <1>1, <1>4 DEF AttemptOK, BeforeInit, Early, StillThere
  <2>2. GatherOK(a)'
    <3>1. ~(wPc[a] = "connect" /\ ansState = "on" /\ cur[a] \notin expired)
      BY <1>4 DEF AnswerCtxDone
    <3>2. pend'[a] <= wcand[a]
      BY <1>1
    <3> QED
      BY <1>0, <1>1, <1>2, <1>4, <3>1, <3>2 DEF AttemptOK, GatherOK, Early, StillThere
  <2>3. StreamOK(a)'
    BY <1>0, <1>1, <1>4, StreamQuiet DEF AttemptOK, InitSent
  <2>4. CountOK(a)'
    <3>1. ~(Undisturbed(a)' /\ wPc'[a] = "inited")
      BY <1>0, <1>1, <1>4 DEF AnswerCtxDone, Undisturbed, StillThere
    <3> QED
      BY <1>1, <1>2, <3>1 DEF CountOK
  <2> QED
    BY <1>3, <2>1, <2>2, <2>3, <2>4 DEF AttemptOK
<1>5. CASE InitSent(a) /\ a \in up /\ SendToServer(a, "upd") /\ sentDone' = sentDone
  <2>1. wPc[a] \in {"inited", "finish", "over"}
    BY <1>0, <1>5 DEF InitSent, AttemptOK, GatherOK
  <2>2. BeforeInit(a)'
    BY <1>0, <1>1, <1>2, <2>1 DEF BeforeInit, Early, StillThere
  <2>3. GatherOK(a)'
    <3>1. pend'[a] <= wcand[a]
      BY <1>1
    <3> QED
      BY <1>0, <1>1, <1>2, <1>5, <2>1, <3>1 DEF AttemptOK, GatherOK, Early, StillThere
  <2>4. \/ Live(a) /\ toSrv'[a] = Append(toSrv[a], "upd")
        \/ ~Live(a) /\ toSrv'[a] = toSrv[a]
    BY <1>5, SentIs DEF Stages
  <2>5. StreamOK(a)'
    <3>1. CASE Live(a) /\ toSrv'[a] = Append(toSrv[a], "upd")
      BY <1>0, <1>5, <3>1, StreamSends DEF AttemptOK
    <3>2. CASE toSrv'[a] = toSrv[a]
      BY <1>0, <1>5, <3>2, StreamQuiet DEF AttemptOK
    <3> QED
      BY <2>4, <3>1, <3>2
  <2>6. CountOK(a)'
    <3>1. Live(a)' <=> Live(a)
      BY <1>0 DEF Live, StillThere
    <3>2. CASE Live(a) /\ wPc[a] = "inited" /\ a \notin sentDone /\ Undisturbed(a)
      <4>1. Len(toSrv'[a]) = Len(toSrv[a]) + 1 /\ Len(toSrv[a]) \in Nat
        <5>1. toSrv[a] \in Seq(Stages) /\ "upd" \in Stages
          BY <1>0 DEF AnswerTypes, Stages
        <5> QED
          BY <2>4, <3>2, <5>1, AppendIs
      <4>2. Len(got[cur[a]]) + Responding(a) + Len(toSrv[a]) = 1 + (wcand[a] - pend[a])
        BY <1>0, <3>2 DEF AttemptOK, CountOK
      <4>3. Len(got[cur[a]]) \in Nat /\ Responding(a) \in Nat
        BY <1>0, <3>2 DEF CallTypes, AnswerTypes, Undisturbed, Responding
      <4>4. Len(got[cur[a]]) + Responding(a) + Len(toSrv'[a]) = 1 + (wcand[a] - pend'[a])
        <5>1. PICK g \in Nat, r \in Nat, n \in Nat :
                g = Len(got[cur[a]]) /\ r = Responding(a) /\ n = Len(toSrv[a])
          BY <4>1, <4>3
        <5>2. g + r + n = 1 + (wcand[a] - pend[a])
          BY <4>2, <5>1
        <5>3. g + r + (n + 1) = 1 + (wcand[a] - (pend[a] - 1))
          BY <1>1, <5>2
        <5> QED
          BY <1>1, <4>1, <5>1, <5>3
      <4>5. Responding(a)' = Responding(a)
        BY <1>0 DEF Responding, StillThere
      <4> QED
        BY <1>0, <1>1, <1>2, <4>4, <4>5 DEF CountOK, StillThere
    <3>3. CASE ~(Live(a) /\ wPc[a] = "inited" /\ a \notin sentDone /\ Undisturbed(a))
      <4>1. Undisturbed(a)' <=> Undisturbed(a)
        BY <1>0 DEF Undisturbed, StillThere
      <4> QED
        BY <1>1, <1>2, <1>5, <3>1, <3>3, <4>1 DEF CountOK
    <3> QED
      BY <3>2, <3>3
  <2> QED
    BY <1>3, <2>2, <2>3, <2>5, <2>6 DEF AttemptOK
<1>6. CASE InitSent(a) /\ SendOnce(a, "err")
  <2>1. wPc[a] \in {"inited", "finish", "over"}
    BY <1>0, <1>6 DEF InitSent, AttemptOK, GatherOK
  <2>2. sentDone' = sentDone \cup {a}
    BY <1>6 DEF SendOnce
  <2>3. BeforeInit(a)'
    BY <1>0, <1>1, <1>2, <2>1 DEF BeforeInit, Early, StillThere
  <2>4. GatherOK(a)'
    <3>1. pend'[a] <= wcand[a]
      BY <1>1
    <3> QED
      BY <1>0, <1>1, <1>2, <2>1, <2>2, <3>1 DEF AttemptOK, GatherOK, Early, StillThere
  <2>5. StreamOK(a)'
    BY <1>0, <1>6, StreamOnce DEF AttemptOK
  <2>6. CountOK(a)'
    BY <1>1, <1>2, <2>2, CountOver
  <2> QED
    BY <1>3, <2>3, <2>4, <2>5, <2>6 DEF AttemptOK
<1> QED
  BY <1>4, <1>5, <1>6 DEF WCand

\* WReady, WTimeout and the reader: the worker is past init, the candidates are
\* as they were, and a last message is sent once.
LEMMA PastInitKeeps ==
  ASSUME Inv, NEW a \in Attempts, StillThere(a), wPc[a] \in {"inited", "finish"},
         wPc'[a] = wPc[a] \/ (wPc'[a] = "finish" /\ a \in sentDone'),
         UNCHANGED <<wcand, pend, gathering, byGather>>, a \in readerDone => a \in readerDone',
         \/ toSrv' = toSrv /\ sentDone' = sentDone
         \/ \E x \in {"done", "err"} : SendOnce(a, x)
  PROVE  AttemptOK(a)'
<1>0. AttemptOK(a) /\ AnswerTypes /\ WorkerTypes /\ ~Early(a)
  BY PastInit DEF Inv, Types
<1>1. wPc'[a] \in {"inited", "finish"} /\ (wPc'[a] = "inited" => wPc[a] = "inited")
  OBVIOUS
<1>2. a \in sentDone => a \in sentDone'
  BY DEF SendOnce
<1>3. PhaseOK(a)'
  BY <1>0, <1>1 DEF AttemptOK, PhaseOK, Early, StillThere
<1>4. BeforeInit(a)'
  BY <1>0, <1>1 DEF BeforeInit, Early, StillThere
<1>5. GatherOK(a)'
  BY <1>0, <1>1, <1>2 DEF AttemptOK, GatherOK, Early, StillThere
<1>6. InitSent(a)
  BY DEF InitSent
<1>7. CASE toSrv' = toSrv /\ sentDone' = sentDone
  <2>1. StreamOK(a)'
    BY <1>0, <1>6, <1>7, StreamQuiet DEF AttemptOK
  <2>2. CountOK(a)'
    BY <1>0, <1>1, <1>7 DEF AttemptOK, CountOK, StillThere, Live, Undisturbed, Responding
  <2> QED
    BY <1>3, <1>4, <1>5, <2>1, <2>2 DEF AttemptOK
<1>8. CASE \E x \in {"done", "err"} : SendOnce(a, x)
  <2>1. PICK x \in {"done", "err"} : SendOnce(a, x)
    BY <1>8
  <2>2. StreamOK(a)'
    BY <1>0, <1>6, <2>1, StreamOnce DEF AttemptOK
  <2>3. CountOK(a)'
    <3>1. a \in sentDone'
      BY <2>1 DEF SendOnce
    <3>2. CASE a \notin byGather
      BY <3>1, <3>2, CountOver
    <3>3. CASE a \in byGather
      <4>1. a \in sentDone /\ toSrv' = toSrv
        BY <1>0, <2>1, <3>3 DEF AttemptOK, GatherOK, SendOnce
      <4> QED
        BY <1>0, <3>1, <4>1 DEF AttemptOK, CountOK, StillThere, Live, Undisturbed, Responding
    <3> QED
      BY <3>2, <3>3
  <2> QED
    BY <1>3, <1>4, <1>5, <2>2, <2>3 DEF AttemptOK
<1> QED
  BY <1>7, <1>8

\* The worker reads the caller's stages, sees its connection ready, or times
\* out.
LEMMA WReadKeeps ==
  ASSUME Inv, NEW a \in Attempts, WRead(a) \/ WReady(a) \/ WTimeout(a)
  PROVE  AttemptOK(a)'
<1>0. AnswerTypes /\ WorkerTypes /\ StillThere(a)
  BY WorkerStill DEF Inv, Types, WorkerAct, WRead, WReady, WTimeout, WOpen
<1>1. CASE WRead(a)
  <2>1. wPc[a] \in {"inited", "finish"} /\ wPc' = wPc /\ readerDone \subseteq readerDone'
    BY <1>1 DEF WRead
  <2>2. UNCHANGED <<wcand, pend, gathering, byGather>>
    BY <1>1 DEF WRead, pastVars
  <2>3. \/ toSrv' = toSrv /\ sentDone' = sentDone
        \/ \E x \in {"done", "err"} : SendOnce(a, x)
    BY <1>1 DEF WRead
  <2>4. wPc'[a] = wPc[a] /\ (a \in readerDone => a \in readerDone')
    BY <2>1
  <2> QED
    BY <1>0, <2>1, <2>2, <2>3, <2>4, PastInitKeeps
<1>2. CASE WReady(a) \/ WTimeout(a)
  <2>1. /\ wPc[a] = "inited" /\ wPc'[a] = "finish"
        /\ UNCHANGED <<readerDone, wcand, pend, gathering, byGather>>
    BY <1>0, <1>2 DEF WReady, WTimeout, histVars, WorkerTypes
  <2>2. \E x \in {"done", "err"} : SendOnce(a, x)
    BY <1>2 DEF WReady, WTimeout
  <2>3. a \in sentDone'
    BY <2>2 DEF SendOnce
  <2> QED
    BY <1>0, <2>1, <2>2, <2>3, PastInitKeeps
<1> QED
  BY <1>1, <1>2

\* The worker returns.
LEMMA WOverKeeps ==
  ASSUME Inv, NEW a \in Attempts, WOver(a)
  PROVE  AttemptOK(a)'
<1>0. AttemptOK(a) /\ AnswerTypes /\ WorkerTypes /\ StillThere(a)
  BY WorkerStill DEF Inv, Types, WorkerAct, WOver, WOpen
<1>1. /\ wPc[a] = "finish" /\ wPc'[a] = "over" /\ toAns'[a] = <<>>
      /\ UNCHANGED <<toSrv, sentDone, readerDone, wcand, pend, gathering, byGather>>
  BY <1>0 DEF WOver, histVars, AnswerTypes, WorkerTypes
<1>2. ~Early(a)
  BY <1>1, PastInit
<1>3. PhaseOK(a)' /\ BeforeInit(a)'
  BY <1>0, <1>1, <1>2 DEF AttemptOK, PhaseOK, BeforeInit, Early, StillThere
<1>4. GatherOK(a)'
  BY <1>0, <1>1, <1>2 DEF AttemptOK, GatherOK, Early, StillThere
<1>5. StreamOK(a)'
  BY <1>0, <1>1, StreamQuiet DEF AttemptOK, InitSent
<1>6. CountOK(a)'
  BY <1>0, <1>1 DEF AttemptOK, CountOK, StillThere, Live, Undisturbed, Responding
<1> QED
  BY <1>3, <1>4, <1>5, <1>6 DEF AttemptOK

\* The terms of CountOK are numbers.
LEMMA CountTypes ==
  ASSUME Types, NEW a \in Attempts, cur[a] # None
  PROVE  /\ cur[a] \in Calls /\ got[cur[a]] \in Seq({"init", "upd"}) /\ Len(got[cur[a]]) \in Nat
         /\ toSrv[a] \in Seq(Stages) /\ Len(toSrv[a]) \in Nat
         /\ Responding(a) \in Nat /\ wcand[a] \in Nat /\ pend[a] \in Nat
<1>1. cur[a] \in Calls
  BY DEF Types, AnswerTypes
<1>2. got[cur[a]] \in Seq({"init", "upd"}) /\ toSrv[a] \in Seq(Stages)
  BY <1>1 DEF Types, CallTypes, AnswerTypes
<1>3. Responding(a) \in Nat /\ wcand[a] \in Nat /\ pend[a] \in Nat
  BY SignalingAssumption DEF Responding, Types, WorkerTypes
<1> QED
  BY <1>1, <1>2, <1>3

\* The end of gathering: done follows every candidate.
LEMMA WGatheredKeeps ==
  ASSUME Inv, NEW a \in Attempts, WGathered(a)
  PROVE  AttemptOK(a)'
<1>0. AttemptOK(a) /\ AnswerTypes /\ WorkerTypes /\ CallTypes /\ StillThere(a)
  <2>1. ~WOpen(a)
    BY PastInit DEF WGathered, WOpen
  <2> QED
    BY <2>1, WorkerStill DEF Inv, Types, WorkerAct
<1>1. /\ gathering[a] = "ending" /\ gathering'[a] = "off"
      /\ UNCHANGED <<toAns, wPc, readerDone, wcand, pend>>
  BY <1>0 DEF WGathered, WorkerTypes
<1>2. ~Early(a) /\ wPc[a] \notin {"idle", "recv"} /\ a \notin byGather
  BY <1>0, <1>1, PastInit DEF AttemptOK, GatherOK
<1>3. PhaseOK(a)'
  BY <1>0, <1>1 DEF AttemptOK, PhaseOK, Early, StillThere
<1>4. CASE UNCHANGED <<toSrv, sentDone, byGather>>
  <2>1. BeforeInit(a)' /\ GatherOK(a)'
    BY <1>0, <1>1, <1>2, <1>4 DEF AttemptOK, BeforeInit, GatherOK, Early, StillThere
  <2>2. StreamOK(a)'
    BY <1>0, <1>1, <1>4, StreamQuiet DEF AttemptOK, InitSent
  <2>3. CountOK(a)'
    BY <1>0, <1>1, <1>4 DEF AttemptOK, CountOK, StillThere, Live, Undisturbed, Responding
  <2> QED
    BY <1>3, <2>1, <2>2, <2>3 DEF AttemptOK
<1>5. CASE /\ InitSent(a) /\ pend[a] = 0 /\ SendOnce(a, "done")
           /\ byGather' = IF a \in sentDone THEN byGather ELSE byGather \cup {a}
  <2>1. sentDone' = sentDone \cup {a}
    BY <1>5 DEF SendOnce
  <2>2. wPc[a] \in {"inited", "finish", "over"}
    BY <1>0, <1>5 DEF InitSent, AttemptOK, GatherOK
  <2>3. BeforeInit(a)'
    BY <1>0, <1>1, <1>2, <2>2 DEF BeforeInit, Early, StillThere
  <2>4. GatherOK(a)'
    BY <1>0, <1>1, <1>2, <1>5, <2>1, <2>2 DEF AttemptOK, GatherOK, Early, StillThere
  <2>5. StreamOK(a)'
    BY <1>0, <1>5, StreamOnce DEF AttemptOK
  <2>6. CountOK(a)'
    <3>1. CASE a \in sentDone
      BY <1>2, <1>5, <2>1, <3>1, CountOver
    <3>2. CASE a \notin sentDone
      <4>1. wPc[a] = "inited"
        BY <1>0, <1>5, <2>2, <3>2 DEF InitSent, AttemptOK, GatherOK
      <4>2. cur[a] \notin doneOK
        BY <1>0, <3>2 DEF AttemptOK, StreamOK
      <4>3. CASE a \in up /\ Live(a) /\ Undisturbed(a)
        <5>1. PICK s, t : s = toSrv[a] /\ t = Append(s, "done") /\ toSrv'[a] = t
          BY <1>5, <3>2, <4>3, OnceIs DEF Stages
        <5>2. /\ s \in Seq(Stages) /\ Len(s) \in Nat /\ Len(t) = Len(s) + 1
              /\ \A i \in 1..Len(s) : t[i] = s[i]
          BY <1>0, <5>1, AppendIs DEF AnswerTypes, Stages
        <5>3. \A i \in 1..Len(s) : s[i] \notin {"done", "err"}
          BY <1>0, <3>2, <5>1 DEF AttemptOK, StreamOK
        <5>4. \A i \in 1..Len(t) : i \in 1..Len(s) \/ i = Len(t)
          BY <5>2
        <5>5. \A i \in 1..Len(t) : t[i] \in {"done", "err"} => i = Len(t)
          BY <5>2, <5>3, <5>4
        <5>6. aLoop[a] = "respond" => payload[a] # "err"
          BY <1>0, <3>2 DEF AttemptOK, StreamOK
        <5>7. Len(got[cur[a]]) + Responding(a) + Len(s) = 1 + (wcand[a] - pend[a])
          BY <1>0, <3>2, <4>1, <4>3, <5>1 DEF AttemptOK, CountOK
        <5>8. PICK g \in Nat, r \in Nat, w \in Nat :
                g = Len(got[cur[a]]) /\ r = Responding(a) /\ w = wcand[a]
          BY <4>3, CountTypes DEF Inv, Undisturbed
        <5>9. g + r + Len(s) = 1 + w
          BY <1>5, <5>7, <5>8
        <5>10. g + r + Len(t) = 2 + w
          BY <5>2, <5>9
        <5>11. Len(got'[cur'[a]]) + Responding(a)' + Len(toSrv'[a]) = 2 + wcand'[a]
          BY <1>0, <1>1, <5>1, <5>8, <5>10 DEF StillThere, Responding
        <5> QED
          BY <1>0, <2>1, <4>2, <5>1, <5>5, <5>6, <5>11 DEF CountOK, StillThere
      <4>4. CASE ~(a \in up /\ Live(a))
        <5>1. toSrv'[a] = toSrv[a]
          BY <1>5, <3>2, <4>4, OnceIs DEF Stages
        <5>2. ~ \E i \in 1..Len(toSrv[a]) : toSrv[a][i] = "done"
          BY <1>0, <3>2 DEF AttemptOK, StreamOK
        <5> QED
          BY <1>0, <2>1, <4>2, <5>1, <5>2 DEF CountOK, StillThere
      <4>5. CASE ~Undisturbed(a)
        BY <1>0, <4>5 DEF CountOK, Undisturbed, StillThere
      <4> QED
        BY <4>3, <4>4, <4>5
    <3> QED
      BY <3>1, <3>2
  <2> QED
    BY <1>3, <2>3, <2>4, <2>5, <2>6 DEF AttemptOK
<1> QED
  BY <1>4, <1>5 DEF WGathered

\* The answer is the first message on the stream.
LEMMA WInitKeeps ==
  ASSUME Inv, NEW a \in Attempts, WInit(a)
  PROVE  AttemptOK(a)'
<1>0. AttemptOK(a) /\ AnswerTypes /\ WorkerTypes /\ CallTypes /\ StillThere(a)
  BY WorkerStill DEF Inv, Types, WorkerAct, WInit, WOpen
<1>1. /\ wPc[a] = "connect" /\ wPc'[a] = "inited" /\ a \in up
      /\ UNCHANGED <<toAns, sentDone, readerDone, wcand, pend, gathering, byGather>>
  BY <1>0 DEF WInit, histVars, WorkerTypes
<1>2. /\ ~Early(a) /\ toSrv[a] = <<>> /\ aLoop[a] \notin {"respond", "ok"}
      /\ a \notin haveInit /\ a \notin sentDone /\ a \notin byGather /\ a \notin readerDone
      /\ cur[a] # None => got[cur[a]] = <<>> /\ cur[a] \notin doneOK
  BY <1>0, <1>1, PastInit DEF AttemptOK, BeforeInit
<1>3. \/ Live(a) /\ toSrv'[a] = Append(<<>>, "init")
      \/ ~Live(a) /\ toSrv'[a] = <<>>
  BY <1>1, <1>2, SentIs DEF WInit, Stages
<1>4. Append(<<>>, "init") = <<"init">> /\ Len(<<"init">>) = 1 /\ <<"init">>[1] = "init" /\ <<"init">> # <<>>
  OBVIOUS
<1>5. PhaseOK(a)' /\ BeforeInit(a)'
  BY <1>0, <1>1, <1>2 DEF AttemptOK, PhaseOK, BeforeInit, Early, StillThere
<1>6. GatherOK(a)'
  BY <1>0, <1>1, <1>2 DEF AttemptOK, GatherOK, Early, StillThere
<1>7. cur[a] \notin doneOK
  <2>1. None \notin doneOK
    BY <1>0, SignalingAssumption DEF CallTypes
  <2> QED
    BY <1>2, <2>1
<1>8. StreamOK(a)'
  <2>1. CASE Live(a) /\ toSrv'[a] = <<"init">>
    BY <1>0, <1>2, <1>4, <1>7, <2>1 DEF StreamOK, StillThere, Live
  <2>2. CASE ~Live(a) /\ toSrv'[a] = <<>>
    BY <1>0, <1>2, <1>7, <2>2 DEF StreamOK, StillThere, Live
  <2> QED
    BY <1>3, <1>4, <2>1, <2>2
<1>9. CountOK(a)'
  <2>1. CASE Live(a) /\ Undisturbed(a)
    <3>1. pend[a] = wcand[a] /\ wcand[a] \in Nat
      BY <1>0, <1>1, <2>1 DEF AttemptOK, GatherOK, Undisturbed, WorkerTypes
    <3>2. Len(got'[cur'[a]]) = 0 /\ Responding(a)' = 0 /\ Len(toSrv'[a]) = 1
      BY <1>0, <1>2, <1>3, <1>4, <2>1 DEF Undisturbed, StillThere, Responding
    <3>3. 0 + 0 + 1 = 1 + (wcand'[a] - pend'[a])
      BY <1>1, <3>1
    <3> QED
      BY <1>1, <1>2, <3>2, <3>3 DEF CountOK
  <2>2. CASE ~(Live(a) /\ Undisturbed(a))
    <3>1. ~(Live(a)' /\ Undisturbed(a)')
      BY <1>0, <2>2 DEF Live, Undisturbed, StillThere
    <3> QED
      BY <1>1, <1>2, <3>1 DEF CountOK
  <2> QED
    BY <2>1, <2>2
<1> QED
  BY <1>5, <1>6, <1>8, <1>9 DEF AttemptOK

\* connect fails before init; an error may be the only message on the stream.
LEMMA WConnectFailsKeeps ==
  ASSUME Inv, NEW a \in Attempts, WConnectError(a) \/ WConnectSilent(a)
  PROVE  AttemptOK(a)'
<1>0. AttemptOK(a) /\ AnswerTypes /\ WorkerTypes /\ CallTypes /\ StillThere(a)
  BY WorkerStill DEF Inv, Types, WorkerAct, WConnectError, WConnectSilent, WOpen
<1>1. /\ wPc[a] = "connect" /\ wPc'[a] = "over"
      /\ UNCHANGED <<toAns, readerDone, wcand, pend, gathering, byGather>>
      /\ UNCHANGED <<toSrv, sentDone>> \/ SendOnce(a, "err")
  BY <1>0 DEF WConnectError, WConnectSilent, wireVars, pastVars, WorkerTypes
<1>2. /\ ~Early(a) /\ toSrv[a] = <<>> /\ aLoop[a] \notin {"respond", "ok"}
      /\ a \notin haveInit /\ a \notin sentDone /\ a \notin byGather /\ a \notin readerDone
      /\ cur[a] # None => got[cur[a]] = <<>> /\ cur[a] \notin doneOK
  BY <1>0, <1>1, PastInit DEF AttemptOK, BeforeInit
<1>3. \/ toSrv'[a] = Append(<<>>, "err") /\ a \in sentDone'
      \/ toSrv'[a] = <<>>
  BY <1>1, <1>2, OnceIs DEF Stages
<1>4. /\ Append(<<>>, "err") = <<"err">> /\ Len(<<"err">>) = 1 /\ <<"err">>[1] = "err"
      /\ <<"err">> # <<>>
  OBVIOUS
<1>5. PhaseOK(a)' /\ BeforeInit(a)'
  BY <1>0, <1>1, <1>2 DEF AttemptOK, PhaseOK, BeforeInit, Early, StillThere
<1>6. GatherOK(a)'
  BY <1>0, <1>1, <1>2 DEF AttemptOK, GatherOK, Early, StillThere
<1>7. cur[a] \notin doneOK /\ ~InitSent(a)'
  <2>1. None \notin doneOK
    BY <1>0, SignalingAssumption DEF CallTypes
  <2> QED
    BY <1>1, <1>2, <2>1 DEF InitSent
<1>8. StreamOK(a)'
  <2>1. CASE toSrv'[a] = <<"err">> /\ a \in sentDone'
    BY <1>0, <1>2, <1>4, <1>7, <2>1 DEF StreamOK, StillThere, Live
  <2>2. CASE toSrv'[a] = <<>>
    BY <1>0, <1>2, <1>7, <2>2 DEF StreamOK, StillThere, Live
  <2> QED
    BY <1>3, <1>4, <2>1, <2>2
<1>9. CountOK(a)'
  BY <1>1, <1>2 DEF CountOK
<1> QED
  BY <1>5, <1>6, <1>8, <1>9 DEF AttemptOK

\* Every worker's step keeps what the invariant says of every attempt.
LEMMA WorkerKeeps ==
  ASSUME Inv, NEW a \in Attempts, WorkerAct(a), NEW b \in Attempts
  PROVE  AttemptOK(b)'
<1>1. CASE b = a
  BY <1>1, WOpenKeeps, WRecvKeeps, WGatherKeeps, WCandKeeps, WGatheredKeeps, WInitKeeps,
     WConnectFailsKeeps, WReadKeeps, WOverKeeps DEF WorkerAct
<1>2. CASE b # a
  BY <1>2, WorkerOthers
<1> QED
  BY <1>1, <1>2

----------------------------------------------------------------------------
(* What a handler's step does to its own attempt. *)

\* The worker does not move, and the caller has got what it had.
WorkerStays(a) ==
  /\ wPc' = wPc /\ sentDone' = sentDone /\ readerDone' = readerDone /\ byGather' = byGather
  /\ wcand' = wcand /\ pend' = pend /\ gathering' = gathering
  /\ ansState' = ansState /\ expired' = expired

CallStays(a) == got' = got /\ result' = result /\ doneOK' = doneOK

\* A handler's step leaves the worker's own state alone.
LEMMA HandlerStays ==
  ASSUME NEW a \in Attempts, HandlerAct(a)
  PROVE  WorkerStays(a)
BY HandlerFrame DEF WorkerStays

\* The handler stops reading the stream.
LEMMA GivesUp ==
  ASSUME Inv, NEW a \in Attempts, WorkerStays(a), CallStays(a), ~Early(a)', ~Live(a)',
         PhaseOK(a)', aLoop'[a] # "ok", cur'[a] = cur[a], haveInit' = haveInit,
         toSrv'[a] \in {toSrv[a], <<>>}
  PROVE  AttemptOK(a)'
<1>0. AttemptOK(a) /\ toSrv[a] \in Seq(Stages)
  BY DEF Inv, Types, AnswerTypes
<1>1. aLoop'[a] \notin {"respond", "ok"}
  BY DEF Live
<1>2. BeforeInit(a)'
  BY <1>0, <1>1 DEF AttemptOK, BeforeInit, WorkerStays, CallStays
<1>3. GatherOK(a)'
  BY <1>0 DEF AttemptOK, GatherOK, WorkerStays
<1>4. StreamOK(a)'
  <2>1. CASE toSrv'[a] = toSrv[a]
    BY <1>0, <1>1, <2>1 DEF AttemptOK, StreamOK, WorkerStays, CallStays
  <2>2. CASE toSrv'[a] = <<>>
    BY <1>0, <1>1, <2>2 DEF AttemptOK, StreamOK, WorkerStays, CallStays
  <2> QED
    BY <2>1, <2>2
<1>5. CountOK(a)'
  BY <1>0 DEF AttemptOK, CountOK, Undisturbed, WorkerStays, CallStays
<1> QED
  BY <1>2, <1>3, <1>4, <1>5 DEF AttemptOK

\* The handler starts to wait for an offer.
LEMMA AnswerStartKeeps ==
  ASSUME Inv, NEW a \in Attempts, AnswerStart(a)
  PROVE  AttemptOK(a)'
<1>0. AttemptOK(a) /\ AnswerTypes /\ WorkerStays(a)
  BY HandlerStays DEF Inv, Types, HandlerAct
<1>1. /\ ansPc[a] = "start" /\ ansPc'[a] = "recvOffer" /\ CallStays(a)
      /\ UNCHANGED <<cur, aLoop, cLoop, haveInit, payload, toAns, toSrv>>
  BY <1>0 DEF AnswerStart, callVars, loopVars, wireVars, histVars, AnswerTypes, CallStays
<1>2. PhaseOK(a)' /\ BeforeInit(a)'
  BY <1>0, <1>1 DEF AttemptOK, PhaseOK, BeforeInit, Early, WorkerStays, CallStays
<1>3. GatherOK(a)'
  BY <1>0, <1>1 DEF AttemptOK, GatherOK, Early, WorkerStays
<1>4. StreamOK(a)'
  BY <1>0, <1>1 DEF AttemptOK, StreamOK, Live, InitSent, WorkerStays, CallStays
<1>5. CountOK(a)'
  BY <1>0, <1>1 DEF AttemptOK, CountOK, Live, Undisturbed, Responding, WorkerStays, CallStays
<1> QED
  BY <1>2, <1>3, <1>4, <1>5 DEF AttemptOK

\* The handler takes an offer.
LEMMA RecvOfferKeeps ==
  ASSUME Inv, NEW a \in Attempts, RecvOffer(a)
  PROVE  AttemptOK(a)'
<1>0. AttemptOK(a) /\ AnswerTypes /\ WorkerStays(a)
  BY HandlerStays DEF Inv, Types, HandlerAct
<1>1. PICK c \in offering : cur'[a] = c
  BY <1>0 DEF RecvOffer, AnswerTypes
<1>2. c \in Calls /\ c # None /\ got[c] = <<>> /\ c \notin doneOK
  <2>1. c \in Calls /\ OfferOK(c)
    BY DEF Inv, Types, CallTypes
  <2> QED
    BY <2>1, SignalingAssumption DEF OfferOK
<1>3. /\ ansPc[a] = "recvOffer" /\ ansPc'[a] = "sendInit" /\ CallStays(a)
      /\ UNCHANGED <<aLoop, cLoop, haveInit, payload, toAns, toSrv>>
  BY <1>0 DEF RecvOffer, callVars, loopVars, wireVars, histVars, AnswerTypes, CallStays
<1>4. /\ Early(a) /\ wPc[a] \in {"idle", "recv", "over"} /\ aLoop[a] = "off" /\ cLoop[a] = "off"
      /\ toSrv[a] = <<>> /\ a \notin byGather /\ a \notin readerDone
  BY <1>0, <1>3 DEF AttemptOK, PhaseOK, BeforeInit, Early
<1>5. PhaseOK(a)'
  BY <1>0, <1>1, <1>2, <1>3, <1>4 DEF AttemptOK, PhaseOK, Early, WorkerStays
<1>6. BeforeInit(a)'
  BY <1>0, <1>1, <1>2, <1>3, <1>4 DEF AttemptOK, BeforeInit, WorkerStays, CallStays
<1>7. GatherOK(a)'
  BY <1>0, <1>3, <1>4 DEF AttemptOK, GatherOK, WorkerStays
<1>8. StreamOK(a)'
  BY <1>1, <1>2, <1>3, <1>4 DEF StreamOK, Live, CallStays
<1>9. CountOK(a)'
  BY <1>0, <1>1, <1>2, <1>3, <1>4 DEF CountOK, WorkerStays, CallStays
<1> QED
  BY <1>5, <1>6, <1>7, <1>8, <1>9 DEF AttemptOK

\* The handler gives up.
LEMMA AnswerFailKeeps ==
  ASSUME Inv, NEW a \in Attempts, AnswerFail(a)
  PROVE  AttemptOK(a)'
<1>0. AttemptOK(a) /\ AnswerTypes /\ WorkerStays(a)
  BY HandlerStays DEF Inv, Types, HandlerAct
<1>1. /\ ansPc[a] \in {"recvOffer", "sendInit", "register"} /\ ansPc'[a] = "over" /\ CallStays(a)
      /\ UNCHANGED <<cur, aLoop, cLoop, haveInit, payload, toAns, toSrv>>
  BY <1>0 DEF AnswerFail, callVars, loopVars, pastVars, AnswerTypes, CallStays
<1>2. aLoop[a] = "off" /\ cLoop[a] = "off" /\ wPc[a] # "idle"
  BY <1>0, <1>1 DEF AttemptOK, PhaseOK
<1>3. ~Early(a)' /\ ~Live(a)' /\ aLoop'[a] # "ok"
  BY <1>1, <1>2 DEF Early, Live
<1>4. PhaseOK(a)'
  BY <1>0, <1>1, <1>2 DEF AttemptOK, PhaseOK, Early, WorkerStays
<1>5. cur'[a] = cur[a] /\ haveInit' = haveInit /\ toSrv'[a] \in {toSrv[a], <<>>} /\ CallStays(a)
  BY <1>1
<1> QED
  BY <1>0, <1>3, <1>4, <1>5, GivesUp

\* The handler sends the offer to the answerer.
LEMMA AnswerSendInitKeeps ==
  ASSUME Inv, NEW a \in Attempts, AnswerSendInit(a)
  PROVE  AttemptOK(a)'
<1>0. AttemptOK(a) /\ AnswerTypes /\ WorkerStays(a)
  BY HandlerStays DEF Inv, Types, HandlerAct
<1>1. /\ ansPc[a] = "sendInit" /\ ansPc'[a] = "register" /\ CallStays(a)
      /\ UNCHANGED <<cur, aLoop, cLoop, haveInit, payload, toSrv>>
  BY <1>0 DEF AnswerSendInit, callVars, loopVars, histVars, AnswerTypes, CallStays
<1>2. /\ Early(a) /\ wPc[a] \in {"recv", "over"} /\ aLoop[a] = "off" /\ cLoop[a] = "off"
      /\ toSrv[a] = <<>> /\ a \notin byGather /\ a \notin readerDone
      /\ cur[a] # None /\ cur[a] \notin doneOK
  BY <1>0, <1>1 DEF AttemptOK, PhaseOK, BeforeInit, Early
<1>3. PhaseOK(a)'
  BY <1>0, <1>1, <1>2 DEF AttemptOK, PhaseOK, Early, WorkerStays
<1>4. BeforeInit(a)'
  BY <1>0, <1>1, <1>2 DEF AttemptOK, BeforeInit, WorkerStays, CallStays
<1>5. GatherOK(a)'
  BY <1>0, <1>2 DEF AttemptOK, GatherOK, WorkerStays
<1>6. StreamOK(a)'
  BY <1>0, <1>1, <1>2 DEF StreamOK, Live, InitSent, WorkerStays, CallStays
<1>7. CountOK(a)'
  BY <1>0, <1>2 DEF CountOK, WorkerStays
<1> QED
  BY <1>3, <1>4, <1>5, <1>6, <1>7 DEF AttemptOK

\* The handler starts its two loops.
LEMMA AnswerRegisterKeeps ==
  ASSUME Inv, NEW a \in Attempts, AnswerRegister(a)
  PROVE  AttemptOK(a)'
<1>0. AttemptOK(a) /\ AnswerTypes /\ WorkerStays(a)
  BY HandlerStays DEF Inv, Types, HandlerAct
<1>1. /\ ansPc[a] = "register" /\ ansPc'[a] = "loops" /\ aLoop'[a] = "loop" /\ CallStays(a)
      /\ UNCHANGED <<cur, haveInit, payload, toAns, toSrv>>
  BY <1>0 DEF AnswerRegister, callVars, wireVars, histVars, AnswerTypes, CallStays
<1>2. aLoop[a] = "off" /\ ~Early(a) /\ ~Early(a)' /\ Live(a) /\ Live(a)'
  BY <1>0, <1>1 DEF AttemptOK, PhaseOK, Early, Live
<1>3. PhaseOK(a)'
  BY <1>0, <1>1 DEF AttemptOK, PhaseOK, Early, WorkerStays
<1>4. BeforeInit(a)'
  BY <1>0, <1>1, <1>2 DEF AttemptOK, BeforeInit, WorkerStays, CallStays
<1>5. GatherOK(a)'
  BY <1>0, <1>1, <1>2 DEF AttemptOK, GatherOK, WorkerStays
<1>6. StreamOK(a)'
  BY <1>0, <1>1, <1>2 DEF AttemptOK, StreamOK, InitSent, WorkerStays, CallStays
<1>7. CountOK(a)'
  <2>1. Responding(a)' = 0 /\ Responding(a) = 0
    BY <1>1, <1>2 DEF Responding
  <2> QED
    BY <1>0, <1>1, <1>2, <2>1 DEF AttemptOK, CountOK, Undisturbed, WorkerStays, CallStays
<1> QED
  BY <1>3, <1>4, <1>5, <1>6, <1>7 DEF AttemptOK

\* callerLoop writes to the other direction of the stream.
LEMMA CallerLoopKeeps ==
  ASSUME Inv, NEW a \in Attempts, CallerLoop(a) \/ CallerLoopEnd(a)
  PROVE  AttemptOK(a)'
<1>0. AttemptOK(a) /\ AnswerTypes /\ WorkerStays(a)
  BY HandlerStays DEF Inv, Types, HandlerAct
<1>1. /\ cLoop[a] # "off" /\ CallStays(a)
      /\ UNCHANGED <<ansPc, cur, aLoop, haveInit, payload, toSrv>>
  BY DEF CallerLoop, CallerLoopEnd, callVars, histVars, CallStays
<1>2. ansPc[a] = "loops" /\ ~Early(a)
  BY <1>0, <1>1 DEF AttemptOK, PhaseOK, Early
<1>3. PhaseOK(a)'
  BY <1>0, <1>1, <1>2 DEF AttemptOK, PhaseOK, Early, WorkerStays
<1>4. BeforeInit(a)' /\ GatherOK(a)'
  BY <1>0, <1>1, <1>2 DEF AttemptOK, BeforeInit, GatherOK, Early, WorkerStays, CallStays
<1>5. StreamOK(a)'
  BY <1>0, <1>1 DEF AttemptOK, StreamOK, Live, InitSent, WorkerStays, CallStays
<1>6. CountOK(a)'
  BY <1>0, <1>1 DEF AttemptOK, CountOK, Live, Undisturbed, Responding, WorkerStays, CallStays
<1> QED
  BY <1>3, <1>4, <1>5, <1>6 DEF AttemptOK

\* answererLoop returns, and then the handler.
LEMMA LoopEndKeeps ==
  ASSUME Inv, NEW a \in Attempts, RespondFail(a) \/ AnswererLoopEnd(a) \/ AnswerReturn(a)
  PROVE  AttemptOK(a)'
<1>0. AttemptOK(a) /\ AnswerTypes /\ WorkerStays(a)
  BY HandlerStays DEF Inv, Types, HandlerAct
<1>1. /\ aLoop[a] # "off" /\ CallStays(a) /\ UNCHANGED <<cur, cLoop, haveInit, toAns>>
      /\ \/ ansPc' = ansPc /\ aLoop'[a] \in {"fail", "wait"}
         \/ cLoop[a] = "off" /\ ansPc'[a] = "over" /\ aLoop'[a] = "off"
  BY <1>0 DEF RespondFail, AnswererLoopEnd, AnswerReturn, callVars, wireVars, histVars, AnswerTypes,
     CallStays
<1>2. toSrv'[a] \in {toSrv[a], <<>>}
  BY <1>0 DEF RespondFail, AnswererLoopEnd, AnswerReturn, wireVars, AnswerTypes
<1>3. ansPc[a] = "loops" /\ wPc[a] # "idle"
  BY <1>0, <1>1 DEF AttemptOK, PhaseOK
<1>4. ~Early(a)' /\ ~Live(a)' /\ aLoop'[a] # "ok"
  BY <1>1, <1>3 DEF Early, Live
<1>5. PhaseOK(a)'
  BY <1>0, <1>1, <1>3 DEF AttemptOK, PhaseOK, Early, WorkerStays
<1>6. cur'[a] = cur[a] /\ haveInit' = haveInit /\ CallStays(a)
  BY <1>1
<1> QED
  BY <1>0, <1>2, <1>4, <1>5, <1>6, GivesUp

\* answererLoop takes the next stage off the stream: it is never out of order.
LEMMA LoopRecvKeeps ==
  ASSUME Inv, NEW a \in Attempts, AnswererLoopRecv(a)
  PROVE  AttemptOK(a)'
<1>0. AttemptOK(a) /\ Types /\ AnswerTypes /\ WorkerStays(a)
  BY HandlerStays DEF Inv, Types, HandlerAct
<1>1. /\ aLoop[a] = "loop" /\ UNCHANGED <<ansPc, cur, cLoop, toAns, got, result>>
  BY DEF AnswererLoopRecv, callVars
<1>2. ansPc[a] = "loops" /\ ~Early(a) /\ ~Early(a)' /\ Live(a) /\ cur[a] # None /\ wPc[a] # "idle"
  BY <1>0, <1>1, HasOffer DEF AttemptOK, PhaseOK, Early, Live
<1>3. CASE /\ a \notin up /\ aLoop' = [aLoop EXCEPT ![a] = "fail"]
           /\ UNCHANGED <<toSrv, haveInit, payload, stopped, cancelled, doneOK>>
  <2>1. aLoop'[a] = "fail"
    BY <1>0, <1>3 DEF AnswerTypes
  <2>2. ~Live(a)' /\ CallStays(a)
    BY <1>1, <1>2, <1>3, <2>1 DEF Live, CallStays
  <2>3. PhaseOK(a)'
    BY <1>0, <1>1, <1>2, <2>1 DEF AttemptOK, PhaseOK, Early, WorkerStays
  <2>4. /\ aLoop'[a] # "ok" /\ cur'[a] = cur[a] /\ haveInit' = haveInit
        /\ toSrv'[a] \in {toSrv[a], <<>>}
    BY <1>1, <1>3, <2>1
  <2> QED
    BY <1>0, <1>2, <2>2, <2>3, <2>4, GivesUp
<1>4. CASE toSrv[a] # <<>>
           /\ toSrv' = [toSrv EXCEPT ![a] = Tail(@)]
           /\ \E x, ok :
                /\ x = Head(toSrv[a])
                /\ ok = ((a \in haveInit) = (x \in {"upd", "done"}) \/ x = "err")
                /\ aLoop' = [aLoop EXCEPT ![a] = IF ~ok THEN "fail"
                                                 ELSE IF x = "done" THEN "ok" ELSE "respond"]
                /\ haveInit' = IF x = "init" THEN haveInit \cup {a} ELSE haveInit
                /\ payload' = [payload EXCEPT ![a] = x]
                /\ doneOK' = IF ok /\ x = "done" THEN doneOK \cup {cur[a]} ELSE doneOK
  <2>1. PICK x, ok :
          /\ x = Head(toSrv[a])
          /\ ok = ((a \in haveInit) = (x \in {"upd", "done"}) \/ x = "err")
          /\ aLoop' = [aLoop EXCEPT ![a] = IF ~ok THEN "fail"
                                           ELSE IF x = "done" THEN "ok" ELSE "respond"]
          /\ haveInit' = IF x = "init" THEN haveInit \cup {a} ELSE haveInit
          /\ payload' = [payload EXCEPT ![a] = x]
          /\ doneOK' = IF ok /\ x = "done" THEN doneOK \cup {cur[a]} ELSE doneOK
    BY <1>4
  <2>2. PICK s, t : s = toSrv[a] /\ t = Tail(s)
    OBVIOUS
  <2>3. /\ s \in Seq(Stages) /\ t \in Seq(Stages) /\ Len(s) \in Nat /\ Len(s) >= 1
        /\ Len(t) = Len(s) - 1 /\ x = s[1] /\ x \in Stages
        /\ \A i \in 1..Len(s) - 1 : t[i] = s[i + 1]
        /\ toSrv'[a] = t
    <3>1. s \in Seq(Stages) /\ s # <<>>
      BY <1>0, <1>4, <2>2 DEF AnswerTypes
    <3>2. toSrv'[a] = t
      BY <1>0, <1>4, <2>2 DEF AnswerTypes
    <3>3. x = Head(s)
      BY <2>1, <2>2
    <3> QED
      BY <2>2, <3>1, <3>2, <3>3, TailIs
  <2>4. \A i \in 1..Len(t) : i \in Nat /\ i + 1 \in 1..Len(s) /\ t[i] = s[i + 1] /\ i + 1 # 1
    BY <2>3
  <2>5. 1 \in 1..Len(s)
    BY <2>3
  <2>6. x = "init" => a \notin haveInit
    BY <1>0, <2>2, <2>3, <2>5 DEF AttemptOK, StreamOK
  <2>7. a \notin haveInit => x = "init" \/ s = <<"err">>
    BY <1>0, <1>4, <2>2, <2>3 DEF AttemptOK, StreamOK
  <2>8. s = <<"err">> => x = "err" /\ Len(s) = 1
    BY <2>3
  <2>9. ok
    <3>1. CASE a \in haveInit
      <4>1. x # "init" /\ x \in {"init", "upd", "done", "err"}
        BY <2>3, <2>6, <3>1 DEF Stages
      <4> QED
        BY <2>1, <3>1, <4>1
    <3>2. CASE a \notin haveInit
      <4>1. x = "init" \/ x = "err"
        BY <2>7, <2>8, <3>2
      <4>2. x = "init" => (x \in {"upd", "done"}) = FALSE
        OBVIOUS
      <4>3. (a \in haveInit) = FALSE
        BY <3>2
      <4>4. x = "init" => (a \in haveInit) = (x \in {"upd", "done"})
        BY <4>2, <4>3, Zenon
      <4> QED
        BY <2>1, <4>1, <4>4, Zenon
    <3> QED
      BY <3>1, <3>2
  <2>10. /\ x = "done" => aLoop'[a] = "ok" /\ doneOK' = doneOK \cup {cur[a]}
         /\ x # "done" => aLoop'[a] = "respond" /\ doneOK' = doneOK
         /\ payload'[a] = x
         /\ x = "init" => a \in haveInit'
         /\ x # "init" => haveInit' = haveInit
    BY <1>0, <2>1, <2>9 DEF AnswerTypes
  <2>11. x \in {"done", "err"} => a \in sentDone
    BY <1>0, <2>2, <2>3, <2>5 DEF AttemptOK, StreamOK
  <2>12. cur[a] \notin doneOK
    BY <1>0, <1>2 DEF AttemptOK, StreamOK
  <2>13. wPc[a] \notin {"idle", "recv", "connect"}
    BY <1>0, <1>4 DEF AttemptOK, BeforeInit
  <2>14. PhaseOK(a)'
    BY <1>0, <1>1, <1>2 DEF AttemptOK, PhaseOK, Early, WorkerStays
  <2>15. BeforeInit(a)'
    BY <1>0, <1>2, <2>13 DEF BeforeInit, WorkerStays
  <2>16. GatherOK(a)'
    BY <1>0, <1>1, <1>2 DEF AttemptOK, GatherOK, WorkerStays
  <2>17. StreamOK(a)'
    <3>1. \A i \in 1..Len(t) : t[i] # "init"
      BY <1>0, <2>2, <2>4 DEF AttemptOK, StreamOK
    <3>2. a \notin haveInit' => t = <<>> /\ ~InitSent(a)
      <4>1. a \notin haveInit' => a \notin haveInit /\ x # "init"
        BY <2>10
      <4>2. a \notin haveInit' => Len(s) = 1 /\ x = "err"
        BY <2>7, <2>8, <4>1
      <4>3. Len(s) = 1 => t = <<>>
        BY <2>3
      <4>4. InitSent(a) /\ a \notin haveInit => x = "init"
        BY <1>0, <1>2, <2>2, <2>3 DEF AttemptOK, StreamOK
      <4> QED
        BY <4>1, <4>2, <4>3, <4>4
    <3>3. \A i \in 1..Len(t) : t[i] \in {"done", "err"} => a \in sentDone
      BY <1>0, <2>2, <2>4 DEF AttemptOK, StreamOK
    <3>4. InitSent(a)' <=> InitSent(a)
      BY <1>0 DEF InitSent, WorkerStays
    <3>5. aLoop'[a] = "respond" => payload'[a] # "done"
      BY <2>10
    <3>6. aLoop'[a] = "respond" /\ payload'[a] = "err" => a \in sentDone
      BY <2>10, <2>11
    <3>7. cur[a] \in doneOK' => a \in sentDone /\ ~Live(a)'
      <4>1. cur[a] \in doneOK' => x = "done"
        BY <2>10, <2>12
      <4>2. x = "done" => ~Live(a)'
        BY <1>1, <1>2, <2>10 DEF Live
      <4> QED
        BY <2>11, <4>1, <4>2
    <3> QED
      BY <1>0, <1>1, <2>3, <3>1, <3>2, <3>3, <3>4, <3>5, <3>6, <3>7 DEF StreamOK, WorkerStays
  <2>18. CountOK(a)'
    <3> SUFFICES ASSUME Undisturbed(a)'
                 PROVE  CountOK(a)'
      BY DEF CountOK
    <3>0. Undisturbed(a) /\ Responding(a) = 0 /\ (x # "done" => Responding(a)' = 1)
      BY <1>0, <1>1, <2>10 DEF Undisturbed, Responding, WorkerStays
    <3>1. PICK g \in Nat, w \in Nat, p \in Nat :
            g = Len(got[cur[a]]) /\ w = wcand[a] /\ p = pend[a]
      BY <1>0, <1>2, CountTypes
    <3>2. wPc'[a] = "inited" /\ a \notin sentDone' /\ Live(a)' =>
            Len(got'[cur'[a]]) + Responding(a)' + Len(toSrv'[a]) = 1 + (wcand'[a] - pend'[a])
      <4> SUFFICES ASSUME wPc[a] = "inited", a \notin sentDone
                   PROVE  Len(got'[cur'[a]]) + Responding(a)' + Len(toSrv'[a])
                            = 1 + (wcand'[a] - pend'[a])
        BY <1>0 DEF WorkerStays
      <4>1. x # "done"
        BY <2>11
      <4>2. Len(got[cur[a]]) + Responding(a) + Len(toSrv[a]) = 1 + (wcand[a] - pend[a])
        BY <1>0, <1>2, <3>0 DEF AttemptOK, CountOK
      <4>3. g + 0 + Len(s) = 1 + (w - p)
        BY <2>2, <3>0, <3>1, <4>2
      <4>4. g + 1 + Len(t) = 1 + (w - p)
        BY <2>3, <4>3
      <4> QED
        BY <1>0, <1>1, <2>3, <3>0, <3>1, <4>1, <4>4 DEF WorkerStays
    <3>3. a \in byGather' /\ Live(a)' /\ (\E i \in 1..Len(toSrv'[a]) : toSrv'[a][i] = "done") =>
            /\ \A i \in 1..Len(toSrv'[a]) : toSrv'[a][i] \in {"done", "err"} => i = Len(toSrv'[a])
            /\ aLoop'[a] = "respond" => payload'[a] # "err"
            /\ Len(got'[cur'[a]]) + Responding(a)' + Len(toSrv'[a]) = 2 + wcand'[a]
      <4> SUFFICES ASSUME a \in byGather, NEW j \in 1..Len(t), t[j] = "done"
                   PROVE  /\ \A i \in 1..Len(t) : t[i] \in {"done", "err"} => i = Len(t)
                          /\ x # "err"
                          /\ Len(got'[cur'[a]]) + Responding(a)' + Len(toSrv'[a]) = 2 + wcand'[a]
        BY <1>0, <2>3, <2>10 DEF WorkerStays
      <4>1. j + 1 \in 1..Len(s) /\ s[j + 1] = "done"
        BY <2>4
      <4>2. /\ \A i \in 1..Len(s) : s[i] \in {"done", "err"} => i = Len(s)
            /\ Len(got[cur[a]]) + Responding(a) + Len(toSrv[a]) = 2 + wcand[a]
        BY <1>0, <1>2, <2>2, <3>0, <4>1 DEF AttemptOK, CountOK
      <4>3. j + 1 = Len(s)
        BY <4>1, <4>2
      <4>4. Len(s) # 1
        BY <4>3
      <4>5. x \notin {"done", "err"}
        BY <2>3, <2>5, <4>2, <4>4
      <4>6. \A i \in 1..Len(t) : t[i] \in {"done", "err"} => i = Len(t)
        <5>1. ASSUME NEW i \in 1..Len(t), t[i] \in {"done", "err"} PROVE i = Len(t)
          <6>1. i + 1 \in 1..Len(s) /\ s[i + 1] \in {"done", "err"}
            BY <2>4, <5>1
          <6>2. i + 1 = Len(s)
            BY <4>2, <6>1
          <6> QED
            BY <2>3, <6>2
        <5> QED
          BY <5>1
      <4>7. g + 0 + Len(s) = 2 + w
        BY <2>2, <3>0, <3>1, <4>2
      <4>8. g + 1 + Len(t) = 2 + w
        BY <2>3, <4>7
      <4>9. Responding(a)' = 1
        BY <3>0, <4>5
      <4>10. Len(got'[cur'[a]]) + Responding(a)' + Len(toSrv'[a]) = 2 + wcand'[a]
        BY <1>0, <1>1, <2>3, <3>1, <4>8, <4>9 DEF WorkerStays
      <4> QED
        BY <4>5, <4>6, <4>10
    <3>4. a \in byGather' /\ cur'[a] \in doneOK' => Len(got'[cur'[a]]) = 1 + wcand'[a]
      <4> SUFFICES ASSUME a \in byGather, cur[a] \in doneOK'
                   PROVE  Len(got'[cur'[a]]) = 1 + wcand'[a]
        BY <1>0, <1>1 DEF WorkerStays
      <4>1. x = "done" /\ s[1] = "done"
        BY <2>3, <2>10, <2>12
      <4>2. /\ \A i \in 1..Len(s) : s[i] \in {"done", "err"} => i = Len(s)
            /\ Len(got[cur[a]]) + Responding(a) + Len(toSrv[a]) = 2 + wcand[a]
        BY <1>0, <1>2, <2>2, <2>5, <3>0, <4>1 DEF AttemptOK, CountOK
      <4>3. Len(s) = 1
        BY <2>5, <4>1, <4>2
      <4>4. g + 0 + 1 = 2 + w
        BY <2>2, <3>0, <3>1, <4>2, <4>3
      <4>5. g = 1 + w
        BY <4>4
      <4> QED
        BY <1>0, <1>1, <3>1, <4>5 DEF WorkerStays
    <3> QED
      BY <3>2, <3>3, <3>4 DEF CountOK
  <2> QED
    BY <2>14, <2>15, <2>16, <2>17, <2>18 DEF AttemptOK
<1> QED
  BY <1>3, <1>4 DEF AnswererLoopRecv

\* AnswererRespond meets the loop of Call.
LEMMA RespondKeeps ==
  ASSUME Inv, NEW a \in Attempts, Respond(a)
  PROVE  AttemptOK(a)'
<1>0. AttemptOK(a) /\ Types /\ AnswerTypes /\ CallTypes /\ WorkerStays(a)
  BY HandlerStays DEF Inv, Types, HandlerAct
<1>1. /\ aLoop[a] = "respond" /\ aLoop'[a] = IF payload[a] = "err" THEN "ok" ELSE "loop"
      /\ UNCHANGED <<ansPc, cur, cLoop, toAns, toSrv, haveInit, payload, doneOK>>
  BY <1>0 DEF Respond, wireVars, histVars, AnswerTypes
<1>2. ansPc[a] = "loops" /\ ~Early(a) /\ ~Early(a)' /\ Live(a) /\ cur[a] \in Calls /\ cur[a] # None
  BY <1>0, <1>1, HasOffer DEF AttemptOK, PhaseOK, Early, Live
<1>3. wPc[a] \notin {"idle", "recv", "connect"} /\ cur[a] \notin doneOK
  BY <1>0, <1>1, <1>2 DEF AttemptOK, BeforeInit, StreamOK
<1>4. PhaseOK(a)'
  BY <1>0, <1>1, <1>2 DEF AttemptOK, PhaseOK, Early, WorkerStays
<1>5. BeforeInit(a)'
  BY <1>0, <1>2, <1>3 DEF BeforeInit, WorkerStays
<1>6. GatherOK(a)'
  BY <1>0, <1>1, <1>2 DEF AttemptOK, GatherOK, WorkerStays
<1>7. StreamOK(a)'
  <2>1. InitSent(a)' <=> InitSent(a)
    BY <1>0 DEF InitSent, WorkerStays
  <2>2. aLoop'[a] # "respond"
    BY <1>1
  <2> QED
    BY <1>0, <1>1, <1>2, <1>3, <2>1, <2>2 DEF AttemptOK, StreamOK, WorkerStays
<1>8. CASE payload[a] # "err" /\ got' = [got EXCEPT ![cur[a]] = Append(@, payload[a])] /\ result' = result
  <2>1. PICK g \in Nat, n \in Nat, w \in Nat, p \in Nat :
          g = Len(got[cur[a]]) /\ n = Len(toSrv[a]) /\ w = wcand[a] /\ p = pend[a]
    BY <1>0, <1>2, CountTypes
  <2>2. Len(got'[cur'[a]]) = g + 1
    <3>1. got[cur[a]] \in Seq({"init", "upd"})
      BY <1>0, <1>2, CountTypes
    <3>2. got'[cur[a]] = Append(got[cur[a]], payload[a])
      BY <1>0, <1>2, <1>8 DEF CallTypes
    <3>3. Len(Append(got[cur[a]], payload[a])) = Len(got[cur[a]]) + 1
      BY <3>1
    <3> QED
      BY <1>1, <2>1, <3>2, <3>3
  <2>3. Responding(a) = 1 /\ Responding(a)' = 0
    BY <1>1, <1>8 DEF Responding
  <2>4. Undisturbed(a)' <=> Undisturbed(a)
    BY <1>0, <1>1, <1>8 DEF Undisturbed, WorkerStays
  <2>5. \A k \in Int : g + 1 + n = k <=> (g + 1) + 0 + n = k
    OBVIOUS
  <2>6. /\ Len(got[cur[a]]) + Responding(a) + Len(toSrv[a]) = g + 1 + n
        /\ Len(got'[cur'[a]]) + Responding(a)' + Len(toSrv'[a]) = (g + 1) + 0 + n
    BY <1>1, <2>1, <2>2, <2>3
  <2>7. /\ Len(got'[cur'[a]]) + Responding(a)' + Len(toSrv'[a])
             = Len(got[cur[a]]) + Responding(a) + Len(toSrv[a])
    BY <2>6
  <2>8. cur'[a] \notin doneOK'
    BY <1>1, <1>3
  <2> HIDE DEF Responding
  <2>9. CountOK(a)'
    BY <1>0, <1>1, <1>2, <1>8, <2>4, <2>7, <2>8 DEF AttemptOK, CountOK, WorkerStays
  <2> QED
    BY <1>4, <1>5, <1>6, <1>7, <2>9 DEF AttemptOK
<1>9. CASE result' = [result EXCEPT ![cur[a]] = "err"]
  <2>1. ~Undisturbed(a)'
    BY <1>0, <1>1, <1>2, <1>9 DEF Undisturbed, CallTypes
  <2>2. CountOK(a)'
    BY <2>1 DEF CountOK
  <2> QED
    BY <1>4, <1>5, <1>6, <1>7, <2>2 DEF AttemptOK
<1> QED
  BY <1>8, <1>9, RespondIs

\* Every handler's step keeps what the invariant says of every attempt.
LEMMA HandlerKeeps ==
  ASSUME Inv, NEW a \in Attempts, HandlerAct(a), NEW b \in Attempts
  PROVE  AttemptOK(b)'
<1>1. CASE b = a
  BY <1>1, AnswerStartKeeps, RecvOfferKeeps, AnswerFailKeeps, AnswerSendInitKeeps,
     AnswerRegisterKeeps, CallerLoopKeeps, LoopRecvKeeps, RespondKeeps, LoopEndKeeps DEF HandlerAct
<1>2. CASE b # a
  BY <1>2, HandlerOthers
<1> QED
  BY <1>1, <1>2

----------------------------------------------------------------------------
(* Responses. *)

\* An attempt nothing of which changed keeps its relation to its call.
LEMMA KeptResponse ==
  ASSUME NEW b \in Attempts, ResponseOK(b), Kept(b)
  PROVE  ResponseOK(b)'
BY DEF ResponseOK, Kept

\* A step keeps the relation between haveInit of a handler and what its call
\* received.
LEMMA ResponsesNext ==
  ASSUME Inv, Next, NEW b \in Attempts
  PROVE  ResponseOK(b)'
<1>0. ResponseOK(b)
  BY DEF Inv
<1>1. ASSUME NEW c \in Calls, CallAct(c) PROVE ResponseOK(b)'
  BY <1>0, <1>1, CallKeeps, KeptResponse
<1>2. ASSUME NEW a \in Attempts, HandlerAct(a), b # a PROVE ResponseOK(b)'
  BY <1>0, <1>2, HandlerOthers, KeptResponse
<1>3. ASSUME HandlerAct(b) PROVE ResponseOK(b)'
  <2>0. Types /\ AnswerTypes /\ CallTypes /\ PhaseOK(b) /\ StreamOK(b) /\ BeforeInit(b)
    BY DEF Inv, Types, AttemptOK
  <2>1. CASE AnswerStart(b) \/ AnswerFail(b) \/ AnswerSendInit(b)
    <3>1. /\ UNCHANGED <<cur, callPc, got, aLoop, payload, haveInit>>
          /\ ansPc[b] \notin {"loops", "over"}
      BY <2>0, <2>1 DEF AnswerStart, AnswerFail, AnswerSendInit, callVars, loopVars
    <3> QED
      BY <1>0, <3>1 DEF ResponseOK
  <2>2. CASE RecvOffer(b)
    <3>1. PICK c \in offering : cur'[b] = c
      BY <2>0, <2>2 DEF RecvOffer, AnswerTypes
    <3>2. got[c] = <<>>
      <4>1. OfferOK(c)
        BY DEF Inv, Types, CallTypes
      <4> QED
        BY <4>1 DEF OfferOK
    <3>3. /\ UNCHANGED <<callPc, got, aLoop, payload, haveInit>> /\ ansPc[b] = "recvOffer"
      BY <2>2 DEF RecvOffer, callVars, loopVars
    <3>4. aLoop[b] = "off" /\ b \notin haveInit
      BY <1>0, <2>0, <3>3 DEF PhaseOK, ResponseOK
    <3> QED
      BY <3>1, <3>2, <3>3, <3>4 DEF ResponseOK
  <2>3. CASE AnswerRegister(b)
    <3>1. /\ UNCHANGED <<cur, callPc, got, payload, haveInit>>
          /\ ansPc[b] = "register" /\ aLoop'[b] = "loop"
      BY <2>0, <2>3 DEF AnswerRegister, callVars, AnswerTypes
    <3> QED
      BY <1>0, <3>1 DEF ResponseOK
  <2>4. CASE CallerLoop(b) \/ CallerLoopEnd(b)
    <3>1. UNCHANGED <<cur, callPc, got, aLoop, payload, haveInit, ansPc>>
      BY <2>4 DEF CallerLoop, CallerLoopEnd, callVars
    <3> QED
      BY <1>0, <3>1 DEF ResponseOK
  <2>5. CASE RespondFail(b) \/ AnswererLoopEnd(b) \/ AnswerReturn(b)
    <3>1. /\ UNCHANGED <<cur, callPc, got, haveInit>> /\ aLoop[b] # "off"
          /\ aLoop'[b] \in {"fail", "wait", "off"}
          /\ ansPc' = ansPc \/ ansPc'[b] = "over"
      BY <2>0, <2>5 DEF RespondFail, AnswererLoopEnd, AnswerReturn, callVars, AnswerTypes
    <3> QED
      BY <1>0, <3>1 DEF ResponseOK
  <2>6. CASE AnswererLoopRecv(b)
    <3>1. UNCHANGED <<cur, callPc, got, ansPc>> /\ aLoop[b] = "loop"
      BY <2>6 DEF AnswererLoopRecv, callVars
    <3>2. ansPc[b] = "loops" /\ cur[b] # None
      BY <2>0, <3>1, HasOffer DEF PhaseOK
    <3>3. CASE aLoop' = [aLoop EXCEPT ![b] = "fail"] /\ UNCHANGED haveInit
      <4>1. aLoop'[b] = "fail"
        BY <2>0, <3>3 DEF AnswerTypes
      <4> QED
        BY <1>0, <3>1, <3>3, <4>1 DEF ResponseOK
    <3>4. CASE \E x \in Stages :
                 /\ payload' = [payload EXCEPT ![b] = x]
                 /\ \/ x = "done" /\ aLoop' = [aLoop EXCEPT ![b] = "ok"]
                    \/ /\ aLoop' = [aLoop EXCEPT ![b] = "respond"]
                       /\ (b \in haveInit) = (x \in {"upd", "done"}) \/ x = "err"
                 /\ haveInit' = IF x = "init" THEN haveInit \cup {b} ELSE haveInit
      <4>1. PICK x \in Stages :
                 /\ payload' = [payload EXCEPT ![b] = x]
                 /\ \/ x = "done" /\ aLoop' = [aLoop EXCEPT ![b] = "ok"]
                    \/ /\ aLoop' = [aLoop EXCEPT ![b] = "respond"]
                       /\ (b \in haveInit) = (x \in {"upd", "done"}) \/ x = "err"
                 /\ haveInit' = IF x = "init" THEN haveInit \cup {b} ELSE haveInit
        BY <3>4
      <4>2. payload'[b] = x
        BY <2>0, <4>1 DEF AnswerTypes
      <4>3. CASE x = "done" /\ aLoop' = [aLoop EXCEPT ![b] = "ok"]
        <5>1. aLoop'[b] = "ok" /\ haveInit' = haveInit
          BY <2>0, <4>1, <4>3 DEF AnswerTypes
        <5> QED
          BY <1>0, <3>1, <5>1 DEF ResponseOK
      <4>4. CASE /\ aLoop' = [aLoop EXCEPT ![b] = "respond"]
                 /\ (b \in haveInit) = (x \in {"upd", "done"}) \/ x = "err"
        <5>1. aLoop'[b] = "respond"
          BY <2>0, <4>4 DEF AnswerTypes
        <5>2. CASE x = "init"
          <6>1. b \notin haveInit /\ b \in haveInit'
            BY <4>1, <4>4, <5>2
          <6> QED
            BY <1>0, <3>1, <3>2, <4>2, <5>1, <5>2, <6>1 DEF ResponseOK
        <5>3. CASE x = "err"
          <6>1. haveInit' = haveInit
            BY <4>1, <5>3
          <6> QED
            BY <1>0, <3>1, <4>2, <5>1, <5>3, <6>1 DEF ResponseOK
        <5>4. CASE x \in {"upd", "done"}
          <6>1. b \in haveInit /\ haveInit' = haveInit /\ x # "init"
            BY <4>1, <4>4, <5>4
          <6> QED
            BY <1>0, <3>1, <4>2, <5>1, <6>1 DEF ResponseOK
        <5> QED
          BY <5>2, <5>3, <5>4 DEF Stages
      <4> QED
        BY <4>1, <4>3, <4>4
    <3>5. CASE ~(aLoop' = [aLoop EXCEPT ![b] = "fail"] /\ UNCHANGED haveInit)
      <4>1. toSrv[b] # <<>> /\ toSrv[b] \in Seq(Stages)
        BY <2>0, <2>6, <3>5 DEF AnswererLoopRecv, AnswerTypes
      <4>2. PICK x, ok :
              /\ x = Head(toSrv[b])
              /\ ok = ((b \in haveInit) = (x \in {"upd", "done"}) \/ x = "err")
              /\ aLoop' = [aLoop EXCEPT ![b] = IF ~ok THEN "fail"
                                               ELSE IF x = "done" THEN "ok" ELSE "respond"]
              /\ haveInit' = IF x = "init" THEN haveInit \cup {b} ELSE haveInit
              /\ payload' = [payload EXCEPT ![b] = x]
        BY <2>6, <3>5 DEF AnswererLoopRecv
      <4>3. x \in Stages
        BY <4>1, <4>2, TailIs
      <4>4. CASE ok
        BY <3>4, <4>2, <4>3, <4>4
      <4>5. CASE ~ok
        <5>1. aLoop'[b] = "fail" /\ haveInit' \subseteq haveInit \cup {b}
          BY <2>0, <4>2, <4>5 DEF AnswerTypes
        <5>2. b \notin haveInit' => b \notin haveInit
          BY <4>2
        <5> QED
          BY <1>0, <3>1, <3>2, <5>1, <5>2 DEF ResponseOK
      <4> QED
        BY <4>4, <4>5
    <3> QED
      BY <3>3, <3>5
  <2>7. CASE Respond(b)
    <3>1. /\ UNCHANGED <<cur, haveInit, ansPc, payload>> /\ aLoop[b] = "respond"
          /\ callPc[cur[b]] = "loop" /\ aLoop'[b] \in {"ok", "loop"}
      BY <2>0, <2>7 DEF Respond, AnswerTypes
    <3>2. cur[b] \in Calls /\ cur[b] # None
      BY <2>0, <3>1, HasOffer
    <3>3. CASE /\ payload[b] # "err" /\ callPc' = callPc
               /\ got' = [got EXCEPT ![cur[b]] = Append(@, payload[b])]
      <4>1. got'[cur[b]] # <<>>
        <5>1. got'[cur[b]] = Append(got[cur[b]], payload[b])
          BY <2>0, <3>2, <3>3 DEF CallTypes
        <5>2. got[cur[b]] \in Seq({"init", "upd"}) /\ payload[b] \in Stages
          BY <2>0, <3>2 DEF CallTypes, AnswerTypes
        <5>3. got[cur[b]] \in Seq(Stages)
          BY <5>2 DEF Stages
        <5>4. Append(got[cur[b]], payload[b]) # <<>>
          BY <5>2, <5>3, AppendIs
        <5> QED
          BY <5>1, <5>4
      <4>2. b \in haveInit
        BY <1>0, <3>1, <3>3 DEF ResponseOK
      <4> QED
        BY <1>0, <3>1, <4>1, <4>2 DEF ResponseOK
    <3>4. CASE callPc' = [callPc EXCEPT ![cur[b]] = "defer"]
      <4>1. callPc'[cur[b]] # "loop"
        BY <2>0, <3>2, <3>4 DEF CallTypes
      <4> QED
        BY <1>0, <3>1, <4>1 DEF ResponseOK
    <3> QED
      BY <2>7, <3>3, <3>4, RespondIs
  <2> QED
    BY <1>3, <2>1, <2>2, <2>3, <2>4, <2>5, <2>6, <2>7 DEF HandlerAct
<1>4. ASSUME NEW a \in Attempts, WorkerAct(a) PROVE ResponseOK(b)'
  <2>1. UNCHANGED <<cur, callPc, got, aLoop, payload, haveInit>>
    BY <1>4, WorkerFrame
  <2>2. CASE ansPc' = ansPc
    BY <1>0, <2>1, <2>2 DEF ResponseOK
  <2>3. CASE ansPc' # ansPc
    <3>1. WOpen(a)
      BY <1>4, <2>3, WorkerStill DEF StillThere
    <3>2. wPc[a] = "idle" /\ ansPc' = [ansPc EXCEPT ![a] = "start"]
      BY <3>1 DEF WOpen
    <3>3. ansPc[a] = "none"
      BY <3>2 DEF Inv, AttemptOK, PhaseOK
    <3>4. b \in haveInit => ansPc'[b] \in {"loops", "over"}
      BY <1>0, <3>2, <3>3 DEF ResponseOK, Inv, Types, AnswerTypes
    <3> QED
      BY <1>0, <2>1, <3>4 DEF ResponseOK
  <2> QED
    BY <2>2, <2>3
<1>5. ASSUME OtherAct PROVE ResponseOK(b)'
  BY <1>0, <1>5, OtherFrame DEF ResponseOK
<1> QED
  BY <1>1, <1>2, <1>3, <1>4, <1>5, NextCases

----------------------------------------------------------------------------
(* The theorems. *)

\* The initial states satisfy the invariant.
LEMMA InitInv ==
  ASSUME Init
  PROVE  Inv
<1>1. QueueTypes
  BY SignalingAssumption DEF Init, QueueTypes
<1>2. CallTypes
  <2>1. got \in [Calls -> Seq({"init", "upd"})] /\ ncand \in [Calls -> 0..CallerCands]
    BY SignalingAssumption DEF Init
  <2> QED
    BY <2>1 DEF Init, CallTypes
<1>3. AnswerTypes
  <2>1. toAns \in [Attempts -> Seq(Stages)] /\ toSrv \in [Attempts -> Seq(Stages)]
    BY DEF Init
  <2>2. cur \in [Attempts -> Calls \cup {None}] /\ payload \in [Attempts -> Stages]
    BY DEF Init, Stages
  <2> QED
    BY <2>1, <2>2 DEF Init, AnswerTypes
<1>4. WorkerTypes
  BY SignalingAssumption DEF Init, WorkerTypes
<1>5. CloseOK /\ OneHolder
  BY DEF Init, CloseOK, OneHolder
<1>6. ASSUME NEW c \in Calls PROVE OfferOK(c)
  BY SignalingAssumption DEF Init, OfferOK
<1>7. ASSUME NEW a \in Attempts PROVE AttemptOK(a) /\ ResponseOK(a)
  <2>1. /\ ansPc[a] = "none" /\ wPc[a] = "idle" /\ cur[a] = None /\ toAns[a] = <<>>
        /\ toSrv[a] = <<>> /\ aLoop[a] = "off" /\ cLoop[a] = "off" /\ wcand[a] = 0 /\ pend[a] = 0
        /\ gathering[a] = "on" /\ haveInit = {} /\ sentDone = {} /\ readerDone = {}
        /\ byGather = {} /\ doneOK = {}
    BY DEF Init
  <2>2. PhaseOK(a) /\ BeforeInit(a)
    BY <2>1 DEF PhaseOK, BeforeInit, Early
  <2>3. GatherOK(a)
    BY <2>1 DEF GatherOK
  <2>4. StreamOK(a)
    BY <2>1 DEF StreamOK, Live
  <2>5. CountOK(a)
    BY <2>1 DEF CountOK, Undisturbed
  <2>6. ResponseOK(a)
    BY <2>1 DEF ResponseOK
  <2> QED
    BY <2>2, <2>3, <2>4, <2>5, <2>6 DEF AttemptOK
<1> QED
  BY <1>1, <1>2, <1>3, <1>4, <1>5, <1>6, <1>7 DEF Inv, Types

\* Every step keeps the invariant.
LEMMA NextInv ==
  ASSUME Inv, [Next]_vars
  PROVE  Inv'
<1>1. CASE Next
  <2>1. Types' /\ CloseOK' /\ OneHolder' /\ \A c \in Calls : OfferOK(c)'
    BY <1>1, TypesNext, CloseNext, OffersNext
  <2>2. ASSUME NEW a \in Attempts PROVE AttemptOK(a)' /\ ResponseOK(a)'
    BY <1>1, NextCases, CallKeeps, HandlerKeeps, WorkerKeeps, OtherKeeps, ResponsesNext
  <2> QED
    BY <2>1, <2>2 DEF Inv
<1>2. CASE UNCHANGED vars
  <2>1. /\ UNCHANGED <<hostQueues, nqueues, active, offering, qOf, answererDone, callerDone>>
        /\ UNCHANGED <<callerErr, expired, qClosed, callPc, callCtx, got, result, errSend>>
        /\ UNCHANGED <<upd, ncand, ansPc, aq, cur, aLoop, cLoop, haveInit, stopped, cancelled>>
        /\ UNCHANGED <<payload, toAns, toSrv, up, srvClosed, closePc, workers, ansState, wPc>>
        /\ UNCHANGED <<sentDone, readerDone, wcand, pend, gathering, doneOK, byGather, silent>>
    BY <1>2 DEF vars, queueVars, callVars, ansVars, loopVars, wireVars, srvVars, workVars, histVars
  <2>2. Types'
    BY <2>1 DEF Inv, Types, QueueTypes, CallTypes, AnswerTypes, WorkerTypes
  <2>3. CloseOK' /\ OneHolder' /\ \A c \in Calls : OfferOK(c)'
    BY <2>1 DEF Inv, CloseOK, OneHolder, OfferOK
  <2>4. ASSUME NEW a \in Attempts PROVE AttemptOK(a)' /\ ResponseOK(a)'
    <3>1. AttemptOK(a) /\ ResponseOK(a) /\ Kept(a)
      BY <2>1 DEF Inv, Kept
    <3> QED
      BY <3>1, KeptOK, KeptResponse
  <2> QED
    BY <2>2, <2>3, <2>4 DEF Inv
<1> QED
  BY <1>1, <1>2

\* The inductive invariant: an offer has one holder, stages are on the stream in
\* the order answererLoop reads them in, and no candidate is lost on the way.
THEOREM Invariance == Spec => []Inv
<1>1. Init => Inv
  BY InitInv
<1>2. Inv /\ [Next]_vars => Inv'
  BY NextInv
<1> QED
  BY <1>1, <1>2, PTL DEF Spec

\* An attempt keeps the offer it took, and no other attempt gets that offer.
OfferStays ==
  \A a \in Attempts : cur[a] # None =>
    /\ cur'[a] = cur[a] /\ cur[a] \notin offering'
    /\ \A b \in Attempts : cur'[b] = cur[a] => b = a

\* A step never hands out an offer a second time.
LEMMA OfferStaysNext ==
  ASSUME Inv, Next
  PROVE  OfferStays
<1>0. OneHolder' /\ \A d \in Calls : OfferOK(d)'
  BY OffersNext
<1>1. AnswerTypes /\ AnswerTypes'
  BY TypesNext DEF Inv, Types
<1>2. \A a \in Attempts : cur[a] # None => cur'[a] = cur[a]
  <2>1. ASSUME NEW a \in Attempts, HandlerAct(a), NEW b \in Attempts, cur[b] # None
        PROVE  cur'[b] = cur[b]
    <3>1. CASE RecvOffer(a)
      <4>1. cur[a] = None
        BY <3>1 DEF RecvOffer, Inv, AttemptOK, PhaseOK
      <4>2. PICK c : cur' = [cur EXCEPT ![a] = c]
        BY <3>1 DEF RecvOffer
      <4> QED
        BY <1>1, <2>1, <4>1, <4>2 DEF AnswerTypes
    <3>2. CASE ~RecvOffer(a)
      <4>1. cur' = cur
        BY <2>1, <3>2 DEF HandlerAct, AnswerStart, AnswerFail, AnswerSendInit, AnswerRegister,
           CallerLoop, CallerLoopEnd, AnswererLoopRecv, Respond, RespondFail, AnswererLoopEnd,
           AnswerReturn, ansVars
      <4> QED
        BY <4>1
    <3> QED
      BY <3>1, <3>2
  <2>2. (\E c \in Calls : CallAct(c)) \/ (\E a \in Attempts : WorkerAct(a)) \/ OtherAct => cur' = cur
    BY CallFrame, WorkerFrame, OtherFrame
  <2> QED
    BY <2>1, <2>2, NextCases
<1>3. ASSUME NEW a \in Attempts, cur[a] # None
      PROVE  cur[a] \notin offering' /\ \A b \in Attempts : cur'[b] = cur[a] => b = a
  <2>1. cur'[a] = cur[a] /\ cur[a] \in Calls
    BY <1>1, <1>2, <1>3 DEF AnswerTypes
  <2>2. cur[a] \notin offering'
    BY <1>0, <2>1 DEF OfferOK
  <2> QED
    BY <1>0, <1>3, <2>1, <2>2 DEF OneHolder
<1> QED
  BY <1>2, <1>3 DEF OfferStays

\* RecvOffer hands an offer to one attempt for good: whatever fails afterwards,
\* the offer is neither taken away nor put back nor given to another Answer.
THEOREM OfferHandedOnce == Spec => [][OfferStays]_vars
<1>1. Inv /\ [Next]_vars => [OfferStays]_vars
  BY OfferStaysNext
<1> QED
  BY <1>1, Invariance, PTL DEF Spec

\* The invariant gives the types.
LEMMA InvTypeOK ==
  ASSUME Inv
  PROVE  TypeOK
<1>1. /\ hostQueues \in [Hosts -> 0..nqueues] /\ nqueues \in 0..Cardinality(Hosts)
      /\ qOf \in [Calls -> 0..nqueues] /\ aq \in [Attempts -> 0..nqueues]
  BY QueueBound DEF Inv, Types, QueueTypes
<1>2. \A c \in Calls : \A i \in DOMAIN got[c] : got[c][i] \in {"init", "upd"}
  <2>1. ASSUME NEW c \in Calls PROVE got[c] \in Seq({"init", "upd"})
    BY DEF Inv, Types, CallTypes
  <2> QED
    BY <2>1
<1>3. /\ \A a \in Attempts : \A i \in DOMAIN toAns[a] : toAns[a][i] \in Stages
      /\ \A a \in Attempts : \A i \in DOMAIN toSrv[a] : toSrv[a][i] \in Stages
  <2>1. ASSUME NEW a \in Attempts PROVE toAns[a] \in Seq(Stages) /\ toSrv[a] \in Seq(Stages)
    BY DEF Inv, Types, AnswerTypes
  <2> QED
    BY <2>1
<1>4. \A a \in Attempts : ansPc[a] \in {"sendInit", "register", "loops"} => cur[a] # None
  BY DEF Inv, AttemptOK, PhaseOK
<1>5. CallTypes /\ AnswerTypes /\ WorkerTypes
  BY DEF Inv, Types
<1> QED
  BY <1>1, <1>2, <1>3, <1>4, <1>5 DEF TypeOK, CallTypes, AnswerTypes, WorkerTypes

\* The invariant gives the order of stages at the Answer handler.
LEMMA InvStagesInOrder ==
  ASSUME Inv
  PROVE  StagesInOrder
<1>1. ASSUME NEW a \in Attempts, toSrv[a] # <<>>
      PROVE  IF a \in haveInit THEN Head(toSrv[a]) # "init" ELSE Head(toSrv[a]) \in {"init", "err"}
  <2>1. StreamOK(a) /\ toSrv[a] \in Seq(Stages)
    BY DEF Inv, AttemptOK, Types, AnswerTypes
  <2>2. PICK s : s = toSrv[a]
    OBVIOUS
  <2>3. s \in Seq(Stages) /\ s # <<>>
    BY <1>1, <2>1, <2>2
  <2>4. Head(s) = s[1] /\ Len(s) \in Nat /\ Len(s) >= 1
    BY <2>3, TailIs
  <2>5. 1 \in 1..Len(s)
    BY <2>4
  <2>6. a \in haveInit => s[1] # "init"
    BY <2>1, <2>2, <2>5 DEF StreamOK
  <2>7. a \notin haveInit => s[1] = "init" \/ s = <<"err">>
    BY <1>1, <2>1, <2>2 DEF StreamOK
  <2>8. s = <<"err">> => s[1] = "err"
    OBVIOUS
  <2> QED
    BY <2>2, <2>4, <2>6, <2>7, <2>8
<1> QED
  BY <1>1 DEF StagesInOrder

\* The invariant gives the order of stages at Call.
LEMMA InvCallStagesInOrder ==
  ASSUME Inv
  PROVE  CallStagesInOrder
<1> SUFFICES ASSUME NEW a \in Attempts, aLoop[a] = "respond", callPc[cur[a]] = "loop"
             PROVE  /\ payload[a] \in {"init", "err"} \/ got[cur[a]] # <<>>
                    /\ payload[a] = "init" => got[cur[a]] = <<>>
  BY DEF CallStagesInOrder
<1>1. ResponseOK(a) /\ PhaseOK(a) /\ Types
  BY DEF Inv, AttemptOK
<1>2. cur[a] # None
  BY <1>1, HasOffer
<1> QED
  BY <1>1, <1>2 DEF ResponseOK

\* The invariant gives that a done stage completes its caller.
LEMMA InvCompleteOnDone ==
  ASSUME Inv
  PROVE  CompleteOnDone
<1> SUFFICES ASSUME NEW a \in Attempts, a \in byGather, cur[a] \in doneOK, result[cur[a]] = "ok",
                    cur[a] \notin expired, ansState = "on"
             PROVE  Len(got[cur[a]]) = wcand[a] + 1
  BY DEF CompleteOnDone
<1>1. cur[a] # None
  BY SignalingAssumption DEF Inv, Types, CallTypes
<1>2. Undisturbed(a)
  BY <1>1 DEF Undisturbed
<1>3. Len(got[cur[a]]) = 1 + wcand[a]
  BY <1>2 DEF Inv, AttemptOK, CountOK
<1>4. wcand[a] \in Nat
  BY <1>1, CountTypes DEF Inv
<1> QED
  BY <1>3, <1>4

\* The Answer handler never reads a stage out of order, although candidates are
\* sent by goroutines of their own; a Call that ended well after the answerer's
\* done has passed every candidate on; and Close returns with no callerLoop left.
THEOREM Exchange == Spec => []ExchangeInv
<1>1. Inv => ExchangeInv
  <2>1. Inv => CloseWaitsForExchanges
    BY DEF Inv, CloseOK, CloseWaitsForExchanges
  <2> QED
    BY <2>1, InvTypeOK, InvStagesInOrder, InvCallStagesInOrder,
       InvCompleteOnDone DEF ExchangeInv
<1> QED
  BY <1>1, Invariance, PTL

=============================================================================
