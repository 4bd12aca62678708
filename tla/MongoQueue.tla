----------------------------- MODULE MongoQueue -----------------------------
(***************************************************************************)
(* mongoDBWebRTCCallQueue (rpc/wrtc_call_queue_mongodb.go): the call queue *)
(* that several servers, its operators, share through two MongoDB          *)
(* collections. A call is a document; who waits for it learns of changes   *)
(* through the operator's one change stream (mongo/change_stream.go),      *)
(* which the changeStreamManager replaces whenever the set of hosts with   *)
(* waiting answerers grows.                                                *)
(*                                                                         *)
(* The oplog of the calls collection is a sequence of changes and a        *)
(* cluster time is an index into it. A stream looks the full document of   *)
(* an update up when it reads it, an insert carries the inserted document. *)
(* A deletion has no document, so the $match stage of Watch lets no        *)
(* deletion through and it is not in the sequence.                         *)
(*                                                                         *)
(* A call is one SendOfferInit with the Call handler that serves it, an    *)
(* answerer is one RecvOffer with its Answer handler. Responses of the     *)
(* answerer are counted: the first is the SDP, the others are candidates.  *)
(***************************************************************************)
EXTENDS Naturals, Sequences, FiniteSets, FiniteSetsExt

CONSTANTS
  Operators, Calls, Answerers, Hosts, None,
  CallerOf,    \* the operator a call comes in at
  HostOf,      \* the host a call is for
  AnswererOf,  \* the operator an answerer is connected to
  HostsOf,     \* the hosts an answerer answers for
  MaxHostCallers, MaxHostAnswerers,  \* maxHostCallers, maxHostAnswerersSize * 2
  ExchangeCap, \* buffer of the channel of subscribeToCall (50 in the code)
  MaxSaid,     \* bound: responses of an answerer
  MaxEvents    \* bound, on all together: candidates of callers, lost peers, database
               \* failures, crashes and Close

ASSUME MongoQueueAssumption ==
  /\ CallerOf \in [Calls -> Operators] /\ HostOf \in [Calls -> Hosts]
  /\ AnswererOf \in [Answerers -> Operators] /\ HostsOf \in [Answerers -> SUBSET Hosts]
  /\ MaxHostCallers \in Nat \ {0} /\ MaxHostAnswerers \in Nat \ {0} /\ ExchangeCap \in Nat \ {0}
  /\ MaxSaid \in Nat /\ MaxEvents \in Nat
  /\ None \notin Answerers \cup Operators \cup Calls

VARIABLES
  doc,     \* the calls collection
  log,     \* its oplog
  age,     \* of an offer: fresh, late (close to its deadline), expired
  sizes,   \* the largest caller_size and answerer_size a heartbeat may have stored
  oper,    \* per operator: the queue's own state
  caller,  \* per call: SendOfferInit's goroutine and the Call handler
  ans,     \* per answerer: RecvOffer, its goroutine and the Answer handler
  holder,  \* history: who took a call
  events

vars == <<doc, log, age, sizes, oper, caller, ans, holder, events>>

NoDoc == [st |-> "none", answered |-> FALSE, op |-> None, said |-> 0, adone |-> FALSE,
          aerr |-> FALSE, csaid |-> 0, cdone |-> FALSE, cerr |-> FALSE]
NewDoc == [NoDoc EXCEPT !.st = "live"]

NoSizes == [h \in Hosts |-> [callers |-> 0, answerers |-> 0]]

\* A change stream starts at the last event that was processed, or after its
\* resume token, and what is not later than that event is skipped; so a stream
\* is the hosts of its $match, and its position is last.
NewOper == [st |-> "up",
            dirty |-> FALSE,    \* csManagerSeq is not the manager's lastSeq
            last |-> 0,         \* csLastEventClusterTime or csLastResumeToken
            tracking |-> {},    \* csTrackingHosts
            waiting |-> {},     \* csAnswerersWaitingForNextCS
            mgr |-> "idle", readyFuncs |-> {}, next |-> {}, \* changeStreamManager
            sub |-> "run", cs |-> {}]                      \* subscriptionManager
NewCaller == [pc |-> "none", ctx |-> FALSE, ev |-> <<>>, heard |-> 0, told |-> FALSE,
              lost |-> FALSE] \* the last event went by: the channel was full, or not there
NewAns == [pc |-> "none", ctx |-> FALSE, ready |-> FALSE, sent |-> FALSE, ev |-> None,
           cur |-> None, x |-> "off", xev |-> <<>>, cheard |-> 0, lost |-> FALSE]

\* NewMongoDBWebRTCCallQueue has returned on every operator: its document is in
\* the operators collection and its first change stream, of no host, is running.
Init ==
  /\ doc = [c \in Calls |-> NoDoc] /\ log = <<>> /\ age = [c \in Calls |-> "fresh"]
  /\ sizes = [o \in Operators |-> NoSizes]
  /\ oper = [o \in Operators |-> NewOper]
  /\ caller = [c \in Calls |-> NewCaller] /\ ans = [a \in Answerers |-> NewAns]
  /\ holder = [c \in Calls |-> None] /\ events = 0

Event == events < MaxEvents /\ events' = events + 1
Up(o) == oper[o].st = "up"

----------------------------------------------------------------------------
(* MongoDB *)

\* UpdateOne: a write that changes nothing leaves no trace in the oplog.
Write(c, d) ==
  /\ doc' = [doc EXCEPT ![c] = d]
  /\ log' = IF d = doc[c] THEN log ELSE Append(log, [kind |-> "update", c |-> c])

Live(c) == doc[c].st = "live"

\* The index rpc_call_expire removes a call after its deadline.
CallTTL(c) ==
  /\ Live(c) /\ age[c] = "expired"
  /\ doc' = [doc EXCEPT ![c] = [@ EXCEPT !.st = "gone", !.adone = FALSE, !.aerr = FALSE,
                                         !.cdone = FALSE, !.cerr = FALSE]]
  /\ UNCHANGED <<log, age, sizes, oper, caller, ans, holder, events>>

\* Time passes for an offer: _defaultOfferDeadline and its close-to-expired part.
Grow(c) ==
  /\ doc[c].st # "none" /\ age[c] # "expired"
  /\ age' = [age EXCEPT ![c] = IF @ = "fresh" /\ ~doc[c].answered THEN "late" ELSE "expired"]
  /\ UNCHANGED <<doc, log, sizes, oper, caller, ans, holder, events>>

\* Watch's $match: insert or update of a document of this operator or host.
Matches(o, hs, c, d) ==
  d.st = "live" /\ (CallerOf[c] = o \/ d.op = o \/ HostOf[c] \in hs)

\* An insert carries its document, for an update it is looked up.
FullDocument(i) == IF log[i].kind = "insert" THEN NewDoc ELSE doc[log[i].c]

\* The events the current stream of o has not delivered.
Pending(o) ==
  {i \in oper[o].last + 1 .. Len(log) : Matches(o, oper[o].cs, log[i].c, FullDocument(i))}

\* The stream in use fails or is invalidated: it says so and ends, and
\* subscriptionManager waits for the next.
StreamFails(o) ==
  /\ Up(o) /\ oper[o].sub = "run" /\ Event
  /\ oper' = [oper EXCEPT ![o].dirty = TRUE, ![o].sub = "wait"]
  /\ UNCHANGED <<doc, log, age, sizes, caller, ans, holder>>

----------------------------------------------------------------------------
(* Subscriptions *)

\* waitingForNewCallSubs: the answerers of o subscribed for new calls on h
Subscribed(a) == ans[a].pc \in {"sub", "find", "wait"}
WaitingFor(o, h) == {a \in Answerers : AnswererOf[a] = o /\ h \in HostsOf[a] /\ Subscribed(a)}
WaitingHosts(o) == {h \in Hosts : WaitingFor(o, h) # {}}

\* callExchangeSubs, by side
CallerSubscribed(c) == caller[c].pc \in {"inserting", "open"}
Exchanging(a) == ans[a].x = "run"

----------------------------------------------------------------------------
(* operatorLivenessLoop and checkHostQueueSize *)

\* What a heartbeat of o stores for h, with the subscriptions given. An answerer
\* counts while it waits and, as an exchanger, until its exchange is over.
HostSizes(o, h, cal, wait) ==
  [callers |-> Cardinality({c \in cal : CallerOf[c] = o /\ HostOf[c] = h}),
   answerers |-> Cardinality({a \in wait : AnswererOf[a] = o /\ h \in HostsOf[a]})
     + Cardinality({a \in Answerers : AnswererOf[a] = o /\ Exchanging(a) /\ HostOf[ans[a].cur] = h})]

\* A heartbeat is stored every second and an operator that sends none is removed
\* after ten, so a size that is read is one of those since Init, or none. Only a
\* new subscription raises them.
Raise(cal, wait) ==
  sizes' = [o \in Operators |-> [h \in Hosts |->
    LET new == HostSizes(o, h, cal, wait)
    IN  [callers |-> Max({sizes[o][h].callers, new.callers}),
         answerers |-> Max({sizes[o][h].answerers, new.answerers})]]]

\* The aggregation over all operators may find the host at its limit.
TooManyCallers(h) ==
  MapThenSumSet(LAMBDA o : sizes[o][h].callers, Operators) >= MaxHostCallers
TooManyAnswerers(hs) ==
  \E h \in hs : MapThenSumSet(LAMBDA o : sizes[o][h].answerers, Operators) >= MaxHostAnswerers

----------------------------------------------------------------------------
(* subscribeForNewCallOnHosts *)

\* A subscription with a new handler: at once when all hosts are
\* tracked already, else the manager has to make a new change stream.
Subscribe(a, rec) ==
  LET o == AnswererOf[a]
      tracked == HostsOf[a] \subseteq oper[o].tracking
  IN  /\ ans' = [ans EXCEPT ![a] = [rec EXCEPT !.pc = IF tracked THEN "find" ELSE "sub",
                                              !.sent = FALSE, !.ev = None, !.ready = FALSE]]
      /\ oper' = IF tracked THEN oper
                 ELSE [oper EXCEPT ![o].waiting = @ \cup {a}, ![o].dirty = TRUE]
      /\ Raise({c \in Calls : CallerSubscribed(c)}, {b \in Answerers : b = a \/ Subscribed(b)})

----------------------------------------------------------------------------
(* changeStreamManager *)

\* A tick finds csManagerSeq changed: hosts and ready functions are taken under
\* the lock.
ManagerTick(o) ==
  /\ Up(o) /\ oper[o].mgr = "idle" /\ oper[o].dirty
  /\ oper' = [oper EXCEPT ![o].mgr = "watch", ![o].dirty = FALSE, ![o].next = WaitingHosts(o),
                          ![o].readyFuncs = oper[o].waiting, ![o].waiting = {}]
  /\ UNCHANGED <<doc, log, age, sizes, caller, ans, holder, events>>

\* Watch succeeds and the ready functions are called, ...
ManagerWatch(o) ==
  /\ Up(o) /\ oper[o].mgr = "watch"
  /\ ans' = [a \in Answerers |-> IF a \in oper[o].readyFuncs /\ ans[a].pc = "sub" THEN [ans[a] EXCEPT !.ready = TRUE]
                                 ELSE ans[a]]
  /\ oper' = [oper EXCEPT ![o].mgr = "track", ![o].readyFuncs = {}]
  /\ UNCHANGED <<doc, log, age, sizes, caller, holder, events>>

\* ... or it fails: the next tick tries again, without these ready functions.
ManagerWatchFails(o) ==
  /\ Up(o) /\ oper[o].mgr = "watch" /\ Event
  /\ oper' = [oper EXCEPT ![o].mgr = "idle", ![o].dirty = TRUE, ![o].readyFuncs = {},
                          ![o].next = {}]
  /\ UNCHANGED <<doc, log, age, sizes, caller, ans, holder>>

\* csTrackingHosts is set and ChangeStreamBackground starts.
ManagerTrack(o) ==
  /\ Up(o) /\ oper[o].mgr = "track"
  /\ oper' = [oper EXCEPT ![o].mgr = "started", ![o].tracking = oper[o].next]
  /\ UNCHANGED <<doc, log, age, sizes, caller, ans, holder, events>>

\* Mutant: the state of every new stream is recorded, not of the first only.
HandOverRecords(o) ==
  /\ Up(o) /\ oper[o].mgr = "started"
  /\ oper' = [oper EXCEPT ![o].mgr = "idle", ![o].cs = oper[o].next, ![o].next = {},
                          ![o].sub = "run", ![o].last = Len(log)]
  /\ UNCHANGED <<doc, log, age, sizes, caller, ans, holder, events>>

\* subscriptionManager takes the new stream; the old one is cancelled.
HandOver(o) ==
  /\ Up(o) /\ oper[o].mgr = "started"
  /\ oper' = [oper EXCEPT ![o].mgr = "idle", ![o].cs = oper[o].next, ![o].next = {},
                          ![o].sub = "run"]
  /\ UNCHANGED <<doc, log, age, sizes, caller, ans, holder, events>>

----------------------------------------------------------------------------
(* subscriptionManager *)

\* The event of a new call goes to one handler that has not had one.
NotifyAnswerer(o, c) ==
  LET free == {a \in WaitingFor(o, HostOf[c]) : ~ans[a].sent}
  IN  IF HostOf[c] \in oper[o].tracking /\ free # {}
      THEN \E a \in free : ans' = [ans EXCEPT ![a].sent = TRUE, ![a].ev = c]
      ELSE UNCHANGED ans

\* What each side reads of a document.
CallerView(d) == [said |-> d.said, adone |-> d.adone, aerr |-> d.aerr]
AnswererView(d) == [csaid |-> d.csaid, cdone |-> d.cdone, cerr |-> d.cerr]

\* A channel of subscribeToCall gets the event unless it is full.
Notify(ch, d) == IF Len(ch) < ExchangeCap THEN Append(ch, d) ELSE ch

NotifyExchange(o, c, d) ==
  /\ caller' = IF CallerOf[c] = o /\ CallerSubscribed(c)
               THEN [caller EXCEPT ![c].ev = Notify(@, CallerView(d)),
                                   ![c].lost = Len(caller[c].ev) = ExchangeCap] ELSE caller
  /\ ans' = [a \in Answerers |->
               IF AnswererOf[a] = o /\ Exchanging(a) /\ ans[a].cur = c
               THEN [ans[a] EXCEPT !.xev = Notify(@, AnswererView(d)),
                                   !.lost = Len(ans[a].xev) = ExchangeCap] ELSE ans[a]]

\* processNextSubscriptionEvent, with processClusterEventState.
ProcessNextEvent(o) ==
  /\ Up(o) /\ oper[o].sub = "run" /\ Pending(o) # {}
  /\ LET i == Min(Pending(o))
     IN  /\ oper' = [oper EXCEPT ![o].last = i]
         /\ IF log[i].kind = "insert" THEN NotifyAnswerer(o, log[i].c) /\ UNCHANGED caller
            ELSE NotifyExchange(o, log[i].c, doc[log[i].c])
  /\ UNCHANGED <<doc, log, age, sizes, holder, events>>

----------------------------------------------------------------------------
(* SendOfferInit and the handlers of Call and CallUpdate *)

\* sendAndQueueCtx
SendDone(c) == caller[c].ctx \/ age[c] = "expired" \/ ~Up(CallerOf[c])

SendOfferInit(c) ==
  /\ caller[c].pc = "none" /\ Up(CallerOf[c])
  /\ \/ /\ caller' = [caller EXCEPT ![c].pc = "inserting"]
        /\ Raise({d \in Calls : d = c \/ CallerSubscribed(d)}, {a \in Answerers : Subscribed(a)})
     \/ /\ TooManyCallers(HostOf[c])
        /\ caller' = [caller EXCEPT ![c].pc = "over"] /\ UNCHANGED sizes
  /\ UNCHANGED <<doc, log, age, oper, ans, holder, events>>

\* InsertOne, after the subscription; if it fails, Call returns the error.
InsertCall(c) ==
  /\ caller[c].pc = "inserting"
  /\ \/ /\ ~SendDone(c)
        /\ doc' = [doc EXCEPT ![c] = NewDoc] /\ log' = Append(log, [kind |-> "insert", c |-> c])
        /\ caller' = [caller EXCEPT ![c].pc = "open"]
        /\ UNCHANGED events
     \/ /\ IF SendDone(c) THEN UNCHANGED events ELSE Event
        /\ caller' = [caller EXCEPT ![c].pc = "over"]
        /\ UNCHANGED <<doc, log>>
  /\ UNCHANGED <<age, sizes, oper, ans, holder>>

\* SendOfferError, from a goroutine of the Call handler that has returned an
\* error; nothing waits for it.
SendOfferError(c) ==
  IF Live(c) /\ ~doc[c].cdone THEN Write(c, [doc[c] EXCEPT !.cerr = TRUE])
  ELSE UNCHANGED <<doc, log>>

\* haveInitSDP and candLen: how many responses are sent after an event. sendAnswer
\* gives up in between only when the context is done.
Fresh(c, d) ==
  IF SendDone(c) THEN caller[c].heard .. d.said ELSE {Max({caller[c].heard, d.said})}

\* The goroutine of SendOfferInit takes an event. An error of the answerer, or
\* its done, is the last it takes.
CallerEvent(c) ==
  /\ caller[c].pc = "open" /\ caller[c].ev # <<>>
  /\ LET d == Head(caller[c].ev)
     IN  \E n \in IF d.aerr THEN {caller[c].heard} ELSE Fresh(c, d) :
           LET failed == d.aerr \/ n < d.said
               over == failed \/ d.adone
           IN  /\ caller' = [caller EXCEPT ![c].heard = n, ![c].pc = IF over THEN "over" ELSE @,
                                          ![c].ev = IF over THEN <<>> ELSE Tail(@),
                                          ![c].lost = @ /\ ~over]
               /\ IF failed THEN SendOfferError(c) ELSE UNCHANGED <<doc, log>>
  /\ UNCHANGED <<age, sizes, oper, ans, holder, events>>

\* Its context is done.
CallerReturn(c) ==
  /\ caller[c].pc = "open" /\ SendDone(c)
  /\ caller' = [caller EXCEPT ![c].pc = "over", ![c].ev = <<>>, ![c].lost = FALSE]
  /\ IF Up(CallerOf[c]) THEN SendOfferError(c) ELSE UNCHANGED <<doc, log>>
  /\ UNCHANGED <<age, sizes, oper, ans, holder, events>>

\* The client hangs up.
CallCancel(c) ==
  /\ caller[c].pc = "open" /\ ~caller[c].ctx /\ Event
  /\ caller' = [caller EXCEPT ![c].ctx = TRUE]
  /\ UNCHANGED <<doc, log, age, sizes, oper, ans, holder>>

\* CallUpdate: SendOfferUpdate and SendOfferDone. The client knows the uuid from
\* the initial response.
SendOfferUpdate(c) ==
  /\ caller[c].heard > 0 /\ ~caller[c].told /\ Live(c) /\ Event
  /\ Write(c, [doc[c] EXCEPT !.csaid = @ + 1])
  /\ UNCHANGED <<age, sizes, oper, caller, ans, holder>>

SendOfferDone(c) ==
  /\ caller[c].heard > 0 /\ ~caller[c].told
  /\ caller' = [caller EXCEPT ![c].told = TRUE]
  /\ IF Live(c) THEN Write(c, [doc[c] EXCEPT !.cdone = TRUE]) ELSE UNCHANGED <<doc, log>>
  /\ UNCHANGED <<age, sizes, oper, ans, holder, events>>

----------------------------------------------------------------------------
(* RecvOffer and the handler of Answer *)

\* recvOfferCtx and recvCtx, but for the deadline
RecvDone(a) == ans[a].ctx \/ ~Up(AnswererOf[a])

RecvOffer(a) ==
  /\ ans[a].pc = "none" /\ Up(AnswererOf[a])
  /\ \/ Subscribe(a, ans[a])
     \/ TooManyAnswerers(HostsOf[a]) /\ ans' = [ans EXCEPT ![a] = [@ EXCEPT !.pc = "over", !.ctx = TRUE]]
        /\ UNCHANGED <<oper, sizes>>
  /\ UNCHANGED <<doc, log, age, caller, holder, events>>

\* The manager called the ready function.
RecvReady(a) ==
  /\ ans[a].pc = "sub" /\ ans[a].ready
  /\ ans' = [ans EXCEPT ![a].pc = "find", ![a].ready = FALSE]
  /\ UNCHANGED <<doc, log, age, sizes, oper, caller, holder, events>>

\* The offer is this answerer's: FindOneAndUpdate or UpdateOne set answered.
Take(a, c) ==
  /\ Write(c, [doc[c] EXCEPT !.answered = TRUE, !.op = AnswererOf[a]])
  /\ holder' = [holder EXCEPT ![c] = a]
  /\ ans' = [ans EXCEPT ![a] = [@ EXCEPT !.pc = "took", !.cur = c, !.ev = None,
                                           !.sent = FALSE, !.ready = FALSE]]

\* FindOneAndUpdate: an offer that is there already and not close to its deadline.
RecvFind(a) ==
  /\ ans[a].pc = "find" /\ ~RecvDone(a)
  /\ LET found == {c \in Calls : /\ HostOf[c] \in HostsOf[a] /\ Live(c) /\ ~doc[c].answered
                                 /\ ~doc[c].cerr /\ age[c] = "fresh"}
     IN  IF found # {} THEN \E c \in found : Take(a, c)
         ELSE ans' = [ans EXCEPT ![a].pc = "wait"] /\ UNCHANGED <<doc, log, holder>>
  /\ UNCHANGED <<age, sizes, oper, caller, events>>

\* Mutant: the offer of an event is taken whether or not it is answered.
RecvTakeAnyway(a) ==
  /\ ans[a].pc = "wait" /\ ans[a].ev # None /\ ~RecvDone(a) /\ Live(ans[a].ev)
  /\ Take(a, ans[a].ev)
  /\ UNCHANGED <<age, sizes, oper, caller, events>>

\* The event of a new call: UpdateOne takes it unless someone else has. Then
\* waitForNewCall runs again, but its cleanup has cancelled recvOfferCtx.
RecvTake(a) ==
  /\ ans[a].pc = "wait" /\ ans[a].ev # None /\ ~RecvDone(a)
  /\ LET c == ans[a].ev
     IN  IF Live(c) /\ ~doc[c].answered
         THEN Take(a, c) /\ UNCHANGED <<oper, sizes>>
         ELSE Subscribe(a, [ans[a] EXCEPT !.ctx = TRUE]) /\ UNCHANGED <<doc, log, holder>>
  /\ UNCHANGED <<age, caller, events>>

\* RecvOffer returns an error and unsubscribes; a ready function stays behind.
RecvFail(a) ==
  /\ Subscribed(a)
  /\ \/ RecvDone(a) /\ UNCHANGED events
     \/ ans[a].pc \in {"find", "wait"} /\ ~RecvDone(a) /\ Event
  /\ ans' = [ans EXCEPT ![a] = [@ EXCEPT !.pc = "over", !.ctx = TRUE, !.ev = None, !.sent = FALSE, !.ready = FALSE]]
  /\ UNCHANGED <<doc, log, age, sizes, oper, caller, holder>>

\* The change stream of o has not delivered all changes of c.
Unread(o, c) == \E i \in oper[o].last + 1 .. Len(log) : log[i].c = c

\* subscribeToCall, and the goroutine of the exchange starts. The caller may have
\* given up since the claim, and the event of that may have been read already.
RecvExchange(a) ==
  /\ ans[a].pc = "took"
  /\ ans' = [ans EXCEPT ![a].pc = "exch", ![a].x = "run",
                        ![a].lost = doc[ans[a].cur].cerr /\ ~Unread(AnswererOf[a], ans[a].cur)]
  /\ UNCHANGED <<doc, log, age, sizes, oper, caller, holder, events>>

\* candLen: the candidates of the caller handed to callerLoop so far.
Hear(a, d) == IF d.csaid > ans[a].cheard THEN d.csaid ELSE ans[a].cheard

\* The exchange's goroutine takes an event.
ExchangeEvent(a) ==
  /\ Exchanging(a) /\ ans[a].xev # <<>> /\ age[ans[a].cur] # "expired" /\ ~RecvDone(a)
  /\ LET d == Head(ans[a].xev)
         over == d.cerr \/ d.cdone
     IN  ans' = [ans EXCEPT ![a].xev = IF over THEN <<>> ELSE Tail(@),
                            ![a].cheard = IF d.cerr THEN @ ELSE Hear(a, d),
                            ![a].x = IF over THEN "end" ELSE @, ![a].lost = @ /\ ~over]
  /\ UNCHANGED <<doc, log, age, sizes, oper, caller, holder, events>>

\* Its context is done: setErr's goroutine writes the error. Nothing waits for
\* that goroutine, Close included.
ExchangeDone(a) ==
  /\ Exchanging(a) /\ (RecvDone(a) \/ age[ans[a].cur] = "expired")
  /\ ans' = [ans EXCEPT ![a].x = "end", ![a].xev = <<>>, ![a].lost = FALSE]
  /\ IF Live(ans[a].cur) THEN Write(ans[a].cur, [doc[ans[a].cur] EXCEPT !.aerr = TRUE])
     ELSE UNCHANGED <<doc, log>>
  /\ UNCHANGED <<age, sizes, oper, caller, holder, events>>

\* AnswererRespond with the SDP or a candidate, or with an error.
AnswererRespond(a) ==
  /\ ans[a].pc = "exch" /\ ~ans[a].ctx /\ Live(ans[a].cur)
  /\ LET c == ans[a].cur
     IN  \/ /\ doc[c].said < MaxSaid
           /\ Write(c, [doc[c] EXCEPT !.said = @ + 1]) /\ UNCHANGED <<ans, events>>
        \/ /\ Event /\ Write(c, [doc[c] EXCEPT !.aerr = TRUE])
           /\ ans' = [ans EXCEPT ![a].pc = "failed"]
  /\ UNCHANGED <<age, sizes, oper, caller, holder>>

\* The answerer is done, or AnswererRespond finds the offer gone; AnswererDone
\* is called in either case.
AnswererDone(a) ==
  /\ \/ ans[a].pc = "exch" /\ (doc[ans[a].cur].said > 0 \/ ~Live(ans[a].cur) \/ ans[a].ctx)
     \/ ans[a].pc = "failed"
  /\ IF Live(ans[a].cur) /\ ~ans[a].ctx
     THEN Write(ans[a].cur, [doc[ans[a].cur] EXCEPT !.adone = TRUE]) ELSE UNCHANGED <<doc, log>>
  /\ ans' = [ans EXCEPT ![a].pc = IF @ = "exch" /\ Live(ans[a].cur) THEN "drain" ELSE "over",
                        ![a].ctx = @ \/ ~(ans[a].pc = "exch" /\ Live(ans[a].cur))]
  /\ UNCHANGED <<age, sizes, oper, caller, holder, events>>

\* Answer returns when callerLoop has; its stream's context ends with it.
AnswerReturn(a) ==
  /\ ans[a].pc = "drain" /\ (~Exchanging(a) \/ ans[a].ctx \/ age[ans[a].cur] = "expired")
  /\ ans' = [ans EXCEPT ![a].pc = "over", ![a].ctx = TRUE]
  /\ UNCHANGED <<doc, log, age, sizes, oper, caller, holder, events>>

\* The answerer's stream breaks.
AnswererGone(a) ==
  /\ ans[a].pc \notin {"none", "over"} /\ ~ans[a].ctx /\ Event
  /\ ans' = [ans EXCEPT ![a].ctx = TRUE]
  /\ UNCHANGED <<doc, log, age, sizes, oper, caller, holder>>

----------------------------------------------------------------------------
(* Shutdown and crash of an operator *)

\* The three goroutines of the queue itself leave their loops at the cancelled
\* context.
Close(o) ==
  /\ Up(o) /\ Event
  /\ oper' = [oper EXCEPT ![o] = [NewOper EXCEPT !.st = "closing"]]
  /\ UNCHANGED <<doc, log, age, sizes, caller, ans, holder>>

\* activeBackgroundWorkers.Wait: the goroutines of calls and exchanges.
CloseReturns(o) ==
  /\ oper[o].st = "closing"
  /\ \A c \in Calls : CallerOf[c] = o => caller[c].pc # "open"
  /\ \A a \in Answerers : AnswererOf[a] = o => ~Exchanging(a)
  /\ oper' = [oper EXCEPT ![o].st = "closed"]
  /\ UNCHANGED <<doc, log, age, sizes, caller, ans, holder, events>>

\* The process dies: what it has written stays.
Crash(o) ==
  /\ Up(o) /\ Event
  /\ oper' = [oper EXCEPT ![o] = [NewOper EXCEPT !.st = "dead"]]
  /\ caller' = [c \in Calls |-> IF CallerOf[c] # o THEN caller[c]
                 ELSE [caller[c] EXCEPT !.pc = "over", !.ev = <<>>, !.lost = FALSE]]
  /\ ans' = [a \in Answerers |-> IF AnswererOf[a] # o THEN ans[a]
              ELSE [ans[a] EXCEPT !.pc = "over", !.ctx = TRUE, !.x = "end", !.ev = None, !.xev = <<>>, !.lost = FALSE]]
  /\ UNCHANGED <<doc, log, age, sizes, holder>>

----------------------------------------------------------------------------

\* What the operators, their deadlines and MongoDB do by themselves.
SystemStep ==
  \/ \E o \in Operators :
       \/ ManagerTick(o) \/ ManagerWatch(o)
       \/ ManagerTrack(o) \/ HandOver(o) \/ ProcessNextEvent(o) \/ CloseReturns(o)
  \/ \E c \in Calls :
       \/ CallTTL(c) \/ Grow(c) \/ InsertCall(c) \/ CallerEvent(c) \/ CallerReturn(c)
  \/ \E a \in Answerers :
       \/ RecvReady(a) \/ RecvFind(a) \/ RecvTake(a) \/ RecvFail(a) \/ RecvExchange(a)
       \/ ExchangeEvent(a) \/ ExchangeDone(a) \/ AnswererDone(a) \/ AnswerReturn(a)

EnvironmentStep ==
  \/ \E o \in Operators : StreamFails(o) \/ ManagerWatchFails(o) \/ Close(o) \/ Crash(o)
  \/ \E c \in Calls : SendOfferInit(c) \/ CallCancel(c) \/ SendOfferUpdate(c) \/ SendOfferDone(c)
  \/ \E a \in Answerers : RecvOffer(a) \/ AnswererRespond(a) \/ AnswererGone(a)

Next == SystemStep \/ EnvironmentStep

Spec == Init /\ [][Next]_vars

----------------------------------------------------------------------------
(* Properties *)

Docs == [st : {"none", "live", "gone"}, answered : BOOLEAN, op : Operators \cup {None},
         said : 0..MaxSaid, adone : BOOLEAN, aerr : BOOLEAN, csaid : 0..MaxEvents,
         cdone : BOOLEAN, cerr : BOOLEAN]

\* Every variable stays in its domain, and no buffer grows past its capacity.
TypeOK ==
  /\ doc \in [Calls -> Docs] /\ age \in [Calls -> {"fresh", "late", "expired"}]
  /\ \A i \in DOMAIN log : log[i].c \in Calls /\ log[i].kind \in {"insert", "update"}
  /\ holder \in [Calls -> Answerers \cup {None}]
  /\ \A o \in Operators :
       /\ oper[o].st \in {"up", "closing", "closed", "dead"}
       /\ oper[o].last \in 0..Len(log)
       /\ oper[o].tracking \subseteq Hosts
       /\ oper[o].waiting \cup oper[o].readyFuncs \subseteq Answerers
  /\ \A c \in Calls :
       /\ caller[c].pc \in {"none", "inserting", "open", "over"}
       /\ Len(caller[c].ev) <= ExchangeCap
       /\ caller[c].heard \in 0..MaxSaid
  /\ \A a \in Answerers :
       /\ ans[a].pc \in {"none", "sub", "find", "wait", "took", "exch", "failed", "drain", "over"}
       /\ ans[a].cur \in Calls \cup {None} /\ Len(ans[a].xev) <= ExchangeCap
       /\ ans[a].pc \in {"took", "exch", "failed", "drain"} => ans[a].cur # None

\* The queue implements CallQueue: whatever is replayed, dropped, looked up late
\* or read twice on the way through the database, an offer goes to one answerer
\* at most and each side is handed what the other said, in order and once.
Queue == INSTANCE CallQueue WITH
  phase <- [c \in Calls |-> IF doc[c].st # "none" /\ doc[c].answered THEN "taken"
                            ELSE IF doc[c].st = "live" THEN "open" ELSE doc[c].st],
  said <- [c \in Calls |-> doc[c].said], csaid <- [c \in Calls |-> doc[c].csaid],
  heard <- [c \in Calls |-> caller[c].heard],
  cheard <- [c \in Calls |-> IF holder[c] = None THEN 0 ELSE ans[holder[c]].cheard]

QueueSpec == Queue!Spec

\* No update is lost on the way to a side that waits for it, although streams are
\* replaced while they have events: what it has not heard, and that the other side
\* is done or has failed, is still to be read from the oplog, or the last event in
\* the side's channel has it. An event goes by, until the next one of the call, in
\* two cases: the channel is full, or a caller gave up after its offer was claimed
\* and the event was read before the answerer subscribed to the call.
NoUpdateLost ==
  /\ \A c \in Calls :
       /\ caller[c].pc = "open" /\ Live(c) /\ Up(CallerOf[c]) /\ ~caller[c].lost
       /\ (doc[c].said > caller[c].heard \/ doc[c].adone \/ doc[c].aerr)
       => \/ Unread(CallerOf[c], c)
          \/ caller[c].ev # <<>> /\ caller[c].ev[Len(caller[c].ev)] = CallerView(doc[c])
  /\ \A a \in Answerers :
       LET c == ans[a].cur
       IN  /\ Exchanging(a) /\ Live(c) /\ Up(AnswererOf[a]) /\ ~ans[a].lost
           /\ (doc[c].csaid > ans[a].cheard \/ doc[c].cdone \/ doc[c].cerr)
           => \/ Unread(AnswererOf[a], c)
              \/ ans[a].xev # <<>> /\ ans[a].xev[Len(ans[a].xev)] = AnswererView(doc[c])

\* The database, the change streams and the channels of the two sides agree.
QueueInv == TypeOK /\ NoUpdateLost

\* What subscribeToCall says: there is no need to wait for the change stream, as an
\* operator always receives the updates of a call that is attached to it. So an
\* answerer in an exchange whose caller has failed has this still to be read from
\* the oplog, or in its channel. It does not hold for a caller that gives up between
\* the claim of its offer and the subscription.
NoErrorMissed ==
  \A a \in Answerers :
    LET c == ans[a].cur
    IN  Exchanging(a) /\ Live(c) /\ Up(AnswererOf[a]) /\ doc[c].cerr
        => Unread(AnswererOf[a], c) \/ \E i \in DOMAIN ans[a].xev : ans[a].xev[i].cerr

\* What subscribeForNewCallOnHosts says: the channel of an answerer that waits
\* will have an event once one of its hosts receives a call. An offer that could
\* be taken, and that an idle answerer waits for, is still to be read from the
\* oplog, or some answerer has its event. It does not hold when the stream is
\* replaced between the insert and the hand-over.
NoCallLost ==
  \A c \in Calls, a \in Answerers :
    /\ Live(c) /\ ~doc[c].answered /\ ~doc[c].cerr /\ age[c] = "fresh"
    /\ ans[a].pc = "wait" /\ ans[a].ev = None /\ ~RecvDone(a) /\ HostOf[c] \in HostsOf[a]
    => \/ \E i \in oper[AnswererOf[a]].last + 1 .. Len(log) : log[i].kind = "insert" /\ log[i].c = c
       \/ \E b \in Answerers : ans[b].ev = c

\* ... and it returns once the change stream tracks the hosts: an answerer that
\* waits for that is still known to the manager. It does not hold when the
\* stream cannot be opened.
NoAnswererStranded ==
  \A a \in Answerers :
    ans[a].pc = "sub" /\ ~ans[a].ready /\ ~RecvDone(a)
    => a \in oper[AnswererOf[a]].waiting \cup oper[AnswererOf[a]].readyFuncs
====
