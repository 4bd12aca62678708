# TLA+ models of goutils

`goutils` is a Go library whose largest part, `rpc/`, carries gRPC over WebRTC
data channels: a server and a client for that transport, the signaling service
through which two peers find each other, dialing, and authentication. Around it
are `pexec/` (managed child processes), `artifact/` (a content-addressed file
cache), `web/`, `perf/` and small utilities for goroutines and contexts.

The modules here model the concurrent core of `rpc/`: every goroutine that
touches a stream, a channel, a call or a connection, each with the locks,
channels, wait groups and contexts it uses; an action is one critical section
or one atomic operation. `pexec/`, `artifact/` and `web/` are modelled the same
way, against the operating system, the file system with a store of blobs, and
browsers with a session store. Line numbers of every definition are in
`PROJECT.json` under `map`; what can go wrong, at which line, and which property
would catch it, is there under `hazards`.

## 1. Inventory

| Component | Source | State | Operations |
|---|---|---|---|
| WebRTC gRPC server | `rpc/wrtc_server.go`, `wrtc_server_channel.go`, `wrtc_server_stream.go`, `wrtc_base_stream.go` | streams by id, call tickets, header workers; per stream: closed/sendClosed/recvClosed flags, headersWritten, `mu`, `msgCh`, `activeSenders`, context | `onChannelMessage`, `onRequest`, `processHeaders`, `processMessage`, `closeWithSendError`, `RecvMsg`, `SendMsg`, `Stop` |
| WebRTC base channel | `rpc/wrtc_base_channel.go` | buffered amount, `bufferWriteMu` and its condition, closed and reason, active background workers | `write`, `onBufferedAmountLow`, `closeWithReason`, `Close`, ICE state changes |
| WebRTC gRPC client | `rpc/wrtc_client_channel.go`, `wrtc_client_stream.go`, `wrtc_base_stream.go` | streams by id; per stream as on the server, headers/trailers received | `NewStream`, `Invoke`, `SendMsg`, `CloseSend`, `RecvMsg`, `onResponse`, the watcher of the context, `Close` |
| Packet reassembly | `rpc/wrtc_base_stream.go`, `wrtc_*_stream.go` | `packetBuf` | `processMessage`, the split in `writeMessage` |
| Signaling server | `rpc/wrtc_signaling_server.go` | closed flag, call workers, ICE server cache | `Call`, `CallUpdate`, `Answer`, `Close` |
| In-memory call queue | `rpc/wrtc_call_queue_memory.go` | host queues, active offers, exchanges | `SendOfferInit/Update/Done/Error`, `RecvOffer`, `AnswererRespond`, `CallerCandidates`, the janitor, `Close` |
| MongoDB call queue | `rpc/wrtc_call_queue_mongodb.go`, `mongo/change_stream.go` | calls and operators collections; per operator: change stream, tracked hosts, waiting answerers, exchanges | the same interface over a database; change stream manager, subscription manager, heartbeats, `Close` |
| Signaling answerer | `rpc/wrtc_signaling_answerer.go` | workers, one stream and one peer connection per attempt | `Start`, `startAnswerer`, `connect`, `Stop` |
| Dialing | `rpc/dial.go`, `dialer.go`, `dial_options.go`, `ref.go` | cached connections with reference counts | the race of mDNS, WebRTC and direct dials, `DialFunc`, `Ref`/`Deref`, `Close` |
| WebRTC dialing, renegotiation | `rpc/wrtc_client.go`, `wrtc_peer.go` | signaling connection, peer connection, candidates, negotiation channel | `dialWebRTC`, `exchangeCandidates`, `OnICECandidate`, `ConfigureForRenegotiation` |
| RPC server | `rpc/server.go` and options | started/stopped, HTTP and gRPC goroutines, answerers, signaling server, mDNS | `NewServer`, `Start`, `Serve`, `Stop` |
| Authentication | `rpc/auth.go`, `server_auth.go`, `dialer.go`, `client_interceptors.go`, `jwks` | keys of the server, access token of a connection | `Authenticate`, `AuthenticateTo`, `ensureAuthed`, `GetRequestMetadata`, renewal of the token |
| Managed processes, process manager | `pexec/` | process, `killCh`, `managingCh`; processes by id | `Start`, `manage`, `Stop`, `kill`; `AddProcess`, `RemoveProcess` |
| Artifact cache | `artifact/` | tree, tree.json, cache directory, root directory, source store | `Store`, `Ensure`, `Remove`, `Clean`, `WriteThroughUser`, `Status`, commit |
| Web | `web/` | sessions collection, cookies of browsers | login, callback, logout, token, token-callback |
| Goroutine and context utilities | `stoppable_workers.go`, `runtime.go`, `context.go` | worker count, cancelled flag | `Add`, `Stop`, `ManagedGo`, `MergeContext` |
| perf, small utilities, generated code, examples | `perf/`, root, `proto/` | | |

How they interact. The answerer opens an `Answer` stream to the signaling
server and waits for an offer. A caller's `Call` puts its offer into the call
queue, one `Answer` handler takes it and forwards it, and answer and ICE
candidates travel back through the exchange to the `Call` handler. The result
is a peer connection with a data channel, on which the base channel does flow
control and closing, and the client and the server channel multiplex streams.
pion calls `onChannelMessage` from one read loop for each data channel; on the
server, `processHeaders` starts one goroutine for every call. `dial` finds the
way to a server: it races mDNS against WebRTC, where the caller's side of
signaling is `dialWebRTC`, falls back to direct gRPC, and shares what it made
through the cached dialer. Several servers may share one MongoDB call queue, in
which each is an operator. `simpleServer` owns a gRPC and an HTTP server, the
signaling server and the answerers, and puts authentication before them.

What is hard. All of it is interleaving and partial failure: several goroutines
may close a stream while the read loop delivers to it; a delivery blocks on a
full channel while a close waits for it; contexts end at any point; condition
variables and wait groups are used next to flags; a handler of the signaling
server is released only by messages of a remote peer. What makes each part
correct:

* streams: no send on a closed channel, messages in order and none after the
  end, one trailer, a closed stream is released, a cancelled call ends, `Stop`
  and `Close` return and leave nothing running;
* base channel: the buffer stays near the threshold, a writer at the threshold
  gets on, the first reason for a close stands, `Close` returns after its
  goroutines and the read loop;
* signaling: an offer is taken once, the stages of an exchange come in order, a
  caller whose peer is done gets its answer, handlers, offers and workers do
  not stay for ever;
* processes: none runs or starts after `Stop`, a failed `Start` of the manager
  leaves nothing behind, operations of the manager return;
* MongoDB queue: it keeps the promises of a call queue whatever happens to
  change streams, and no update of a call is lost on the way to who waits for it;
* dialing: a connection in use is open, of all that were made on the way none is
  left, `Dial` returns; the peer learns once how a call ended;
* RPC server: who gets to a handler is who the options let in, `Stop` is
  graceful and final, a connection whose token became stale recovers;
* artifacts: what is committed can be fetched, a pull gives what the tree has, a
  push records what the user has, `status` foretells it;
* web: a browser sees its own session, and login and logout stick.

## 2. Modules

`ServerStream`, `BaseChannel`, `Signaling` and `ClientStream` are independent:
each is one side of one connection, and the other side is its environment.
`CallQueue` is the abstract specification of a call queue, which `MongoQueue`
is shown to implement. `Dialer` makes connections in one step whose making, over
WebRTC, is `WebRTCDial`, and over gRPC, with its credentials, is the connection
of `RPCServer`, which uses the operators of `Auth`. `ServerOptions` and `DialOptions`
are the options the two are made with. `Processes`, `Artifact` and
`Web` are about packages of their own. `MC` modules give the
function- and record-valued constants of their modules values.
The theorems about a module `M` are in `M_proofs`, those about `WebRTCDial` and
`BaseChannel` in `WebRTC_proofs`, those about `ClientStream` and `Dialer` in
`Client_proofs`, those about `Processes` and `Artifact` in `Local_proofs` (section 5).

An operator named after a property's part (`WireOrder`, `BufferBound`, ...) is a
conjunct of the invariant a run checks (`DeliveryInv`, `ChannelInv`, ...). An
operator whose comment calls it a mutant is a plausible mistake in the operator
below it, with which the run fails.

### ServerStream

One server, one channel, and the streams a client opens. Three kinds of process:
`Pump` is the data channel's read loop, which runs `onChannelMessage` to its end
for each request; the handler goroutine of a stream is identified with the
stream; `stop` is the goroutine that runs `webrtcServer.Stop`. Boolean fields
of streams are sets of streams.

* `OnChannelMessage`, `OnHeaders`, `HeadersAdd`, `HeadersCheck`, `TakeTicket`,
  `OnMessage`, `MessageLock`, `MessageSend`, `MessageEos`, `NilPacketClose`,
  `OnReset`: `onChannelMessage`, `onRequest`, `processHeaders` and
  `processMessage`, cut at each lock, channel operation and atomic flag.
* `CloseCAS` ... `CloseWait`: `closeWithSendError` and `closeWithRecvError`, run
  by the pump or by a handler: swap of `closed`, headers, trailers, the lock,
  and the wait for `activeSenders` under the lock.
* `HandlerRecv`, `RecvMsg`, `HandlerSend` ... `SendWrite`, `HandlerReturn`,
  `HandlerQuit`, `HandlerDone`, `ReturnTicket`: what a method handler may do
  through its `grpc.ServerStream`, and the deferred calls after it.
* `StopCancel` ... `StopGraceful`: `Stop`, which waits for the read loop in the end. `StreamTimeout`, `ChannelClose`,
  `PeerDone`, `LinkDown`: ends of contexts and of the connection.

A message is one packet, and a write does not block. That a write may wait for flow
control, and `Closed()` (`rpc/wrtc_server_stream.go:371`) for `ch.mu`, is in
`BaseChannel`.

### BaseChannel

`write` is `WriteLock`, `WriteCheck`, `WriteFull` (the test of the buffered
amount and `Wait`) and `WriteSend`; the condition variable's lock is the read
side of `bufferWriteMu`, as in the code, and Go's preference of a waiting writer
of an RWMutex over new readers is modelled. `Drain`, `LowLock` and
`LowBroadcast` are the network and the low-water callback. `CloseStart` ...
`CloseWait` are `closeWithReason` and `Close`; `IceEvent`, `IceRun`,
`IceGraceful` and `IceUnlock` the goroutines of `connStateChanged`. Some of the writers are read
loops (`Readers`): a message makes one of them take `ch.mu` in `Closed()`, as
`closeWithSendError` does, and then write (`ReadMessage`, `Closed`).
`GracefulClose` ends in a step of its own (`CloseUnlock`, `IceUnlock`), taken when no read
loop is in a callback and neither is the low-water one (`ReadLoopsEnd`); `ch.mu` is held until then.
The data channel and the peer connection are external, and `peerConnsMu`, which the
server's `removePeer` takes under `ch.mu`, is left out.

### Signaling

The `Call`, `CallUpdate` and `Answer` handlers, the in-memory queue and the
answerer in one module, since an exchange is only correct as a whole. A call is
one `Call` RPC; an attempt is one turn of a worker of `startAnswerer` with the
`Answer` RPC it opens, and two FIFO sequences are the directions of that stream.
Unbuffered Go channels are joint steps of their two ends.

* queue: `HostsQueue`, `GetOrMakeHostsQueue`, `Expire`, `Janitor`,
  `SendOfferError`, `QueueClose`;
* caller's handlers: `CallStart`, `CallCancel`, `CallEnd`, `CallDefer`,
  `CallErrSend`, `UpdateCandidate`, `UpdateTimeout`, `UpdateDone`;
* `Answer`: `AnswerStart`, `RecvOffer`, `AnswerFail`, `AnswerSendInit`,
  `AnswerRegister`, `CallerLoop`, `CallerLoopEnd`, `AnswererLoopRecv`,
  `Respond`, `RespondFail`, `AnswererLoopEnd`, `AnswerReturn`;
* answerer: `AnswererStart`, `AnswererStop`, `AnswererStopped`, and the `W`
  actions, which are `connect` with its candidate goroutines, its reader and
  its timeout;
* faults: `StreamBreaks`, `SrvClose`, `SrvCloseWait`, cancelled calls, expired
  offers, failures inside `connect`.

### ClientStream

A stream's sender, its receiver, the watcher that resets the stream when its
context is done, the read loop, and the channel's `Close`. `NewStream`,
`WriteHeaders`, `SendMsg`, `SendWrite`, `CloseSend`, `CloseSendWrite`,
`SenderClosed` are the sender; `RecvCall`, `RecvMsg` the receiver; `Watch*` the
watcher; `OnChannelMessage`, `Refuse`, `Refused`, `Process*`, `MessageSend` the
read loop with `onResponse`; `Close*` the channel's `Close`. The two branches of
`select` in `RecvMsg` are both allowed when both are ready.

### Processes

The manager and its processes in one module, since what `Start` and `Stop` of
the manager promise is about both. The manager holds its `mu` for the whole of an
operation, so `mgr`, `todo` and `at` (the operation, the rest of its loop, the
process it waits for) are enough. `Launch`, `RunOneShot` and `StartFails` are
the outcomes of `managedProcess.Start`, whose critical section is one step unless
the process is one-shot, when `mu` is held until it ends. `Manage*` is the
`manage` goroutine: `Wait`, the look at `killCh`, the hook, the ticker, the
restart. `StopBegin` is the critical section of `Stop`; `StopSignal`,
`StopTimer`, `StopKill` and `StopManaged` are `kill` and the wait for
`managingCh`. `Exit`, `Fork` and `ChildExit` are the operating system's: a
process may ignore every signal but SIGKILL, may leave children in its group,
and is a zombie until it is waited for. A second `Start` of the same process,
which would run two processes under one object, is the caller's mistake and is
not made. Children of an earlier run of a restarted process are not followed.

### CallQueue and MongoQueue

`CallQueue` is what `WebRTCCallQueue` promises: an offer goes to at most one
answerer, and each side learns what the other said, in order and nothing else.

`MongoQueue` is `mongoDBWebRTCCallQueue`. The calls collection is a function to
documents, its oplog a sequence, a cluster time an index into it; a full
document is looked up when an event is read. `ManagerTick`, `ManagerWatch`,
`ManagerWatchFails`, `ManagerTrack`, `HandOver` are `changeStreamManager`;
`ProcessNextEvent` with `NotifyAnswerer` and `NotifyExchange` is
`subscriptionManager`; `HostSizes`, `Raise`, `TooMany*` the heartbeats and
`checkHostQueueSize`; `SendOffer*`, `InsertCall`, `Caller*` the caller's side,
`Recv*`, `Exchange*`, `Answerer*`, `AnswerReturn` the answerer's; `Close` and
`Crash` end an operator. A deletion carries no document and so never passes the
`$match` stage; deletions are therefore not in the sequence.

The refinement maps a document without `answered` to an open offer, `answered`
to taken, the number of responses stored and handed over to `said` and `heard`,
and the candidates likewise. It is the property `QueueSpec`.

### Dialer

Two or more `Dial`s for one address through one `cachedDialer`. A `Dial` has a
main goroutine and one for each leg of the race; connections are entries named
by who made them and by their cache key, with a reference count and the
references they hold in turn (an entry "multi" holds the connection of the leg
that won). `Lookup`, `Ref`, `Check`, `TakeRef`, `Lost` are `DialFunc` around its
unlocked dialing; `DialGRPC`, `Exchange`, `Secure`, `MulticastDNS` what is dialed;
`Dial`, `StartLegs`, `Gather`, `Gathered` are `dial`; `Deref`, `CloseActual`,
`OnUnref` the steps of closing a reference; `CloseDialer`, `CloseNext`
`Dialer.Close`. `Ref` on a released entry panics, as in the code.

### WebRTCDial

`dialWebRTC`: the main goroutine (`DialSignalingServer`, `Configure`, `Offer`,
`WaitOneHost`, `Call`, `DoCall`, `MainDone`, `MainError`, `Cleanup`), one goroutine
per local candidate, one for the end of gathering (`Last*`), and
`exchangeCandidates` (`Recv*`, `Exchange*`), with `sendDoneErrorOnce` between them. An
update made with an `exchangeCtx` that is over reaches nobody (`CallUpdate`): it is not in
`sent`, and the goroutine that made it has an error (`AfterUpdate`). The
`Close` of the signaling connection may fail after a success (`Cleanup`).
Afterwards `NegChannelOpen`, `AddTrack`, `OnNegotiationNeeded`, `ClientOnMessage`,
`ServerOnMessage` are `ConfigureForRenegotiation` on both peers.

### Auth, ServerOptions, DialOptions and RPCServer

`Auth` has no variables: what `NewServer` makes of the authentication options,
who gets a token for what (`Authenticate`, `AuthenticateTo`), and as whom a
request is served (`AuthUnaryInterceptor`, `AuthStreamInterceptor`, `EnsureAuthed`,
`TryAuth`). The two interceptors differ in a public method, which as a stream panics
(`rpc/server_auth.go:219`). A signature verifies under the key that made it and no other.

`ServerOptions` and `DialOptions` have one operator for each option of `NewServer`
and of `Dial` that a decision depends on, from options to options; an option of
`NewServer` may fail (`Failed`). `DialOptions` also has what `dialInner` and
`dialDirectGRPC` read off them, and what the connection to a signaling server is dialled
with (`SignalingOptions`, `AuthEntity`, `PerRPCJWTCredentials`,
`DialsExternalAuth`, `RefusesDowngrade`). The MC modules build the servers and
connections they check from these, as a program would.

`RPCServer` is a server from `NewServer` to `Stop`, restarted with a new key where
the key is generated, and a connection whose calls share
`perRPCJWTCredentials`. `ServeTLS`, `Start`, `StartAnswerers`, `HTTPServe`,
`HTTPDone`, `GRPCServe`, `AnswererExits` are `Serve` and `ServeTLS`, `Start` and their goroutines.
Whether the HTTP server speaks TLS (`srv.secure`) is the choice between the two, whatever the
TLS options of the gRPC listener; without, the requests are those of h2c, which `Shutdown` does not
wait for (`Drained`). `Stop`, `StopServices`, `StopWebRTC`, `Shutdown`, `StopGRPC` are `Stop`.
`GetRequestMetadata` ... `StoreLen` obtain a token under the connection's lock, `ClearPtr` and `ClearLen`
drop a rejected one without it, in two writes, as a Go string is two words.

A request comes in over HTTP, over gRPC or over a WebRTC channel. The first two meet
the interceptors (`Intercept`). The third meets all but those for authentication
(`rpc/server.go:541-560`): a channel comes about (`Connect`) when the method `Call` of the
server's own signaling service has let the peer in, or (`ConnectExternally`) when an external signaling
server has, of which nothing is known; then its requests are served (`ChannelRequest`,
`ChannelReturns`) until it closes or `StopWebRTC` has waited for its handlers. The code gives such a
handler the hosts' names for the entity (`rpc/wrtc_server_channel.go:132-135`); `chan` keeps who was
let in, which the code forgets, for `ChannelsLetIn`.

### Artifact

The tree in memory, `tree.json`, the user's root, the cache directory and the
source store, and one command at a time over them. `Ensure`, `EnsureNode`,
`EnsureLoad`, `EnsureDone` are a pull; `Walk`, `WalkDir`, `WalkFile`,
`WriteThrough`, `WalkDone` a push or a status; `Remove`, `Clean`, `CleanEntry` rm and
clean; `CommitTruncate` and `CommitEncode` the two effects of a commit. A walk visits
the paths of the root in the order of `Order` (`Walks`). `ProcessEnds` ends
the process between any two steps. `WriteFile` and `RemoveAll` are the user's, and `CheckOut` goes
to another user, with an empty root and cache.

### Web

Tabs of browsers send requests with the cookies of their jar; a handler is cut
where it talks to the session store or the provider (`LoginGet`, `LoginSave`,
`CallbackGet`, `VerifyAndSaveToken`, `CallbackSave`, `TokenCallbackGet`, `Logout`,
`Token`), and its cookies reach the jar with the response (`Answer`), which may be
lost. Sessions and cookies expire and calls to the store fail.

## 3. Runs

| Run | Instance | What it shows |
|---|---|---|
| `server_stream` | one stream, all sequences of four requests, one send, one fault | No send on a closed `msgCh`; on the wire, headers at most once and trailers once and last of the messages; the handler receives what was accepted, in order, and `io.EOF` only after the last message; a closed stream is out of the table with its context cancelled; a cancelled call ends. |
| `server_calls` | two streams, one ticket, one stream slot, `Stop` | Calls that run hold a ticket each and there are no more than tickets; after `Stop`'s wait nothing runs or starts; `Stop` returns unless a call was refused. |
| `base_channel` | a writer and a read loop, `Close`, a close callback, ICE events | The buffer stays below threshold plus one message for each writer; read locks are held only inside the loop while the channel lives; `Close` waits; a writer gets on or the channel is done; every close returns, unless its `GracefulClose` is stuck behind the read loop (section 4). |
| `signaling` | one call, one attempt, trickle ICE with a candidate from each side, one fault | The stages of an exchange come in order, at the `Answer` handler and at `Call`; a done stage completes a caller that still waits; `Close` of the signaling server leaves no caller loop; handlers return, offers are forgotten, the answerer's `Stop` returns. |
| `client_stream` | one stream, all sequences of four responses, one fault, `Close` | No send on a closed `msgCh`; a receiver that ends after trailers got their status; order of requests on the wire; done streams are released; `Close` returns unless it is behind a sender that closes its stream (section 4). |
| `processes` | three processes, two of which share an ID and one is one-shot; a user who stops processes; one failure or unexpected exit | A `Stop` that gets through has seen its process end and no restart follows; no start after `killCh` is closed; a manager that is stopped or failed to start leaves nothing running; its operations return unless a one-shot process runs on. |
| `mongo_queue` | one operator, one call, two answerers of its host, channels of one event, one candidate or one fault | `MongoQueue` implements `CallQueue`; no update, the error of either side included, is lost on the way to a side that waits for it, unless its channel is full or the answerer is not subscribed yet (section 4). |
| `dialer` | two `Dial`s, five combinations of addresses and options | A returned connection is open, with the one below it, until it is closed; a released one leaves the cache; in the end nothing is open; `Dial` returns unless it runs into the self-lock or panic of section 4. |
| `webrtc_dial` | two candidates, with and without trickle ICE, one fault, two tracks | At most one final update per call, and one unless the dial's context is over; it comes after the candidates; a ready channel or nothing is left; `dialWebRTC` and its goroutines end; tracks added while an offer is answered become known. |
| `rpc_server` | twenty-four combinations of server options, dial options and calls: a unary call over HTTP, with TLS and without, a stream over gRPC, and a peer over WebRTC, through the server's own signaling service or an external one; five make no server; one restart or failure | A handler runs as an entity only for who proved to be it to this server, and never anonymously where it may not; a channel through the server's own signaling is that of a peer that proved who it is; `Stop` waits for what it can wait for, is final and returns however it meets `Start`; a connection with good credentials recovers after a restart. |
| `artifact` | four paths, one of them the directory of another and one ignored, two contents, four edits, two faults | What `tree.json` names is in the source store; a push that succeeds has committed the root; a pull, a clean and a status that succeed did or told what they should. |
| `web` | three tabs of two browsers, two logins, one fault | A browser sees its own session only; logout and login stick. |

Bounds. `MaxRequests = 4` on a stream holds headers, more messages than `msgCh`
buffers, and then an end; the interesting races (a delivery blocked on the full
channel while a reset, a timeout or the handler's return closes the stream) need
three. With two streams and one ticket a second call is refused, or waits for
the first to return its ticket. Two writers are the fewest with which one
passes the test while the other waits, and one of them is a read loop; `Threshold = 3` and `MsgSize = 2` let
the amount go past the threshold and come down. `ClientStream` has one stream,
as streams share only the table and the read loop, so the refusal of a stream
beyond `MaxStreams` is not reached.

Three processes hold a replacement by ID beside a `Start` that fails at the
second process of the map. The exemptions in `ManagerLeavesNothing` are needed:
`Stop` returns nil at once for a process that somebody else is still stopping,
and the manager's `Stop` then returns while that process runs.

Two answerers are the fewest that compete for an offer in `MongoQueue`;
`ExchangeCap = 1` makes the channel of an exchange full with the first event
that is not taken at once, and `MaxHostAnswerers = 1` lets the second answerer be
refused. With one call the limit on callers is not reached. The run has one
operator; the same properties also hold of a call that comes in at one operator
and is answered at another, with one event (`Operators = {"o1", "o2"}`,
`Answerers = {"a2"}`, `AnswererOf <- OneOfTwo`, no symmetry: 678 178 states), and of
answerers at both that compete for it, with none (`Answerers = {"a1", "a2"}`,
`MaxEvents = 0`: 1 176 220 states). In `Dialer` two calls are the fewest that
share a connection; the five option sets let each leg win, lose and be absent.
Two candidates let one be the host candidate the dial waits for while the other
is under way, and two tracks let the second come while the first is offered.
Two calls share a token in `RPCServer`, one of which can drop it; the pairs of
options are the ways of authenticating (credentials right and wrong, through an
external service, with external and with static material, with a certificate,
not at all, at public methods) and the errors `NewServer` returns. Calls that share a token are in one of
them; in the others a call or a peer is alone, as channels share nothing but the answerers and `Stop`. A path that is
a file for one and a directory for another user state makes the tree and the
root disagree in both directions. Two tabs make requests of one browser overlap.

`base_channel` uses sizes with which the buffered amount never equals the
threshold. When it does (for instance `Threshold = 2`, `MsgSize = 1`)
`WriteProgress` fails: `write` waits at an amount that is *at least* the
threshold, while the transport calls back only when the amount falls from
*above* it, so a writer that waits at exactly the threshold is woken by nobody.
The property of that run is therefore about the other sizes; the hazard is
listed at `rpc/wrtc_base_channel.go:235`.

`CHECK_DEADLOCK FALSE` is set everywhere but in `web`: all inputs are bounded, and
a system whose client has sent everything and whose handlers have returned
rests.

Fairness. Goroutines that can run are run: weak fairness of every goroutine's
own steps, and nothing for the environment (requests, faults, `Stop`, `Close`
and cancellations may never come).

* `ServerStream`: weak fairness of the read loop, of `Stop`, and of each
  handler. A handler is assumed to make its next call or return.
* `BaseChannel`: weak fairness of each writer inside `write`, of the drain of the
  network and of the callback; strong fairness of the steps that take `ch.mu`,
  which other goroutines take and release in turn: `sync.Mutex` hands the lock
  to a waiter after 1 ms (its starvation mode), so a waiter is not passed for
  ever.
* `Processes`: weak fairness of the manager's operation and, for each process, of
  `manage` and `Stop`: timers fire and the exit hook returns. Processes need not
  exit on a signal.
* `Signaling` and `ClientStream`: weak fairness of the disjunction of all
  goroutines' steps. Every behaviour of these modules is finite, as each step
  advances a program counter or consumes a bounded input, so a run ends only
  where no goroutine can take a step, which is what fairness of each would give.
  In `Signaling` an offer's deadline and the janitor belong to the system: time
  passes.
* `Dialer`: weak fairness of every leg, of every `Dial` and of `Dialer.Close`; a
  dial over the network succeeds or fails in the end, as it has a context.
* `WebRTCDial`: weak fairness of each goroutine and of the end of its context,
  which has a deadline; the reader of the answers only has to end once its
  context is over, as the peer may say nothing. Negotiation messages are
  delivered unless a fault intervenes.
* `RPCServer`: weak fairness of `Serve`, of `Stop` and of the servers' goroutines;
  strong fairness of each call, since the lock around the access token is passed
  on among them (`sync.Mutex`, as above); a handler of a WebRTC channel returns. Calls keep coming, restarts do not.
* `MongoQueue`, `Artifact` and `Web` are checked for safety only: what they
  promise to do in the end rests on the timeouts of remote parties.

## 4. Disagreements met while modelling

Properties of these names are in the modules, with a comment that they do not
hold; TLC finds a counterexample to each. The passing runs check the nearest statement
that does hold. The counterexamples are on the instances of section 3 (`NoErrorMissed` with
`ExchangeCap = 5`, so that no channel is full; `PublicStreamsServed` with `Watch`
for the calls of the setup `public`).

1. `BaseChannel.ReadLoopCompletes`: `GracefulClose` is called with
   `ch.mu` held (`rpc/wrtc_base_channel.go:113`, 170), "to wait for the read loop to complete"
   (112), while the read loop may wait for `ch.mu` in `Closed()` (181-185, from
   `rpc/wrtc_server_stream.go:371`), in `write` for a wake-up that `doPeerDone` does not give, or,
   in the low-water callback, behind a read lock that `write` leaked (233). `CloseReturnsUnlessStuck`
   exempts these three (`GracefulCloseStuck`). On the server there is one more lock of the kind, which is not
   modelled: `removePeer` (`rpc/wrtc_server.go:195-198`) takes `peerConnsMu` under `ch.mu`,
   while `Stop` (102-108) holds `peerConnsMu` over `GracefulClose`.
2. `MongoQueue.NoErrorMissed`: an error of the caller that is written after its offer
   was claimed and read from the change stream before the answerer subscribed to the call
   (`rpc/wrtc_call_queue_mongodb.go:1116`, 1185) is lost; the answerer waits for candidates until the
   offer's deadline. The comment at 723-725 says that the updates are always received. Candidates and
   done cannot be lost this way, as the caller sends them after the answer.
3. `RPCServer.PublicStreamsServed`: a stream of a public method is let in and
   handed the context for the service (`rpc/server_auth.go:219`), so the generated handler panics
   and the client gets `Internal`. The tests (`rpc/server_auth_test.go:581`, 658) open such a stream and
   do not receive from it.
4. `Artifact.CleanReflectsTheTree`: `Clean` "makes sure that the user visible assets
   reflect 1:1 the versioned assets in the tree" (`artifact/cache.go:72-73`), but `cleanTree` passes over every entry
   that has a node of its name (301-309): a modified file stays, and so does a directory where the tree has a
   file, with all that is in it (against `artifact/tools/clean.go:7` too). `CleanLeavesTheTree` is what is left.
5. `ServerStream.StopReturns`: `Stop` of the WebRTC server never returns once a
   call was refused with "too many in-flight requests": the refusal leaves
   `processHeaders` without the `Done` that balances its `Add`
   (`rpc/wrtc_server_stream.go:295`; the comment at `rpc/wrtc_server.go:92-93`).
6. `BaseChannel.DoneUnblocksWrite`: a `write` that waits for flow control is not
   woken when the channel is done, and a writer that returns from the loop then
   keeps its read lock (`rpc/wrtc_base_channel.go:233-236`); the documentation of
   `SendMsg` says that it returns when the stream is done.
7. `Signaling.EveryAttemptReleases`: four ways out of `connect` tell the signaling
   server nothing (`rpc/wrtc_signaling_answerer.go:354`, 432, 441, 459), where the
   comment at 299-301 promises one message for each attempt.
8. `ClientStream.EOFMeansOK`: `RecvMsg` returns `io.EOF`, which its comment
   (`rpc/wrtc_base_stream.go:61-64`) reserves for success, on a stream that
   `Close` or a reset closed with a nil error (line 93).
9. `ClientStream.CloseReturns`: the client channel's `Close` hangs behind a sender
   that failed and closes its stream while the read loop waits on the full
   `msgCh`: the sender holds `mu` and waits for the delivery before it cancels
   the context the delivery waits for (`rpc/wrtc_base_stream.go:139`).
10. `MongoQueue.NoCallLost`: an offer inserted while a change stream is replaced is
   skipped, as `csTrackingHosts` is set after the ready functions ran
   (`rpc/wrtc_call_queue_mongodb.go:495-500`, 601), although the comment at 750-752
   says the channel will have an event once a host receives a call.
11. `MongoQueue.NoAnswererStranded`: a `Watch` that fails drops the ready functions
   it took (447, 488-493), whose answerers then wait for their own deadline.
12. `Dialer.NoSelfLock`: `DialFunc` closes a superfluous connection under `cd.mu`
   (`rpc/dialer.go:146`), which `onUnref` (135-139) takes again when that was the
   last reference to a connection below; the comment at 157-158 avoids exactly
   this in `Close`.
13. `WebRTCDial.EndIsTold`: the final `CallUpdate` is made with `exchangeCtx` (`rpc/wrtc_client.go:211`, 390), so
    a dial that times out or is cancelled does not tell the answering side, which waits for its
    own deadline.
14. `WebRTCDial.ErrorLeavesNothing`: when the `Close` of the signaling connection fails after a success, its
    error is returned beside the open channel (`rpc/wrtc_client.go:121-123`), and the callers drop the channel.

Without a property of their own: over WebRTC an external signaling server decides who is served, and
the handler is given the hosts' names for the caller's entity (`rpc/server.go:541-544`,
`rpc/wrtc_server_channel.go:132-135`, both with a TODO that says so); `serveTLS` returns an error with `ss.mu`
held, so that `Stop` hangs (`rpc/server.go:783-786`); `Remove` does not remove from the root, as its
comment says (`artifact/cache.go:67`, `artifact/tools/remove.go:7`, against `cache.go:196-207`); a retry of `RecvOffer` after a lost offer runs
with a context that is already cancelled (`wrtc_call_queue_mongodb.go:1050-1060`);
expirations never reach the `Expired` branch (480-484, 659-661); `Ref` outside the
lock can panic (`dialer.go:126`); a later leg of `dial` replaces an earlier
connection (`dial.go:249-259`, against 128-131); a cached direct connection leaks
the one for external authentication (`dialer.go:326-354`); `accessToken` is cleared
without its lock (`client_interceptors.go:61`); an error of `NewServer` after
`net.Listen` leaves the listener open (`server.go:177`); `tree.json` is truncated
before it is encoded (`artifact/config_load.go:97`); `Status` changes the tree in
memory (`artifact/cache.go:354-356`); a logout ignores that its session could not
be deleted (`web/sessions.go:126-129`).

## 5. Proofs

A theorem holds for every value of the constants that satisfies the `ASSUME` of its
module, which says no more than that limits are numbers, that sets which stand
for goroutines are finite where they are counted, and that reserved names are
not members. Each rests on an inductive invariant, which was checked with TLC on
the run's instance before it was proved, and most have one lemma for each action or
group of actions.

### ServerStream

* `TypeCorrect`: `Spec => []TypeOK`.
* `CallsInvariant`, `CloseInvariant`, `RecvInvariant`, `WireInvariant`: four inductive
  invariants, each relative to those before it.
* `TicketsAreBounded`: `Spec => []TicketsBound`.
* `StopIsQuiet`: `Spec => []StopWaitsForHandlers`.
* `NeverSendsOnClosed`: `Spec => []NoSendOnClosed`.
* `ReceivesEverything` and `Delivers`: `Spec => []DeliveryInv`.

`CallsInv`. That no handler runs after `Stop`'s wait
rests on the wait group being empty then, on every running handler being
counted in it, and on no handler starting afterwards, which holds as the read
loop tests the server's context between the `Add` and the start. `CallsInv` says
so in parts: a handler runs only for a stream whose headers came
(`HandlersStarted`); the read loop is between the `Add` and the start only for
a stream without headers before (`HeadersOnce`), so no goroutine is started
twice; each handler and the read loop in that interval are counted
(`CountedAsWorkers`); holders of tickets are exactly the handlers that have not
given theirs back (`TicketHolders`), in a finite set of at most `MaxTickets`;
and once `Stop` has passed its wait no handler runs and the read loop is not
about to start one (`StoppedIsQuiet`). The steps that leave the tickets, workers
and program counters of handlers alone share a lemma.

`CloseInv`. That nothing is sent on a closed `msgCh` needs that the read loop is the only
sender and registered while it sends (`SenderIsPump`), the order in which `recvClosed`,
`closed` and the close of `msgCh` happen (`FlagOrder`), and who holds `mu` at which
label (`LockHolders`): the swap of `closed` lets one goroutine through, and it waits for
the senders under the lock that a new sender needs.

`RecvInv`. Messages received, in `msgCh` and on their way from the read loop add up to
the messages accepted, while the stream's context lives (`Ordered`); that holds only
since a half-close (`HalfClose`) comes after the last of them and a stream gets its headers
before any message (`HeadersFirst`).

`WireInv`. Headers and trailers are written at most once although three goroutines can
write each: what is on the wire is tied to the flags that were swapped before it
was written and to the label of the handler (`OneHeader`, `OneTrailer`, `HandlerWrites`).

### BaseChannel

* `ChannelIsConsistent`: `ChannelSpec => []ChannelInv`.

`BufferBound` is not inductive: a writer that passed the test still adds its
message. `Reserved` counts those writers as if they had written; the sum stays below the
threshold plus one message for each writer. What `Close` promises needs who holds `ch.mu`
(`MuHeld`), from the lock to the end of `GracefulClose`, and that a closed channel is shut once its
closer let go of it (`ClosedIsShut`).

### ClientStream

* `StreamsAreOrdered`: `Spec => []StreamInv`.

Five goroutines can end a stream. `ClosedOnce` says that one does: a stream somebody is
closing was not closed by its trailers, and one that these closed keeps their status
whatever comes after. `OpenGoesOn` and `ResultAtEnd` follow a stream that nobody gave up:
received, buffered and in delivery are all messages of the server, and a receiver
that has the trailers' status has them all. `Written` ties the wire to the labels of sender and
watcher, as a reset may be written by the watcher between two writes of the sender.

### Dialer

* `SharedConnectionsStayOpen`: `DialerSpec => []CacheInv`.
* `DialsCloseWhatTheyOpen`: `DialerSpec => []NothingLeft`.

Both come down to the reference counts being right. References are in five kinds of places:
in the hands of a goroutine, beside what it dials, next in line to be closed, and, in a connection, the
connection it wraps and the one for its credentials; `Dialer.Close` has one more.
`hold` maps these places (`Holders`) to what they hold, and `CountsOK` says that the count of a
connection is the number of places that hold it. For external authentication it is at least
that number, as the code loses such references; a released connection is held nowhere. A
step changes `hold` at few places, and the lemmas `Change` and `Changes` say what that does to a
number. So each action's lemma shows which references it moves, and the counts follow.

The rest of the invariant makes this go through. A connection a goroutine has yet to make does not
exist (`Level` in `ProcOK`): a goroutine makes those of its keys in one order, so a name is used once.
What is to be closed is one reference and then connections to take out of the cache (`Shaped`), so
one place per goroutine is enough. A connection nobody counts is open only while the goroutine that
found it redundant is about to close it (`EntriesOK`), and none such is in the cache (`ConnsOK`).
While `Dialer.Close` has not been called, a connection that is counted is open: with `CountsOK`
that is `OpenWhileHeld`, along the chain of a connection and the one it wraps. And
when everything is quiet only connections are left as holders; one that wraps another is
itself wrapped by none, so it is counted by nobody and closed, and so is what it wrapped.

The steps of closing share one lemma about what they do (`CloseStepIs`), for a goroutine and
for `Dialer.Close`; the steps that neither make nor close anything share another (`Goes`).
`DialerAssumption` says, of what a count needs, that the calls are finitely many and that `None`
is neither a connection nor a goroutine. The proof found two alternatives of `Gathered` that
overlapped, so that the model left open what becomes of a connection after a fatal error of the other leg; `dial`
takes the connection (`rpc/dial.go:269-271`).

### WebRTCDial

* `CallIsConcludedOnce`: `Spec => []CallInv`.
* `DialLeavesNothing`: `Spec => []NothingLeft`.

`CallInv` counts an update as sent only if the context it was made with was not over. `Concluding` ties
`sendDoneErrorOnce` to the updates sent and to the labels of the goroutine in it; `Gathered` says that the goroutine of the last candidate starts when all
others were found and sends when they have been sent; `Stages` and `Left` follow the
connection to the signaling server and the peer connection to the clean-up.

### MongoQueue

* `Invariance`: the inductive invariant.
* `UpdatesArrive`: `Spec => []QueueInv`.
* `Implements`: `Spec => QueueSpec`, the refinement of `CallQueue`.

`NoUpdateLost` says of a side that waits and is behind its document that the change is in
the oplog beyond what its operator's stream has read, or is the last event in its
channel, unless an event of the call went by (`lost`): the channel was full, or a caller's error was
read before the answerer subscribed. The invariant adds the types with the capacity of channels; `DocInv`, by which
each side has heard at most what the other said and nobody spoke before he could; `HeldInv`,
by which a call is held by one answerer, whose exchange is of that call and whose operator
is the one named in the document, so that the events of the call are read where they are
waited for; and `LogInv`, by which only the first change of a call is an insert, so that an
insert read late, after which nothing else is in the oplog, carries nothing new.

A step of the specification is first shown to be of one of eight kinds (`Steps`): one that
changes documents, callers, answerers and streams only in ways that disturb no part of the
invariant (`Steady`), an event that is read and delivered, an expiry, an insert, an event
taken by the caller, a call taken by an answerer, the start of an exchange, an event taken by
the answerer. For each kind one lemma shows that it preserves the invariant and one that it
is a step of `CallQueue` or changes nothing `CallQueue` sees.

The proof changed the mapping of `phase` in the model: it was a `CASE` two arms of which
matched a call that was taken and is gone, so that which phase it had was left open. TLC takes
the first arm; it is an `IF` now.

### Processes

* `TypesHold`: `Spec => []TypeOK`.
* `AccountHolds`: the inductive invariant `ProcessesInv`.
* `StopEndsProcess`: `Spec => []StopLeavesNothing`.
* `ManagerEndsProcesses`: `Spec => []ManagerLeavesNothing`.
* `StoppedStaysStopped`: `Spec => NoStartAfterStop`.

That nothing of the manager's runs after its `Stop` says nothing of how far a
loop is, and nothing of a `manage` goroutine that is about to restart a process
that is dead at the moment. The invariant therefore speaks of *live* processes,
which run or may be restarted, and accounts for each (`RunOK`): it is in the
map, or still to be visited by the loop of `stop`, or the one the loop is at.
That a process the loop has left is not live needs `ProcOK` (a one-shot process
lives while `mu` is held, any other while `manage` is in `Wait`, and a `Stop`
that is through has seen `manage` end) and `StopOK` (a process that is stopped
before the loop reaches it was stopped by a user). `MgrOK` orders the manager's
flags and operations and keeps the map indexed by the IDs of its processes.

### Signaling

* `Invariance`: the inductive invariant `Inv`.
* `OfferHandedOnce`: `Spec => [][OfferStays]_vars`.
* `Exchange`: `Spec => []ExchangeInv`.

That the handler reads stages in order says nothing of what is still on the stream, so
the invariant speaks of the whole of it: while `answererLoop` reads, or is about to, only
the first message can be the answer, and an error alone comes without one (`StreamOK`),
because a candidate's goroutine waits for the answer to be sent (`BeforeInit`)
and the goroutine that sends done for all of them (`GatherOK`). That nothing is
lost is a count (`CountOK`): as long as nobody gave the exchange up, what the caller has,
what the loop holds and what is on the stream are the answer and every candidate
whose goroutine has sent it; when the exchange ended by done, nothing is on the way
and no goroutine is left. `PhaseOK` says where handler and worker of an attempt can be
together, `OfferOK` and `OneHolder` that an offer nobody took has no history and a
taken one has one attempt, so that two attempts never write to one call. With `ResponseOK`,
which relates what the loop of `Call` has received to `haveInit` of the handler,
the check of the first response in `Call` (`rpc/wrtc_signaling_server.go:211`) is shown never
to fail. `CloseOK` says that a `callerLoop` is counted in `callWorkers` and none starts
once the server is closed.

The number of queues is bounded by that of hosts only if every queue is some host's
(`QueueTypes`); that needs finitely many hosts, and that an answerer has one, which
`HostsFromCtx` (`rpc/wrtc_signaling_server.go:93`) checks. `SignalingAssumption` says both.

### RPCServer

* `AccessInvariant`: the inductive invariant of server, credentials and calls.
* `ChannelInvariant`: the one of the WebRTC channels, relative to it.
* `OnlyOwnersAreServed`: `Spec => []AccessInv`.
* `StopIsGracefulAndFinal`: `Spec => StopInOrder`.

The options of the server, of the external service and of the connection are constants
of which little is assumed: a configured key is a key, a static material is signed by
some key, and a connection that dials the external service names whom it authenticates
to. The first lemmas say what the operators of `Auth` decide for all of them: the token `Authenticate`
gives is made out to an entity whose payload the handler of the type accepts
(`AuthenticateGives`); `AuthenticateTo` hands on who the caller's token was made out to
(`AuthenticateToGives`); and the interceptors let a request go on as the subject of a token
that is for this server, as its certificate, or without an entity where the method or the
server asks for none, which a stream of a public method never does (`UnaryGives`, `StreamGives`).

`AccessInv` speaks of a call in its handler and says nothing of the tokens on their way
there. The invariant does (`TokenInv`): every token a call holds, and the one the calls
share, is the owner's, who has authenticated where credentials are used. That a call
obtains it with credentials only when there is no static material, and only on a
connection that renews, is `StageOK`; `CallOK` ties the lock of the credentials to the
four stages under it, so that a store and another call's store never mix, and `Served`
keeps, at the handler, what the interceptors decided. The clearing of the token without the lock
disturbs none of this: it writes no token. For the channels `ChanInv` keeps what the interceptor
found when `Call` was let in, and that there is none once `Stop` is past the WebRTC server. For
`StopInOrder` the invariant says that `ss.mu` is held while `Stop` runs, or for ever after a failed
`serveTLS`, and that the gRPC server is stopped when `Stop` has returned (`ServerOK`).

The proof found that an empty certificate name on the list of the TLS handler would have
authenticated a peer without a certificate in the model; the code refuses such a
peer first (`rpc/server_auth.go:307`), and `TLSAuthed` does now.

### Web

* `Invariance`: the inductive invariant `Inv`.
* `OwnSessions`: `Spec => []SessionInv`.
* `LogoutLasts`: `Spec => []LogoutSticks`.
* `LoginLasts`: `Spec => LoginSticks`.

`SessionInv` is about what a browser finds with the cookies it has, and says nothing of
the responses that will change them. The invariant speaks of every session a browser
*knows*, by its cookies or by a request under way (`Knows`): it was drawn, no other browser
knows it, and what is stored in it is the browser's user or nothing (`KnowsOK`). As a deleted
session's id is taken up again (`web/sessions.go`), an id stays with its browser; a new one is
known to nobody, since nothing is stored beyond the last drawn (`Fresh`), and each request that
will draw one has its number set aside (`DrawOK`).

A browser that is logged out has no profile in the session it presents, nor in one that a login
or a token callback under way works on (`OutOK`): only those can give it a session-id cookie
again. For `LoginSticks`, `SoloOK` says that a request which is alone was sent
with the cookies the jar still has, and that a login leaves the redirect cookie and the session
cookie naming one session, although it sets the second for a new session only; `CalmOK` keeps
that for a browser nothing has disturbed: its redirect cookie names the session it presents, or
one that is gone, and a callback that has saved its profile saved it there.

Steps of a handler share one lemma (`HandlerKeeps`), which asks of the step what it does to its
own request and browser and shows that other browsers and tabs keep what the invariant says of
them; steps of a browser share another (`BrowserKeeps`). `WebAssumption` says that the tabs are
finitely many, which the bound on numbers drawn counts, and that no browser is called like a
missing document or profile.

### Artifact

* `StoreIsSound`: `ArtifactSpec => []StoreInv`.
* `PullIsComplete`: `ArtifactSpec => []PullDelivers`.
* `CleanIsComplete`: `ArtifactSpec => []CleanLeavesTheTree`.
* `StatusIsExact`: `ArtifactSpec => []StatusForetells`.

These speak of a command that is done; the invariant `ArtifactInv` says the same of the paths
a command has behind it while it runs, so that at the end, with none left to visit, it is
what was to be shown. `PullInv`, `PushInv`, `StatusInv` and `CleanInv` do so for their commands,
`TodoInv` says that a walk has paths of the root before it and a pull files of the tree, and
`TreeIsStored` that whatever the tree in memory names is in the source store before it can be
committed: `WriteThrough` stores the blob before the node.

What makes this hard is that a step at one path changes others: storing a node turns
its parents into directories, whatever they were, and drops what was below. `StoreBeside` says
that storing at a path what another well-formed tree has there disturbs no file of that other
tree, and `WalkBeside` that a step of a push or of a status, which may make directories in the
tree, leaves every other file of the root as recorded or unrecorded as it was. Both rest on few facts about paths (`UnderOrder`,
`ParentsOfParents`) and on `StoreHash` and `Without` keeping trees well formed. That a walk
visits every path of the root is `WalksVisit`; for that, a walk is in the model *a* sequence of
the paths in the order of `Order`, not a filter of it, whose result would need an
induction. `ArtifactAssumption` says that paths are non-empty sequences of names and that no
content is called like a directory.

### Only model-checked

Every liveness property, as fairness is outside the prover's reach. Every other property
a passing run checks is a theorem.

## 6. Not modelled

The packets of a message, so `MaxMessageSize` too (sequential code over one
buffer); metadata, deadlines and status codes beyond those a decision is made
on; logging and statistics; the cache of additional ICE servers of the signaling
server (its errors are among those of `AnswerFail`); SDP, ICE, TLS and
signatures themselves, as pion and the crypto libraries are external; options
that only hand on an interceptor, a statistics handler, an issuer or a debug
flag; HTTP routing, gRPC-Web and the gateway; the JWKS refresh; the memory
session store and the templates of `web/`; hash collisions and file permissions in
`artifact/`; `perf/`, the small utilities, Windows, the browser client, generated
code and examples. `client.Send` from several goroutines, which gRPC does not
allow, is serialised in `Signaling`.

Left out of components that are modelled: the connection to a signaling server may have one for
external authentication of its own (`rpc/wrtc_client.go:413-440`), which `Dialer` does not have; its
`NothingLeft` is not about such connections; `peerConnsMu` (section 4); an unregistered
method of a registered service; an answerer of several hosts with
existing in-memory queues listens on the last only
(`rpc/wrtc_call_queue_memory.go:313`; the model has the operator and no instance
with two hosts); a streaming handler that returns `io.EOF` leaves its stream open
(`rpc/wrtc_server.go:252`; modelled as `HandlerQuit`, no property is about it).

## 7. Plan

Every module planned is written, and every safety property a passing run checks is proved; the liveness
properties stay with TLC. A next step would be the components of section 6 that keep state of their own:
the memory session store of `web/` and the JWKS refresh.
