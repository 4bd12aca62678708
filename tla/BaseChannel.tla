---------------------------- MODULE BaseChannel ----------------------------
(***************************************************************************)
(* webrtcBaseChannel (rpc/wrtc_base_channel.go): the flow control of       *)
(* write, the ways the channel is closed, and the goroutines that follow   *)
(* the state of the ICE connection.                                        *)
(*                                                                         *)
(* bufferWriteCond is a condition variable on the READ side of the         *)
(* RWMutex bufferWriteMu, so writers wait and send side by side, and only  *)
(* the OnBufferedAmountLow callback takes the write side. Go's RWMutex     *)
(* gives a waiting writer precedence over new readers.                     *)
(*                                                                         *)
(* The data channel is external: Send adds MsgSize to its buffered amount, *)
(* the network drains it, and the callback is called when the amount falls *)
(* from above the threshold to the threshold or below. Its read loop hands *)
(* messages to the server's streams, whose closeWithSendError asks Closed  *)
(* and then writes, all on the read loop's goroutine; GracefulClose waits  *)
(* for the read loop and for the callback.                                 *)
(***************************************************************************)
EXTENDS Naturals, FiniteSets

CONSTANTS
  Writers,    \* goroutines that call write
  Readers,    \* those that are a read loop of the peer connection
  Closers,    \* goroutines that run Close, onChannelClose or onChannelError
  Users,      \* those that run Close
  Threshold,  \* bufferThreshold
  MsgSize,    \* size of every message, in the unit of Threshold
  MaxWrites,  \* bound: writes per goroutine
  MaxIce,     \* bound: changes of the ICE connection state
  MayLose     \* whether the ICE connection can be lost

ASSUME BaseChannelAssumption ==
  /\ IsFiniteSet(Writers) /\ Readers \subseteq Writers
  /\ Users \subseteq Closers /\ {"free", "ice", "none"} \cap Closers = {}
  /\ Threshold \in Nat \ {0} /\ MsgSize \in Nat \ {0}
  /\ MaxWrites \in Nat /\ MaxIce \in Nat /\ MayLose \in BOOLEAN

VARIABLES
  pc,          \* the goroutines in write
  left,        \* writes a goroutine still has to make
  rlock,       \* holders of bufferWriteMu.RLock
  low,         \* the OnBufferedAmountLow callback: idle, lock, bcast
  buffered,    \* dataChannel.BufferedAmount
  ctxDone,     \* ch.ctx
  closed, reason,
  mu,          \* the holder of ch.mu, an ICE goroutine's being "ice"
  cpc,         \* the goroutines in closeWithReason and Close
  open,        \* the peer connection is not closed
  connID,      \* information on the connection has been gathered
  ice,         \* goroutines of connStateChanged, by the state they report
  icePc,       \* what the one that holds ch.mu still has to do
  peerDone,    \* calls of onPeerDone
  nice

writeVars == <<pc, left, rlock>>
netVars   == <<low, buffered>>
closeVars == <<closed, reason, cpc>>
iceVars   == <<connID, ice, icePc, peerDone, nice>>
channelVars == <<writeVars, netVars, closeVars, iceVars, ctxDone, mu, open>>

\* A bag of ICE goroutines that wait for ch.mu: how many report a lost
\* connection, and how many any other state.
IceStates == {"lost", "other"}
Pending == ice["lost"] + ice["other"] + (IF mu = "ice" THEN 1 ELSE 0)

ChannelInit ==
  /\ pc = [w \in Writers |-> "idle"] /\ left = [w \in Writers |-> MaxWrites] /\ rlock = {}
  /\ low = "idle" /\ buffered = 0
  /\ ctxDone = FALSE /\ closed = FALSE /\ reason = "none" /\ mu = "free"
  /\ cpc = [c \in Closers |-> "idle"] /\ open = TRUE
  /\ connID = FALSE /\ icePc = "none" /\ peerDone = 0 /\ nice = 0
  /\ ice = [x \in IceStates |-> IF x = "other" THEN 1 ELSE 0]  \* "fire once"

----------------------------------------------------------------------------
(* write *)

\* RLock succeeds when the callback neither holds nor awaits the write side.
RLockFree == low \notin {"lock", "bcast"}

WriteLock(w) ==
  /\ \/ /\ w \notin Readers /\ pc[w] = "idle" /\ left[w] > 0
        /\ left' = [left EXCEPT ![w] = @ - 1]
     \/ pc[w] \in {"answer", "woken"} /\ UNCHANGED left
  /\ RLockFree
  /\ rlock' = rlock \cup {w}
  /\ pc' = [pc EXCEPT ![w] = "check"]
  /\ UNCHANGED <<netVars, closeVars, iceVars, ctxDone, mu, open>>

\* The test of ch.ctx: a done context returns io.ErrClosedPipe and does not
\* unlock.
WriteCheck(w) ==
  /\ pc[w] = "check"
  /\ pc' = [pc EXCEPT ![w] = IF ctxDone THEN "idle" ELSE "full"]
  /\ UNCHANGED <<left, rlock, netVars, closeVars, iceVars, ctxDone, mu, open>>

\* Mutant: the buffered amount is not looked at.
WriteNoFlowControl(w) ==
  /\ pc[w] = "full"
  /\ pc' = [pc EXCEPT ![w] = "send"]
  /\ rlock' = rlock \ {w}
  /\ UNCHANGED <<left, netVars, closeVars, iceVars, ctxDone, mu, open>>

\* The test of BufferedAmount. Cond.Wait joins the waiters before it releases
\* the lock, so from here a Broadcast reaches this goroutine.
WriteFull(w) ==
  /\ pc[w] = "full"
  /\ pc' = [pc EXCEPT ![w] = IF buffered >= Threshold THEN "wait" ELSE "send"]
  /\ rlock' = rlock \ {w}
  /\ UNCHANGED <<left, netVars, closeVars, iceVars, ctxDone, mu, open>>

\* dataChannel.Send, which fails on a closed connection.
WriteSend(w) ==
  /\ pc[w] = "send"
  /\ buffered' = IF open THEN buffered + MsgSize ELSE buffered
  /\ pc' = [pc EXCEPT ![w] = "idle"]
  /\ UNCHANGED <<left, rlock, low, closeVars, iceVars, ctxDone, mu, open>>

Write(w) == WriteLock(w) \/ WriteCheck(w) \/ WriteFull(w) \/ WriteSend(w)

\* The read loop has a message whose handler ends the stream
\* (closeWithSendError); a closed connection delivers no more.
ReadMessage(r) ==
  /\ pc[r] = "idle" /\ left[r] > 0 /\ open
  /\ left' = [left EXCEPT ![r] = @ - 1]
  /\ pc' = [pc EXCEPT ![r] = "ask"]
  /\ UNCHANGED <<rlock, netVars, closeVars, iceVars, ctxDone, mu, open>>

\* Closed() takes ch.mu; on an open channel the handler goes on to write.
Closed(r) ==
  /\ pc[r] = "ask" /\ mu = "free"
  /\ pc' = [pc EXCEPT ![r] = IF closed THEN "idle" ELSE "answer"]
  /\ UNCHANGED <<left, rlock, netVars, closeVars, iceVars, ctxDone, mu, open>>

Broadcast == pc' = [w \in Writers |-> IF pc[w] = "wait" THEN "woken" ELSE pc[w]]

----------------------------------------------------------------------------
(* The data channel (external) and its OnBufferedAmountLow callback. *)

\* The network takes one message; the data channel calls the callback on its
\* own goroutine, so it drains no more until the callback returns.
Drain ==
  /\ buffered > 0 /\ open /\ low = "idle"
  /\ buffered' = IF buffered > MsgSize THEN buffered - MsgSize ELSE 0
  /\ low' = IF buffered > Threshold /\ buffered' <= Threshold THEN "lock" ELSE "idle"
  /\ UNCHANGED <<writeVars, closeVars, iceVars, ctxDone, mu, open>>

LowLock ==
  /\ low = "lock" /\ rlock = {}
  /\ low' = "bcast"
  /\ UNCHANGED <<writeVars, buffered, closeVars, iceVars, ctxDone, mu, open>>

\* Mutant: the callback wakes one waiter (Signal).
LowSignal ==
  /\ low = "bcast"
  /\ low' = "idle"
  /\ IF \E w \in Writers : pc[w] = "wait"
     THEN \E w \in Writers : pc[w] = "wait" /\ pc' = [pc EXCEPT ![w] = "woken"]
     ELSE UNCHANGED pc
  /\ UNCHANGED <<left, rlock, buffered, closeVars, iceVars, ctxDone, mu, open>>

LowBroadcast ==
  /\ low = "bcast"
  /\ low' = "idle"
  /\ Broadcast
  /\ UNCHANGED <<left, rlock, buffered, closeVars, iceVars, ctxDone, mu, open>>

----------------------------------------------------------------------------
(* closeWithReason and Close *)

\* Close waits for the background workers; the callbacks do not.
AfterClose(c) == IF c \in Users THEN "wait" ELSE "done"

\* A goroutine calls closeWithReason.
CloseCall(c) ==
  /\ cpc[c] = "idle"
  /\ cpc' = [cpc EXCEPT ![c] = "lock"]
  /\ UNCHANGED <<writeVars, netVars, closed, reason, iceVars, ctxDone, mu, open>>

\* closeWithReason up to ch.cancel, for the caller c, whose name stands for the
\* reason it gives.
CloseStart(c) ==
  /\ cpc[c] = "lock" /\ mu = "free"
  /\ IF closed
     THEN cpc' = [cpc EXCEPT ![c] = AfterClose(c)] /\ UNCHANGED <<closed, reason, ctxDone, mu>>
     ELSE /\ closed' = TRUE /\ reason' = c /\ ctxDone' = TRUE /\ mu' = c
          /\ cpc' = [cpc EXCEPT ![c] = "bcast"]
  /\ UNCHANGED <<writeVars, netVars, iceVars, open>>

\* The Broadcast, made without bufferWriteMu.
CloseBroadcast(c) ==
  /\ cpc[c] = "bcast"
  /\ Broadcast
  /\ cpc' = [cpc EXCEPT ![c] = "graceful"]
  /\ UNCHANGED <<left, rlock, netVars, closed, reason, iceVars, ctxDone, mu, open>>

\* peerConn.GracefulClose closes the connection, then waits, with ch.mu held,
\* for what runs on the goroutines that read from it.
CloseGraceful(c) ==
  /\ cpc[c] = "graceful"
  /\ open' = FALSE
  /\ cpc' = [cpc EXCEPT ![c] = "readloop"]
  /\ UNCHANGED <<writeVars, netVars, closed, reason, iceVars, ctxDone, mu>>

ReadLoopsEnd == low = "idle" /\ \A r \in Readers : pc[r] = "idle"

\* Mutant: ch.mu stays locked.
CloseKeepMu(c) ==
  /\ cpc[c] = "readloop" /\ ReadLoopsEnd
  /\ cpc' = [cpc EXCEPT ![c] = AfterClose(c)]
  /\ UNCHANGED <<writeVars, netVars, closed, reason, iceVars, ctxDone, mu, open>>

\* The end of GracefulClose, and ch.mu.Unlock.
CloseUnlock(c) ==
  /\ cpc[c] = "readloop" /\ ReadLoopsEnd
  /\ mu' = "free"
  /\ cpc' = [cpc EXCEPT ![c] = AfterClose(c)]
  /\ UNCHANGED <<writeVars, netVars, closed, reason, iceVars, ctxDone, open>>

\* activeBackgroundWorkers.Wait, which Close defers.
CloseWait(c) ==
  /\ cpc[c] = "wait" /\ Pending = 0
  /\ cpc' = [cpc EXCEPT ![c] = "done"]
  /\ UNCHANGED <<writeVars, netVars, closed, reason, iceVars, ctxDone, mu, open>>

CloseStep(c) == CloseBroadcast(c) \/ CloseGraceful(c) \/ CloseUnlock(c) \/ CloseWait(c)

----------------------------------------------------------------------------
(* connStateChanged *)

\* The ICE agent reports a state: a goroutine is started, and goroutines take
\* ch.mu in any order. A closed peer connection reports nothing more.
IceEvent(x) ==
  /\ open /\ nice < MaxIce /\ (x = "lost" => MayLose)
  /\ nice' = nice + 1
  /\ ice' = [ice EXCEPT ![x] = @ + 1]
  /\ UNCHANGED <<writeVars, netVars, closeVars, connID, icePc, peerDone, ctxDone, mu, open>>

\* The goroutine up to the end of doPeerDone. onPeerDone is called once.
IceRun(x) ==
  /\ ice[x] > 0 /\ mu = "free"
  /\ ice' = [ice EXCEPT ![x] = @ - 1]
  /\ LET done == closed \/ (x = "lost" /\ connID)
     IN  /\ ctxDone' = (ctxDone \/ done)
         /\ peerDone' = IF done THEN 1 ELSE peerDone
         /\ connID' = (connID \/ (~closed /\ x = "other"))
         /\ IF done /\ ~closed
            THEN mu' = "ice" /\ icePc' = "graceful"
            ELSE UNCHANGED <<mu, icePc>>
  /\ UNCHANGED <<writeVars, netVars, closeVars, nice, open>>

\* GracefulClose of a connection that is lost, under ch.mu as well.
IceGraceful ==
  /\ icePc = "graceful"
  /\ open' = FALSE /\ icePc' = "readloop"
  /\ UNCHANGED <<writeVars, netVars, closeVars, connID, ice, peerDone, nice, ctxDone, mu>>

IceUnlock ==
  /\ icePc = "readloop" /\ ReadLoopsEnd
  /\ mu' = "free" /\ icePc' = "none"
  /\ UNCHANGED <<writeVars, netVars, closeVars, connID, ice, peerDone, nice, ctxDone, open>>

ChannelNext ==
  \/ \E w \in Writers : Write(w)
  \/ \E r \in Readers : ReadMessage(r) \/ Closed(r)
  \/ Drain \/ LowLock \/ LowBroadcast
  \/ \E c \in Closers : CloseCall(c) \/ CloseStart(c) \/ CloseStep(c)
  \/ \E x \in IceStates : IceEvent(x) \/ IceRun(x)
  \/ IceGraceful \/ IceUnlock

\* Goroutines that can run do run, a sync.Mutex is granted in turn (strong
\* fairness of the goroutines that wait for ch.mu), an open connection is drained.
Fairness ==
  /\ \A w \in Writers : WF_channelVars(pc[w] # "idle" /\ Write(w))
  /\ \A r \in Readers : SF_channelVars(Closed(r))
  /\ WF_channelVars(Drain) /\ WF_channelVars(LowLock \/ LowBroadcast)
  /\ \A c \in Closers : WF_channelVars(CloseStep(c)) /\ SF_channelVars(CloseStart(c))
  /\ WF_channelVars(IceGraceful \/ IceUnlock) /\ \A x \in IceStates : SF_channelVars(IceRun(x))

ChannelSpec == ChannelInit /\ [][ChannelNext]_channelVars /\ Fairness

----------------------------------------------------------------------------
(* Properties. *)

\* Every variable stays in its type; in particular onPeerDone is called once at
\* most, although any number of ICE goroutines find the connection done.
ChannelTypeOK ==
  /\ pc \in [Writers -> {"idle", "ask", "answer", "check", "full", "wait", "woken", "send"}]
  /\ left \in [Writers -> Nat] /\ rlock \subseteq Writers
  /\ low \in {"idle", "lock", "bcast"} /\ buffered \in Nat
  /\ ctxDone \in BOOLEAN /\ closed \in BOOLEAN /\ open \in BOOLEAN
  /\ reason \in Closers \cup {"none"} /\ mu \in Closers \cup {"free", "ice"}
  /\ cpc \in [Closers -> {"idle", "lock", "bcast", "graceful", "readloop", "wait", "done"}]
  /\ connID \in BOOLEAN /\ ice \in [IceStates -> Nat] /\ icePc \in {"none", "graceful", "readloop"}
  /\ peerDone \in {0, 1} /\ nice \in Nat

\* Writers check the buffered amount under a lock they share, so all of them
\* may pass the check before one sends; the overshoot is one message each.
BufferBound == buffered < Threshold + MsgSize * Cardinality(Writers)

\* As long as the channel's context is live, bufferWriteMu is read-locked only
\* by goroutines inside write's loop, so the callback gets the write side.
LocksHeldInLoop == ~ctxDone => \A w \in rlock : pc[w] \in {"check", "full"}

\* When Close has returned, no goroutine of connStateChanged is left, the
\* connection is closed, and no read loop or callback runs.
CloseWaitsForWorkers ==
  \A c \in Users : cpc[c] = "done" => Pending = 0 /\ ~open /\ ReadLoopsEnd

\* The state of the channel is consistent: whoever writes, closes or is called
\* back, the buffer stays within its bound, the read lock with its writers, and
\* a Close that returned has no goroutine behind it.
ChannelInv == ChannelTypeOK /\ BufferBound /\ LocksHeldInLoop /\ CloseWaitsForWorkers

\* A blocked write goes on when the data channel drains (sizes for which the
\* buffered amount never equals the threshold), or the channel is done.
WriteProgress == \A w \in Writers : pc[w] # "idle" ~> (pc[w] = "idle" \/ ctxDone)

\* A GracefulClose that never returns, ch.mu being held: the read loop waits
\* for ch.mu in Closed, or in write for a wake-up nobody will make (doPeerDone
\* does not Broadcast, closeWithReason does so without bufferWriteMu), or the
\* callback waits for bufferWriteMu behind a read lock that write leaked.
GracefulCloseStuck ==
  /\ icePc = "readloop" \/ \E c \in Closers : cpc[c] = "readloop"
  /\ \/ \E r \in Readers : pc[r] = "ask"
     \/ low = "idle" /\ \E r \in Readers : pc[r] = "wait"
     \/ low = "lock" /\ \E w \in rlock : pc[w] = "idle"

\* Every call of Close and every close callback returns, unless a GracefulClose
\* is stuck in one of the ways above.
CloseReturnsUnlessStuck ==
  \A c \in Closers : cpc[c] # "idle" ~> (cpc[c] = "done" \/ GracefulCloseStuck)

\* 'We "gracefully" close to wait for the read loop to complete': what the
\* GracefulClose of a Close, of a close callback or of a lost connection waits
\* for does complete. The code does not keep this: see GracefulCloseStuck.
ReadLoopCompletes ==
  /\ \A c \in Closers : cpc[c] = "readloop" ~> cpc[c] # "readloop"
  /\ icePc = "readloop" ~> icePc # "readloop"

\* "SendMsg blocks until ... the stream is done, or the stream breaks": a
\* writer does not stay blocked in write when the channel's context is done. The
\* code does not keep this: doPeerDone wakes nobody.
DoneUnblocksWrite == \A w \in Writers : (pc[w] = "wait" /\ ctxDone) ~> pc[w] # "wait"
====
