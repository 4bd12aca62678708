----------------------------- MODULE WebRTCDial -----------------------------
(***************************************************************************)
(* dialWebRTC (rpc/wrtc_client.go): one dial through a signaling server.   *)
(* Its main goroutine, a goroutine per local ICE candidate and one for the *)
(* end of gathering, and the goroutine that reads the answer and the       *)
(* remote candidates run side by side, and all of them may report an error *)
(* or conclude the call.                                                   *)
(*                                                                         *)
(* Once the peers are connected, the negotiation channel that              *)
(* ConfigureForRenegotiation (rpc/wrtc_peer.go) gave the peer connections  *)
(* opens: the answering side offers again when it adds a track.            *)
(*                                                                         *)
(* The signaling server, the answerer and pion are the environment.        *)
(***************************************************************************)
EXTENDS Naturals, Sequences, FiniteSets

CONSTANTS
  Cands,     \* the local candidates, in the order they are found: 1 .. n
  FirstHost, \* the first of them that is a host candidate
  MaxTracks, \* bound: tracks the answering side adds
  MaxFaults  \* bound: failures of calls to the signaling server and of pion

ASSUME WebRTCDialAssumption ==
  /\ Cands = 1 .. Cardinality(Cands) /\ IsFiniteSet(Cands) /\ FirstHost \in Cands
  /\ MaxTracks \in Nat /\ MaxFaults \in Nat

VARIABLES
  trickle,  \* not DisableTrickleICE
  main,     \* the goroutine of dialWebRTC, and what it returns
  ctx,      \* dialCtx
  sig,      \* the connection to the signaling server
  peer,     \* the peer connection and its data channel
  gathered, \* candidates found so far; one more stands for the end of gathering
  cand,     \* the goroutine of each candidate
  last,     \* that of the end of gathering
  xch,      \* the goroutine that runs exchangeCandidates
  haveInit, \* with uuid, and remoteDescSet is closed
  once,     \* sendDoneErrorOnce: free, the goroutine in it, or over
  sent,     \* history: the updates that went out, in order
  neg,      \* the negotiation channel and what the peers make of it
  faults

vars == <<trickle, main, ctx, sig, peer, gathered, cand, last, xch, haveInit, once, sent, neg, faults>>
dialVars == <<trickle, main, ctx, sig, gathered, cand, last, xch, haveInit, once, sent>>

Init ==
  /\ trickle \in BOOLEAN /\ main = [at |-> "signal", res |-> "none"] /\ ctx = "live"
  /\ sig = "none" /\ peer = "none" /\ gathered = 0
  /\ cand = [c \in Cands |-> "none"] /\ last = "none" /\ xch = "none"
  /\ haveInit = FALSE /\ once = "free" /\ sent = <<>>
  /\ neg = [open |-> FALSE, tracks |-> 0, needed |-> FALSE, state |-> "stable",
            known |-> 0, offers |-> <<>>, answers |-> <<>>]
  /\ faults = 0

Fault == faults < MaxFaults /\ faults' = faults + 1
Main(at, res) == main' = [at |-> at, res |-> res]

\* exchangeCtx ends with dialCtx, or when dialWebRTC returns.
ExchangeOver == ctx = "done" \/ main.at \in {"cleanup", "returned"}

----------------------------------------------------------------------------
(* The main goroutine *)

\* dialSignalingServer
DialSignalingServer ==
  /\ main.at = "signal"
  /\ \/ sig' = "open" /\ Main("config", "none") /\ UNCHANGED faults
     \/ UNCHANGED sig /\ Main("returned", "error") /\ Fault
     \/ ctx = "done" /\ UNCHANGED <<sig, faults>> /\ Main("returned", "error")
  /\ UNCHANGED <<trickle, ctx, peer, gathered, cand, last, xch, haveInit, once, sent, neg>>

\* OptionalWebRTCConfig, and newPeerConnectionForClient, which closes what it
\* made when it fails. Without trickle ICE it waits until all candidates are
\* in the local description.
Configure ==
  /\ main.at = "config"
  /\ \/ /\ peer' = "open" /\ Main("offer", "none") /\ UNCHANGED faults
        /\ gathered' = IF trickle THEN 0 ELSE Cardinality(Cands) + 1
     \/ UNCHANGED <<peer, gathered>> /\ Fault /\ \E r \in {"error", "nosignaler"} : Main("cleanup", r)
     \/ ctx = "done" /\ UNCHANGED <<peer, gathered, faults>> /\ Main("cleanup", "error")
  /\ UNCHANGED <<trickle, ctx, sig, cand, last, xch, haveInit, once, sent, neg>>

\* SetLocalDescription starts the gathering.
Offer ==
  /\ main.at = "offer"
  /\ \/ Main(IF trickle THEN "waitOneHost" ELSE "call", "none") /\ UNCHANGED faults
     \/ trickle /\ Main("cleanup", "error") /\ Fault
  /\ UNCHANGED <<trickle, ctx, sig, peer, gathered, cand, last, xch, haveInit, once, sent, neg>>

WaitOneHost ==
  /\ main.at = "waitOneHost"
  /\ \/ ctx = "done" /\ Main("cleanup", "error")
     \/ gathered >= FirstHost /\ Main("call", "none")
  /\ UNCHANGED <<trickle, ctx, sig, peer, gathered, cand, last, xch, haveInit, once, sent, neg, faults>>

Call ==
  /\ main.at = "call"
  /\ \/ Main("select", "none") /\ xch' = "recv" /\ UNCHANGED faults
     \/ Main("cleanup", "error") /\ UNCHANGED xch /\ Fault
     \/ ctx = "done" /\ Main("cleanup", "error") /\ UNCHANGED <<xch, faults>>
  /\ UNCHANGED <<trickle, ctx, sig, peer, gathered, cand, last, haveInit, once, sent, neg>>

\* doCall: the channel is ready, or the context is over and the channel closed.
\* The third case, an error from errCh, is a step of the one who sends it.
DoCall ==
  /\ main.at = "select"
  /\ \/ peer = "ready" /\ Main("done", "none")
     \/ ctx = "done" /\ Main("error", "error")
  /\ UNCHANGED <<trickle, ctx, sig, peer, gathered, cand, last, xch, haveInit, once, sent, neg, faults>>

\* CallUpdate(exchangeCtx, ...): nothing goes out when the exchange is over.
CallUpdate(g, kind) ==
  sent' = IF ExchangeOver THEN sent ELSE Append(sent, [kind |-> kind, by |-> g, uuid |-> haveInit])

\* The final updates that went out: one at most, of who is in sendDoneErrorOnce.
Finals == {i \in DOMAIN sent : sent[i].kind # "candidate"}

\* sendDone, or the error, unless the call is already concluded; who comes
\* second waits for the first.
Enter(g, kind) == once = "free" /\ once' = g /\ CallUpdate(g, kind)

MainDone ==
  /\ main.at = "done"
  /\ \/ Enter("main", "done") /\ UNCHANGED main
     \/ once = "over" /\ Main("cleanup", "ok") /\ UNCHANGED <<once, sent>>
  /\ UNCHANGED <<trickle, ctx, sig, peer, gathered, cand, last, xch, haveInit, neg, faults>>

MainError ==
  /\ main.at = "error"
  /\ \/ Enter("main", "error") /\ UNCHANGED main
     \/ once = "over" /\ Main("cleanup", "error") /\ UNCHANGED <<once, sent>>
  /\ UNCHANGED <<trickle, ctx, sig, peer, gathered, cand, last, xch, haveInit, neg, faults>>

\* CallUpdate returns to the main goroutine.
MainConcluded ==
  /\ once = "main" /\ once' = "over"
  /\ \/ /\ Finals # {} /\ UNCHANGED faults
        /\ Main("cleanup", IF main.at = "done" THEN "ok" ELSE "error")
     \/ Fault /\ Main("cleanup", "error")
     \/ ctx = "done" /\ UNCHANGED faults /\ Main("cleanup", "error")
  /\ UNCHANGED <<trickle, ctx, sig, peer, gathered, cand, last, xch, haveInit, sent, neg>>

\* Mutant: the peer connection is closed only if the peers have not connected
CleanupUnready ==
  /\ main.at = "cleanup" /\ Main("returned", main.res)
  /\ peer' = IF main.res # "ok" /\ peer = "open" THEN "closed" ELSE peer
  /\ sig' = "closed"
  /\ UNCHANGED <<trickle, ctx, gathered, cand, last, xch, haveInit, once, sent, neg, faults>>

\* The deferred calls: exchangeCtx is cancelled, an unsuccessful dial closes its
\* peer connection, and the connection to the signaling server is closed. An
\* error of that last Close joins a success: the channel AND an error.
Cleanup ==
  /\ main.at = "cleanup"
  /\ \/ Main("returned", main.res) /\ UNCHANGED faults
     \/ main.res = "ok" /\ Main("returned", "both") /\ Fault
  /\ peer' = IF main.res # "ok" /\ peer # "none" THEN "closed" ELSE peer
  /\ sig' = "closed"
  /\ UNCHANGED <<trickle, ctx, gathered, cand, last, xch, haveInit, once, sent, neg>>

\* getDefaultOfferDeadline passes, or the caller cancels.
ContextOver ==
  /\ ctx = "live" /\ main.at \notin {"cleanup", "returned"} /\ ctx' = "done"
  /\ UNCHANGED <<trickle, main, sig, peer, gathered, cand, last, xch, haveInit, once, sent, neg, faults>>

----------------------------------------------------------------------------
(* sendErr. An error is swallowed when the stream ends after the answer, or  *)
(* the offer is not active any more; otherwise it waits for the main         *)
(* goroutine or the end of the exchange.                                     *)

Reports == main.at = "select" /\ Main("error", "error")

\* Where a goroutine goes after its CallUpdate: on if that went out, or to sendErr
AfterUpdate(wentOut) ==
  (IF wentOut THEN {"done"} ELSE {})
    \cup (IF ExchangeOver \/ faults < MaxFaults THEN {"report"} ELSE {})
FaultIf(failed) == faults' = IF failed /\ ~ExchangeOver THEN faults + 1 ELSE faults

----------------------------------------------------------------------------
(* OnICECandidate *)

Gathering == trickle /\ peer \in {"open", "ready"} /\ main.at \notin {"config", "offer"}

\* pion finds a candidate, or the end of them; the callback starts a goroutine
\* unless the exchange is over.
OnICECandidate ==
  /\ Gathering /\ gathered <= Cardinality(Cands) /\ gathered' = gathered + 1
  /\ IF ExchangeOver THEN UNCHANGED <<cand, last>>
     ELSE IF gathered' \in Cands THEN cand' = [cand EXCEPT ![gathered'] = "wait"] /\ UNCHANGED last
     ELSE last' = "wait" /\ UNCHANGED cand
  /\ UNCHANGED <<trickle, main, ctx, sig, peer, xch, haveInit, once, sent, neg, faults>>

\* A candidate is sent when the answer is there,
SendCandidate(c) ==
  /\ cand[c] = "wait" /\ haveInit
  /\ cand' = [cand EXCEPT ![c] = "sending"]
  /\ CallUpdate(c, "candidate")
  /\ UNCHANGED <<trickle, main, ctx, sig, peer, gathered, last, xch, haveInit, once, neg, faults>>

\* and its CallUpdate returns. Once the call is concluded the offer is not
\* active, and the error is swallowed.
CandidateSent(c) ==
  /\ cand[c] = "sending"
  /\ \E to \in AfterUpdate(\E i \in DOMAIN sent \ Finals : sent[i].by = c) :
       cand' = [cand EXCEPT ![c] = to] /\ FaultIf(to = "report")
  /\ UNCHANGED <<trickle, main, ctx, sig, peer, gathered, last, xch, haveInit, once, sent, neg>>

\* Mutant: errCh is sent to whether or not somebody is left to receive
CandidateReportsOnly(c) ==
  /\ cand[c] = "report" /\ cand' = [cand EXCEPT ![c] = "done"] /\ Reports
  /\ UNCHANGED <<trickle, ctx, sig, peer, gathered, last, xch, haveInit, once, sent, neg, faults>>

CandidateReports(c) ==
  /\ cand[c] = "report" /\ cand' = [cand EXCEPT ![c] = "done"]
  /\ (ExchangeOver /\ UNCHANGED main) \/ Reports
  /\ UNCHANGED <<trickle, ctx, sig, peer, gathered, last, xch, haveInit, once, sent, neg, faults>>

CandidateStops(c) ==
  /\ cand[c] = "wait" /\ ExchangeOver /\ cand' = [cand EXCEPT ![c] = "done"]
  /\ UNCHANGED <<trickle, main, ctx, sig, peer, gathered, last, xch, haveInit, once, sent, neg, faults>>

\* pendingCandidates: those whose goroutines have not ended
PendingCandidates == {c \in Cands : cand[c] \notin {"none", "done"}}

\* Mutant: the candidates are not waited for
LastSendsAtOnce ==
  /\ last = "wait" /\ haveInit
  /\ \/ Enter("last", "done") /\ last' = "sending"
     \/ once = "over" /\ last' = "done" /\ UNCHANGED <<once, sent>>
  /\ UNCHANGED <<trickle, main, ctx, sig, peer, gathered, cand, xch, haveInit, neg, faults>>

\* The end of gathering concludes the call after the candidates.
LastSends ==
  /\ last = "wait" /\ haveInit /\ PendingCandidates = {}
  /\ \/ Enter("last", "done") /\ last' = "sending"
     \/ once = "over" /\ last' = "done" /\ UNCHANGED <<once, sent>>
  /\ UNCHANGED <<trickle, main, ctx, sig, peer, gathered, cand, xch, haveInit, neg, faults>>

LastSent ==
  /\ last = "sending" /\ once' = "over"
  /\ \E to \in AfterUpdate(Finals # {}) : last' = to /\ FaultIf(to = "report")
  /\ UNCHANGED <<trickle, main, ctx, sig, peer, gathered, cand, xch, haveInit, sent, neg>>

LastReports ==
  /\ last = "report" /\ last' = "done"
  /\ (ExchangeOver /\ UNCHANGED main) \/ Reports
  /\ UNCHANGED <<trickle, ctx, sig, peer, gathered, cand, xch, haveInit, once, sent, neg, faults>>

\* remoteDescSet or the end of the exchange, whichever is there: when both are,
\* select takes either.
LastStops ==
  /\ last = "wait" /\ ExchangeOver /\ last' = "done"
  /\ UNCHANGED <<trickle, main, ctx, sig, peer, gathered, cand, xch, haveInit, once, sent, neg, faults>>

----------------------------------------------------------------------------
(* exchangeCandidates *)

\* An update stage adds a remote candidate, which is pion's. The init stage: the
\* answer becomes the remote description, which lets the candidates go. Without
\* trickle ICE the call is concluded.
RecvInit ==
  /\ xch = "recv" /\ ~haveInit /\ sig = "open"
  /\ haveInit' = TRUE /\ xch' = IF trickle THEN "recv" ELSE "conclude"
  /\ UNCHANGED <<trickle, main, ctx, sig, peer, gathered, cand, last, once, sent, neg, faults>>

\* A stage out of order, a wrong uuid, or a description or candidate that pion
\* refuses; or Recv fails. The end of the stream is no error after the answer.
RecvFails ==
  /\ xch = "recv"
  /\ \/ ExchangeOver /\ xch' = "report" /\ UNCHANGED faults
     \/ ~ExchangeOver /\ Fault /\ xch' = "report"
     \/ ~ExchangeOver /\ haveInit /\ xch' = "done" /\ UNCHANGED faults
  /\ UNCHANGED <<trickle, main, ctx, sig, peer, gathered, cand, last, haveInit, once, sent, neg>>

ExchangeSends ==
  /\ xch = "conclude"
  /\ \/ Enter("xch", "done") /\ xch' = "sending"
     \/ once = "over" /\ xch' = "done" /\ UNCHANGED <<once, sent>>
  /\ UNCHANGED <<trickle, main, ctx, sig, peer, gathered, cand, last, haveInit, neg, faults>>

ExchangeSent ==
  /\ xch = "sending" /\ once' = "over"
  /\ \E to \in AfterUpdate(Finals # {}) : xch' = to /\ FaultIf(to = "report")
  /\ UNCHANGED <<trickle, main, ctx, sig, peer, gathered, cand, last, haveInit, sent, neg>>

ExchangeReports ==
  /\ xch = "report" /\ xch' = "done"
  /\ (ExchangeOver /\ UNCHANGED main) \/ Reports
  /\ UNCHANGED <<trickle, ctx, sig, peer, gathered, cand, last, haveInit, once, sent, neg, faults>>

----------------------------------------------------------------------------
(* The peers *)

\* pion connects the peers and opens the data channel: the channel is ready.
Connect ==
  /\ peer = "open" /\ haveInit /\ peer' = "ready"
  /\ UNCHANGED <<dialVars, neg, faults>>

NegChannelOpen ==
  /\ peer = "ready" /\ ~neg.open /\ neg' = [neg EXCEPT !.open = TRUE]
  /\ UNCHANGED <<dialVars, peer, faults>>

\* The answering side adds a track (bound: once the dial has returned).
AddTrack ==
  /\ peer = "ready" /\ main.at = "returned" /\ neg.tracks < MaxTracks
  /\ neg' = [neg EXCEPT !.tracks = @ + 1, !.needed = TRUE]
  /\ UNCHANGED <<dialVars, peer, faults>>

\* Mutant: a request during a negotiation is dropped
OnNegotiationNeededDrops ==
  /\ peer = "ready" /\ neg.needed
  /\ neg' = IF neg.open /\ neg.state = "stable"
            THEN [neg EXCEPT !.needed = FALSE, !.state = "offered", !.offers = Append(@, neg.tracks)]
            ELSE [neg EXCEPT !.needed = FALSE]
  /\ UNCHANGED <<dialVars, peer, faults>>

\* OnNegotiationNeeded, which pion calls when the signaling state is stable: a
\* request from before the channel is open is dropped.
OnNegotiationNeeded ==
  /\ peer = "ready" /\ neg.needed /\ neg.state = "stable"
  /\ neg' = IF neg.open
            THEN [neg EXCEPT !.needed = FALSE, !.state = "offered", !.offers = Append(@, neg.tracks)]
            ELSE [neg EXCEPT !.needed = FALSE]
  /\ UNCHANGED <<dialVars, peer, faults>>

\* The client's OnMessage: the offer is its remote description, and it answers.
ClientOnMessage ==
  /\ peer = "ready" /\ neg.offers # <<>>
  /\ neg' = [neg EXCEPT !.known = Head(neg.offers), !.offers = Tail(@), !.answers = Append(@, Head(neg.offers))]
  /\ UNCHANGED <<dialVars, peer, faults>>

\* CreateOffer, SetLocalDescription or SendText fails, which is logged: the offer
\* may have become the local description already.
OnNegotiationNeededFails ==
  /\ peer = "ready" /\ neg.needed /\ neg.state = "stable" /\ neg.open /\ Fault
  /\ \E st \in {"stable", "offered"} : neg' = [neg EXCEPT !.needed = FALSE, !.state = st]
  /\ UNCHANGED <<dialVars, peer>>

\* An error in OnMessage is logged, and no answer is sent; the offer may have
\* become the remote description already.
ClientOnMessageFails ==
  /\ peer = "ready" /\ neg.offers # <<>> /\ Fault
  /\ \E k \in {neg.known, Head(neg.offers)} : neg' = [neg EXCEPT !.known = k, !.offers = Tail(@)]
  /\ UNCHANGED <<dialVars, peer>>

ServerOnMessage ==
  /\ peer = "ready" /\ neg.answers # <<>>
  /\ neg' = [neg EXCEPT !.state = "stable", !.answers = Tail(@)]
  /\ UNCHANGED <<dialVars, peer, faults>>

ServerOnMessageFails ==
  /\ peer = "ready" /\ neg.answers # <<>> /\ Fault
  /\ neg' = [neg EXCEPT !.answers = Tail(@)]
  /\ UNCHANGED <<dialVars, peer>>

----------------------------------------------------------------------------

MainStep ==
  \/ DialSignalingServer \/ Configure \/ Offer \/ WaitOneHost \/ Call \/ DoCall
  \/ MainDone \/ MainError \/ MainConcluded \/ Cleanup

CandStep(c) == SendCandidate(c) \/ CandidateSent(c) \/ CandidateReports(c) \/ CandidateStops(c)
LastStep == LastSends \/ LastSent \/ LastReports \/ LastStops
ExchangeStep == RecvInit \/ RecvFails \/ ExchangeSends \/ ExchangeSent \/ ExchangeReports

NegStep ==
  \/ NegChannelOpen \/ OnNegotiationNeeded \/ OnNegotiationNeededFails
  \/ ClientOnMessage \/ ClientOnMessageFails \/ ServerOnMessage \/ ServerOnMessageFails

Next ==
  \/ MainStep \/ LastStep \/ ExchangeStep \/ (\E c \in Cands : CandStep(c))
  \/ ContextOver \/ OnICECandidate \/ Connect \/ AddTrack \/ NegStep

\* Goroutines run, a call to the signaling server returns, and the deadline
\* passes. Nothing makes an answer arrive or the peers connect.
Spec ==
  /\ Init /\ [][Next]_vars
  /\ WF_vars(MainStep) /\ WF_vars(LastStep) /\ \A c \in Cands : WF_vars(CandStep(c))
  /\ WF_vars(ContextOver) /\ WF_vars(ExchangeStep /\ ExchangeOver) /\ WF_vars(ExchangeSent)
  /\ WF_vars(NegStep)

----------------------------------------------------------------------------
(* Properties *)

Goes == {"none", "wait", "sending", "report", "done"}

\* The values the variables of a dial may have; who is in sendDoneErrorOnce is
\* waiting for its CallUpdate.
TypeOK ==
  /\ trickle \in BOOLEAN /\ ctx \in {"live", "done"} /\ haveInit \in BOOLEAN
  /\ main.at \in {"signal", "config", "offer", "waitOneHost", "call", "select", "done", "error",
                  "cleanup", "returned"}
  /\ main.res \in {"none", "ok", "both", "error", "nosignaler"}
  /\ sig \in {"none", "open", "closed"} /\ peer \in {"none", "open", "ready", "closed"}
  /\ gathered \in 0 .. Cardinality(Cands) + 1 /\ cand \in [Cands -> Goes] /\ last \in Goes
  /\ xch \in {"none", "recv", "conclude", "sending", "report", "done"}
  /\ once \in {"free", "over", "main", "last", "xch"} /\ faults \in 0 .. MaxFaults
  /\ (once = "last") = (last = "sending") /\ (once = "xch") = (xch = "sending")
  /\ neg.tracks \in 0 .. MaxTracks /\ neg.known \in 0 .. MaxTracks /\ neg.state \in {"stable", "offered"}

Begun == xch # "none"

\* The answering side is not told twice how the call ended: of the goroutines
\* that may conclude it, one does, with done or with an error, and before
\* dialWebRTC returns; its update goes out unless the dial's context is over.
ConcludedOnce ==
  /\ Cardinality(Finals) <= 1
  /\ main.at = "returned" /\ Begun => once = "over" /\ (Finals # {} \/ ctx = "done")

\* The answering side is told how every call that was made ended. The code does
\* not keep this: the final CallUpdate is made with exchangeCtx, so a dial that
\* times out or is cancelled tells nobody; and one that succeeds may have told
\* nobody either, when another goroutine used sendDoneErrorOnce up as the
\* context ended.
EndIsTold == main.at = "returned" /\ Begun => Finals # {}

\* No candidate is sent before the answer has named the call, and the end of
\* gathering does not conclude it before every candidate's update has returned.
CandidatesThenDone ==
  /\ \A i \in DOMAIN sent : sent[i].kind = "candidate" => sent[i].uuid
  /\ \A i \in Finals : sent[i].by = "last" => \A j \in DOMAIN sent : j <= i

\* What the answering side gets to see of a call is in order, whichever of
\* dialWebRTC's goroutines sends it.
CallInv == TypeOK /\ ConcludedOnce /\ CandidatesThenDone

\* What dialWebRTC leaves behind: a channel that is ready when it returns one,
\* and a closed peer connection when it does not, even if the peers connected
\* late; the connection to the signaling server is closed in any case.
NothingLeft ==
  main.at = "returned" =>
    /\ sig # "open"
    /\ IF main.res \in {"ok", "both"} THEN peer = "ready" ELSE peer \in {"none", "closed"}

\* A dial that returns an error leaves no peer connection open. The code does not
\* keep this: when the Close of the signaling connection fails after a success,
\* the channel is returned with the error, and the callers drop it.
ErrorLeavesNothing ==
  main.at = "returned" /\ main.res # "ok" => peer \in {"none", "closed"}

\* dialWebRTC returns, and then its goroutines end: none of them is left behind
\* on remoteDescSet, pendingCandidates or errCh.
Ends ==
  /\ <>(main.at = "returned")
  /\ (main.at = "returned") ~>
       (PendingCandidates = {} /\ last \in {"none", "done"} /\ xch \in {"none", "done"})

\* The client comes to know the tracks that were added when the negotiation
\* channel was open, as long as no message is lost on the way: offers that are
\* made while another one is answered are made up for.
TracksKnown ==
  (neg.open /\ neg.needed) ~> (neg.known = neg.tracks \/ peer = "closed" \/ faults > 0)
====
