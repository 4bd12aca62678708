------------------------------- MODULE Dialer -------------------------------
(***************************************************************************)
(* Dial (rpc/dial.go) through a cached dialer (rpc/dialer.go): several     *)
(* calls of Dial for one address share the connections of the dialer,      *)
(* which counts references to them (ref.go).                               *)
(*                                                                         *)
(* dial races mDNS against WebRTC and falls back to direct gRPC. Every     *)
(* connection it makes on the way, those to the signaling server and to    *)
(* the external authentication server included, goes through DialFunc, and *)
(* so does the result, under the key "multi". A key stands for             *)
(* proto:target:keyExtra; the keys of the connections made for an address  *)
(* found by mDNS have an l in front.                                       *)
(*                                                                         *)
(* What a connection is, an entry of the cache, is named by the Dial that  *)
(* made it and its key. A reference to an entry (a reffedConn) is closed   *)
(* at most once; the field that holds it is None afterwards.               *)
(***************************************************************************)
EXTENDS Integers, Sequences, FiniteSets, DialOptions

CONSTANTS
  Dials,     \* the calls of Dial
  Options,   \* the options and kinds of address the calls may have
  None,
  ClosesDialer \* bound: the options with which Dialer.Close may be called

Legs == {"main", "mdns", "webrtc"}
Keys == {"multi", "webrtc", "grpc", "sig", "ext", "lwebrtc", "lgrpc", "lsig", "lext"}
Addresses == {"unix", "hostport", "ip", "domain"}

\* What a call of Dial comes down to.
OptionType ==
  [addr : Addresses, mdns : BOOLEAN, webrtc : BOOLEAN, direct : BOOLEAN, ext : BOOLEAN,
   refuses : BOOLEAN]

Decisions(addr, d) ==
  [addr |-> addr, mdns |-> d.mdns, webrtc |-> d.webrtc, direct |-> d.direct,
   ext |-> DialsExternalAuth(d), refuses |-> RefusesDowngrade(d)]

Entries == Dials \X Keys
Procs == Dials \X Legs

ASSUME DialerAssumption ==
  /\ Options \subseteq [Dials -> OptionType] /\ ClosesDialer \subseteq Options
  \* one address, and what cacheKey hashes is the same
  /\ \A o \in Options : \A d, f \in Dials :
       o[d].addr = o[f].addr /\ o[d].ext = o[f].ext /\ (o[d].refuses => ~o[d].ext)
  /\ IsFiniteSet(Dials) /\ None \notin Entries \cup Procs

VARIABLES
  opts,    \* dOpts of a Dial
  ctx,     \* its context: live, found (ctxParallel is cancelled), or done
  proc,    \* its goroutines
  conns,   \* cachedDialer.conns
  entry,   \* the connections
  mu,      \* the goroutine that keeps cachedDialer.mu over several steps
  closer,  \* Dialer.Close
  crashed  \* a goroutine of the program panicked

dialerVars == <<opts, ctx, proc, conns, entry, mu, closer, crashed>>

NoEntry == [raw |-> "none", count |-> 0, inner |-> None, aux |-> None]
NoProc == [at |-> "idle", key |-> "multi", conn |-> None, aux |-> None, res |-> "none", ops |-> <<>>]

DialerInit ==
  /\ opts \in Options /\ ctx = [d \in Dials |-> "live"]
  /\ proc = [p \in Procs |-> NoProc]
  /\ conns = [k \in Keys |-> None] /\ entry = [e \in Entries |-> NoEntry]
  /\ mu = None /\ closer = [at |-> "idle", pend |-> {}, ops |-> <<>>] /\ crashed = FALSE

Main(d) == <<d, "main">>
Set(p, r) == proc' = [proc EXCEPT ![p] = r]
Runs(p, at) == proc[p].at = at /\ proc[p].ops = <<>> /\ ~crashed
CtxOver(p) == ctx[p[1]] = "done" \/ (p[2] # "main" /\ ctx[p[1]] = "found")

\* How dial classifies the address, and the legs it starts for it
Unix(o) == o.addr = "unix"
TriesMDNS(o) == ~Unix(o) /\ o.mdns /\ o.addr = "domain"
TriesWebRTC(o) == ~Unix(o) /\ o.webrtc
TriesDirect(o) == Unix(o) \/ o.direct
Started(d) == {l \in {"mdns", "webrtc"} : proc[<<d, l>>].at # "idle"}

----------------------------------------------------------------------------
(* Closing a connection: what is left to do, innermost first *)

CloseRef(e) == IF e = None THEN <<>> ELSE <<[do |-> "deref", e |-> e]>>

\* reffedConn.Close and Deref: the last reference closes the connection, then
\* what it holds (the connection it wraps, or the one for its credentials), and
\* onUnref, which needs the lock, takes it out of the cache.
Undo(e) == CloseRef(entry[e].inner) \o CloseRef(entry[e].aux)

Shut(e) == [entry EXCEPT ![e].raw = "closed", ![e].inner = None, ![e].aux = None]

\* One step of closing: what is left to do afterwards is rest.
Deref(ops, rest) ==
  LET e == Head(ops).e IN
  /\ Head(ops).do = "deref"
  /\ IF entry[e].count = 1
     THEN /\ entry' = [Shut(e) EXCEPT ![e].count = -1]
          /\ rest = Undo(e) \o <<[do |-> "unref", e |-> e]>> \o Tail(ops)
     ELSE entry' = [entry EXCEPT ![e].count = @ - 1] /\ rest = Tail(ops)
  /\ UNCHANGED conns

\* The connection itself is closed, whatever its references.
CloseActual(ops, rest) ==
  LET e == Head(ops).e IN
  /\ Head(ops).do = "close"
  /\ entry' = Shut(e) /\ rest = Undo(e) \o Tail(ops) /\ UNCHANGED conns

OnUnref(ops, rest) ==
  /\ Head(ops).do = "unref" /\ mu = None
  /\ conns' = [conns EXCEPT ![Head(ops).e[2]] = None]
  /\ rest = Tail(ops) /\ UNCHANGED entry

Rests(ops) ==
  LET e == Head(ops).e IN
  {Tail(ops), Undo(e) \o Tail(ops), Undo(e) \o <<[do |-> "unref", e |-> e]>> \o Tail(ops)}

CloseStep(ops, rest) == Deref(ops, rest) \/ CloseActual(ops, rest) \/ OnUnref(ops, rest)

Closing(p) ==
  /\ proc[p].ops # <<>> /\ ~crashed
  /\ \E rest \in Rests(proc[p].ops) :
       CloseStep(proc[p].ops, rest) /\ Set(p, [proc[p] EXCEPT !.ops = rest])
  /\ UNCHANGED <<opts, ctx, mu, closer, crashed>>

----------------------------------------------------------------------------
(* DialFunc *)

\* What a goroutine does next when a connection of its key is there, or not.
Local(p) == p[2] = "mdns"
DirectKey(p) == IF Local(p) THEN "lgrpc" ELSE "grpc"
ExtKey(p) == IF Local(p) THEN "lext" ELSE "ext"
SigKey(p) == IF Local(p) THEN "lsig" ELSE "sig"
WebRTCKey(p) == IF Local(p) THEN "lwebrtc" ELSE "webrtc"

\* dial returns an error: main gives up, a leg reports it. The error of an
\* mDNS leg never keeps main from dialing directly.
Fails(p, r, fatal) ==
  [r EXCEPT !.at = IF p[2] = "main" THEN "failed" ELSE "send", !.key = "multi", !.conn = None,
            !.aux = None, !.res = IF fatal /\ p[2] = "webrtc" THEN "fatal" ELSE "error",
            !.ops = CloseRef(r.aux)]

\* DialFunc has returned a reference to e.
Returned(p, r, e) ==
  CASE r.key = ExtKey(p) -> [r EXCEPT !.at = "lookup", !.key = DirectKey(p), !.aux = e, !.conn = None]
    [] r.key = SigKey(p) -> [r EXCEPT !.at = "exchange", !.key = WebRTCKey(p), !.aux = e, !.conn = None]
    [] r.key = "multi" -> [r EXCEPT !.at = "open", !.conn = e]
    [] r.key = DirectKey(p) /\ p[2] = "main" ->
         [r EXCEPT !.at = "check", !.key = "multi", !.conn = e, !.aux = None]
    [] OTHER -> [r EXCEPT !.at = "send", !.key = "multi", !.conn = e, !.aux = None, !.res = "ok"]

\* The first look at the cache, under the lock. Without a connection the dial
\* function of the key is called: dialWebRTC starts with the connection to the
\* signaling server.
Lookup(p) ==
  LET k == proc[p].key IN
  /\ Runs(p, "lookup") /\ mu = None
  /\ Set(p, CASE conns[k] # None -> [proc[p] EXCEPT !.at = "ref", !.conn = conns[k]]
               [] conns[k] = None /\ k = WebRTCKey(p) -> [proc[p] EXCEPT !.key = SigKey(p)]
               [] OTHER -> [proc[p] EXCEPT !.at = "dial"])
  /\ UNCHANGED <<opts, ctx, conns, entry, mu, closer, crashed>>

\* Mutant: a reference is handed out but not counted
TakeRefUncounted(p, e) ==
  IF entry[e].count = -1
  THEN crashed' = TRUE /\ UNCHANGED <<proc, entry>>
  ELSE Set(p, Returned(p, proc[p], e)) /\ UNCHANGED <<entry, crashed>>

\* Ref of a released value panics.
TakeRef(p, e) ==
  IF entry[e].count = -1
  THEN crashed' = TRUE /\ UNCHANGED <<proc, entry>>
  ELSE /\ entry' = [entry EXCEPT ![e].count = @ + 1]
       /\ Set(p, Returned(p, proc[p], e)) /\ UNCHANGED crashed

\* The reference is taken after the lock is released.
Ref(p) ==
  /\ Runs(p, "ref") /\ TakeRef(p, proc[p].conn)
  /\ UNCHANGED <<opts, ctx, conns, mu, closer>>

\* The second look, under the lock, with the new connection in hand: it enters
\* the cache unless somebody else was faster. The dials of the other keys have
\* made their connection; that of multi wraps the one dial returned.
Check(p) ==
  LET k == proc[p].key
      e == <<p[1], k>>
      new == [raw |-> "open", count |-> IF conns[k] = None THEN 1 ELSE 0,
              inner |-> IF k = "multi" THEN proc[p].conn ELSE None,
              aux |-> IF k = DirectKey(p) THEN proc[p].aux ELSE None]
      r == [proc[p] EXCEPT !.aux = None]
  IN
  /\ Runs(p, "check") /\ mu = None
  /\ entry' = [entry EXCEPT ![e] = new]
  /\ IF conns[k] = None
     THEN conns' = [conns EXCEPT ![k] = e] /\ Set(p, Returned(p, r, e)) /\ UNCHANGED mu
     ELSE /\ mu' = p /\ UNCHANGED conns
          /\ Set(p, [r EXCEPT !.at = "lost", !.conn = conns[k], !.ops = <<[do |-> "close", e |-> e]>>])
  /\ UNCHANGED <<opts, ctx, closer, crashed>>

\* Mutant: the lock is not released
LostKeepsLock(p) ==
  /\ Runs(p, "lost") /\ mu' = mu /\ TakeRef(p, proc[p].conn)
  /\ UNCHANGED <<opts, ctx, conns, closer>>

\* The redundant connection is closed, still under the lock, and the cached one
\* is referenced.
Lost(p) ==
  /\ Runs(p, "lost") /\ mu' = None /\ TakeRef(p, proc[p].conn)
  /\ UNCHANGED <<opts, ctx, conns, closer>>

LostFails(p) ==
  /\ Runs(p, "lost") /\ mu' = None /\ Set(p, Fails(p, proc[p], TRUE))
  /\ UNCHANGED <<opts, ctx, conns, entry, closer, crashed>>

----------------------------------------------------------------------------
(* The dial functions behind the keys *)

\* dialDirectGRPC: with local credentials a server without TLS may be refused
\* before anything is dialed; external authentication is dialed first.
Secure(p) ==
  /\ Runs(p, "secure")
  /\ \/ Set(p, [proc[p] EXCEPT !.at = "lookup",
                               !.key = IF opts[p[1]].ext THEN ExtKey(p) ELSE DirectKey(p)])
     \/ opts[p[1]].refuses /\ Set(p, Fails(p, proc[p], TRUE))
  /\ UNCHANGED <<opts, ctx, conns, entry, mu, closer, crashed>>

NetKeys == {"grpc", "ext", "sig", "lgrpc", "lext", "lsig"}

\* grpc.DialContext: connected, or not
DialGRPC(p) ==
  /\ Runs(p, "dial") /\ proc[p].key \in NetKeys
  /\ \/ Set(p, [proc[p] EXCEPT !.at = "check"])
     \/ Set(p, Fails(p, proc[p], TRUE))
  /\ UNCHANGED <<opts, ctx, conns, entry, mu, closer, crashed>>

\* The rest of dialWebRTC: it connects, finds no signaler, or fails, and closes
\* the connection to the signaling server. Only without a signaler, and unless
\* the context is over, direct dialing follows.
Exchange(p) ==
  LET done == [proc[p] EXCEPT !.aux = None, !.ops = CloseRef(proc[p].aux)] IN
  /\ Runs(p, "exchange")
  /\ \/ Set(p, [done EXCEPT !.at = "check"])
     \/ Set(p, Fails(p, proc[p], TRUE))
     \/ /\ ~CtxOver(p)
        /\ Set(p, IF Local(p) /\ TriesDirect(opts[p[1]])
                  THEN [done EXCEPT !.at = "secure"]
                  ELSE Fails(p, proc[p], FALSE))
  /\ UNCHANGED <<opts, ctx, conns, entry, mu, closer, crashed>>

\* dialMulticastDNS: no candidate, or one that offers WebRTC or only gRPC. dial
\* of the local address looks at its context first.
MulticastDNS(p) ==
  /\ Runs(p, "query")
  /\ \/ Set(p, Fails(p, proc[p], FALSE))
     \/ /\ ~CtxOver(p)
        /\ \/ opts[p[1]].webrtc /\ Set(p, [proc[p] EXCEPT !.at = "lookup", !.key = "lwebrtc"])
           \/ TriesDirect(opts[p[1]]) /\ Set(p, [proc[p] EXCEPT !.at = "secure"])
  /\ UNCHANGED <<opts, ctx, conns, entry, mu, closer, crashed>>

----------------------------------------------------------------------------
(* Dial *)

\* dialInner asks the dialer for a connection of any kind.
Dial(d) ==
  /\ Runs(Main(d), "idle")
  /\ Set(Main(d), [NoProc EXCEPT !.at = "lookup"])
  /\ UNCHANGED <<opts, ctx, conns, entry, mu, closer, crashed>>

\* dial: a context that is over ends it at once; otherwise it starts its legs
\* and waits for their results.
StartLegs(d) ==
  LET o == opts[d] IN
  /\ Runs(Main(d), "dial") /\ proc[Main(d)].key = "multi"
  /\ proc' = IF ctx[d] = "done" THEN [proc EXCEPT ![Main(d)] = Fails(Main(d), @, TRUE)]
             ELSE [proc EXCEPT
               ![Main(d)].at = "gather",
               ![<<d, "mdns">>].at = IF TriesMDNS(o) THEN "query" ELSE "idle",
               ![<<d, "webrtc">>] = IF TriesWebRTC(o)
                                    THEN [@ EXCEPT !.at = "lookup", !.key = "webrtc"] ELSE @]
  /\ UNCHANGED <<opts, ctx, conns, entry, mu, closer, crashed>>

\* Mutant: the connection that is replaced is not closed
GatherDrops(d, l) ==
  LET leg == proc[<<d, l>>]
      m == proc[Main(d)]
  IN
  /\ Runs(Main(d), "gather") /\ Runs(<<d, l>>, "send")
  /\ proc' = [proc EXCEPT
       ![<<d, l>>] = [NoProc EXCEPT !.at = "done"],
       ![Main(d)] = IF leg.res = "ok" THEN [m EXCEPT !.conn = leg.conn]
                    ELSE [m EXCEPT !.res = IF leg.res = "fatal" THEN "fatal" ELSE @]]
  /\ ctx' = [ctx EXCEPT ![d] = IF leg.res = "ok" /\ @ = "live" THEN "found" ELSE @]
  /\ UNCHANGED <<opts, conns, entry, mu, closer, crashed>>

\* A result arrives on dialCh. A second connection replaces the first, which is
\* closed, and any connection ends ctxParallel.
Gather(d, l) ==
  LET leg == proc[<<d, l>>]
      m == proc[Main(d)]
  IN
  /\ Runs(Main(d), "gather") /\ Runs(<<d, l>>, "send")
  /\ proc' = [proc EXCEPT
       ![<<d, l>>] = [NoProc EXCEPT !.at = "done"],
       ![Main(d)] = IF leg.res = "ok" THEN [m EXCEPT !.conn = leg.conn, !.ops = CloseRef(m.conn)]
                    ELSE [m EXCEPT !.res = IF leg.res = "fatal" THEN "fatal" ELSE @]]
  /\ ctx' = [ctx EXCEPT ![d] = IF leg.res = "ok" /\ @ = "live" THEN "found" ELSE @]
  /\ UNCHANGED <<opts, conns, entry, mu, closer, crashed>>

\* dialCh is closed: every leg has reported, and ctxParallel is over.
Gathered(d) ==
  LET m == proc[Main(d)] IN
  /\ Runs(Main(d), "gather") /\ \A l \in Started(d) : proc[<<d, l>>].at = "done"
  /\ Set(Main(d), CASE m.conn # None -> [m EXCEPT !.at = "check", !.res = "none"]
                    [] m.conn = None /\ (m.res = "fatal" \/ ~TriesDirect(opts[d])) -> Fails(Main(d), m, TRUE)
                    [] OTHER -> [m EXCEPT !.at = "secure"])
  /\ ctx' = [ctx EXCEPT ![d] = "done"]
  /\ UNCHANGED <<opts, conns, entry, mu, closer, crashed>>

\* The caller closes its connection.
CloseConn(d) ==
  /\ Runs(Main(d), "open")
  /\ Set(Main(d), [proc[Main(d)] EXCEPT !.at = "closed", !.conn = None, !.ops = CloseRef(proc[Main(d)].conn)])
  /\ UNCHANGED <<opts, ctx, conns, entry, mu, closer, crashed>>

\* The context ends. Before dial looks at it, and after the legs have reported,
\* that makes no difference.
Cancel(d) ==
  /\ ctx[d] # "done" /\ proc[Main(d)].at \in {"dial", "gather"} /\ ~crashed
  /\ ctx' = [ctx EXCEPT ![d] = "done"]
  /\ UNCHANGED <<opts, proc, conns, entry, mu, closer, crashed>>

\* Dialer.Close: the connections are copied under the lock and closed without it.
CloseDialer ==
  /\ opts \in ClosesDialer /\ closer.at = "idle" /\ mu = None /\ ~crashed
  /\ closer' = [closer EXCEPT !.at = "closing", !.pend = {conns[k] : k \in Keys} \ {None}]
  /\ UNCHANGED <<opts, ctx, proc, conns, entry, mu, crashed>>

CloseNext ==
  /\ closer.at = "closing" /\ ~crashed
  /\ IF closer.ops # <<>>
     THEN \E rest \in Rests(closer.ops) :
            CloseStep(closer.ops, rest) /\ closer' = [closer EXCEPT !.ops = rest]
     ELSE /\ \/ \E e \in closer.pend :
                   closer' = [closer EXCEPT !.pend = @ \ {e}, !.ops = <<[do |-> "close", e |-> e]>>]
             \/ closer.pend = {} /\ closer' = [closer EXCEPT !.at = "closed"]
          /\ UNCHANGED <<conns, entry>>
  /\ UNCHANGED <<opts, ctx, proc, mu, crashed>>

Step(p) ==
  \/ Closing(p) \/ Lookup(p) \/ Ref(p) \/ Check(p) \/ Lost(p) \/ LostFails(p)
  \/ DialGRPC(p) \/ Exchange(p) \/ MulticastDNS(p) \/ Secure(p)

DialStep(d) ==
  StartLegs(d) \/ (\E l \in {"mdns", "webrtc"} : Gather(d, l)) \/ Gathered(d)

DialerNext ==
  \/ \E p \in Procs : Step(p)
  \/ \E d \in Dials : Dial(d) \/ DialStep(d) \/ CloseConn(d) \/ Cancel(d)
  \/ CloseDialer \/ CloseNext

\* Every goroutine runs; a dial of the network ends, because its context does.
DialerSpec ==
  /\ DialerInit /\ [][DialerNext]_dialerVars
  /\ \A p \in Procs : WF_dialerVars(Step(p))
  /\ \A d \in Dials : WF_dialerVars(DialStep(d))
  /\ WF_dialerVars(CloseNext)

----------------------------------------------------------------------------
(* Properties *)

Ats == {"idle", "lookup", "ref", "dial", "check", "lost", "exchange", "query", "secure", "send",
        "done", "gather", "open", "failed", "closed"}
RefOrNone == Entries \cup {None}
Ops == Seq([do : {"deref", "close", "unref"}, e : Entries])

\* The values the variables of the dialer and of the dials may have; a reference
\* count is never below -1 (released).
DialerTypeOK ==
  /\ opts \in Options /\ ctx \in [Dials -> {"live", "found", "done"}]
  /\ \A p \in Procs :
       /\ proc[p].at \in Ats /\ proc[p].key \in Keys
       /\ proc[p].conn \in RefOrNone /\ proc[p].aux \in RefOrNone
       /\ proc[p].res \in {"none", "ok", "error", "fatal"} /\ proc[p].ops \in Ops
  /\ conns \in [Keys -> RefOrNone]
  /\ entry \in [Entries -> [raw : {"none", "open", "closed"}, count : Nat \cup {-1},
                            inner : RefOrNone, aux : RefOrNone]]
  /\ mu \in Procs \cup {None} /\ crashed \in BOOLEAN
  /\ closer.at \in {"idle", "closing", "closed"} /\ closer.pend \subseteq Entries /\ closer.ops \in Ops

\* A connection Dial has returned stays usable until its caller closes it or the
\* dialer is closed, whatever the other callers that share it, or parts of it,
\* do: a reference keeps the whole chain of connections open.
OpenWhileHeld ==
  \A d \in Dials :
    proc[Main(d)].at = "open" /\ closer.at = "idle" =>
      LET e == proc[Main(d)].conn IN
      entry[e].raw = "open" /\ entry[e].inner # None /\ entry[entry[e].inner].raw = "open"

\* When every caller has failed or closed its connection and nothing is left to
\* close, no connection is left open and none is in the cache: the loser of the
\* race between mDNS and WebRTC, the connections to the signaling server and the
\* ones two dials made at the same time included. (The connections for external
\* authentication are another matter: a dial that finds its direct connection
\* in the cache drops the reference to the one it has just dialed.)
Quiet ==
  /\ \A p \in Procs : proc[p].at \in {"idle", "done", "failed", "closed"} /\ proc[p].ops = <<>>
  /\ closer.at # "closing"
NothingLeft ==
  Quiet => \A e \in Entries : e[2] \notin {"ext", "lext"} => entry[e].raw # "open" /\ conns[e[2]] # e

\* A released connection is in the cache only as long as the one that released
\* it still has to take it out, and what it takes out is that connection.
ReleasedIsRemoved ==
  \A k \in Keys : conns[k] # None /\ entry[conns[k]].count = -1 =>
    \/ \E p \in Procs : \E i \in DOMAIN proc[p].ops : proc[p].ops[i] = [do |-> "unref", e |-> conns[k]]
    \/ \E i \in DOMAIN closer.ops : closer.ops[i] = [do |-> "unref", e |-> conns[k]]

\* The cache and the references to its connections agree.
CacheInv == DialerTypeOK /\ OpenWhileHeld /\ ReleasedIsRemoved

\* A goroutine that keeps the lock never waits for it: closing a connection
\* fires onUnref, which takes the same lock (the comment in Dialer.Close). The
\* code does not keep this: DialFunc closes a connection it has no use for
\* under the lock.
NoSelfLock == \A p \in Procs : mu = p /\ proc[p].ops # <<>> => Head(proc[p].ops).do # "unref"

\* Dial returns: no leg is left blocked on dialCh and the loop over it ends,
\* unless the lock is lost or the program is gone.
DialReturns ==
  \A d \in Dials : proc[Main(d)].at = "lookup" ~>
    proc[Main(d)].at \in {"open", "failed"} \/ ~NoSelfLock \/ crashed
====
