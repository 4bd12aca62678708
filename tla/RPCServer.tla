------------------------------ MODULE RPCServer ------------------------------
(***************************************************************************)
(* rpc's simpleServer from NewServer to Stop, and a client connection      *)
(* dialled by dialDirectGRPC that keeps calling it: Serve and Stop run in  *)
(* goroutines of their own next to the HTTP and the gRPC one, the process  *)
(* may be restarted, and the connection's calls share one                  *)
(* perRPCJWTCredentials.  A call of the signaling service's Call opens a   *)
(* WebRTC channel, whose requests reach the same services by way of the    *)
(* webrtcServer, without the authentication interceptors.                  *)
(*                                                                         *)
(* The access token is a Go string written without synchronisation by      *)
(* UnaryClientInvalidAuthInterceptor: a store is two writes, the pointer   *)
(* and then the length, and a read between them is a string of nonzero     *)
(* length at a nil pointer, whose use ends the process.                    *)
(***************************************************************************)
EXTENDS ServerOptions, DialOptions

CONSTANTS
    Calls,        \* goroutines calling on the connection
    Streams,      \* those whose calls are streaming ones
    OverHTTP,     \* those whose requests reach the server through ServeHTTP
    Methods,      \* the method of each call
    Setups,       \* named server options, dial options of the connection, and which
                  \* calls are made on it
    Ext,          \* options of the external authentication service
    MaxFaults     \* bound on restarts of the server's process, and on refusals
                  \* and failures not explained by the state, together

ASSUME CallsAssumption ==
    /\ Streams \subseteq Calls /\ OverHTTP \subseteq Calls
    /\ \A c \in Calls : Methods[c] = "Call" => c \in Streams
    /\ "nobody" \notin Calls
    /\ MaxFaults \in Nat

\* dialExternalAuthEntity fails, and there is no connection, without an entity
\* to authenticate to.  A static material that is given is a token somebody
\* signed (an empty string is none), and a configured key is a key.
ASSUME SetupsAssumption ==
    /\ \A s \in DOMAIN Setups :
         /\ DialsExternalAuth(Setups[s][2]) => Setups[s][2].to # ""
         /\ \A t \in Setups[s][2].material \cup Setups[s][2].extMaterial : t.key # NoKey
         /\ NoKey \notin Setups[s][1].keys
    /\ NoKey \notin Ext.keys

VARIABLES
    setup,    \* which of the Setups it is, the same for every incarnation
    srv,      \* the server
    run,      \* where Serve and Stop are
    cred,     \* perRPCJWTCredentials: accessToken and mu
    call,     \* the calls
    chan,     \* the WebRTC channel each of them opened, and its handler
    dead,     \* the client's process was ended by a torn string
    faults

vars == <<setup, srv, run, cred, call, chan, dead, faults>>

\* The server's options, the connection's dial options, and its calls.
opt == Setups[setup][1]
conf == Setups[setup][2]
made == Setups[setup][3]

Nobody == "nobody"

\* mu: who holds ss.mu; http, grpc: the two servers, and whether HTTP is over
\* TLS; the HTTP and the gRPC goroutine; the answerers; what Stop has closed.
NewSrv(epoch) ==
    [epoch |-> epoch, made |-> "no", stopped |-> FALSE, mu |-> Nobody,
     http |-> "idle", secure |-> FALSE, grpc |-> "idle", listener |-> "none", httpGo |-> "none",
     grpcGo |-> "none", answerers |-> "idle", answerersClosed |-> FALSE,
     signaling |-> "none", mdns |-> FALSE, services |-> {}, canceled |-> {}]

NewRun == [serve |-> "idle", stop |-> "idle"]

NewCall ==
    [pc |-> "idle", tok |-> NoToken, code |-> "none", entity |-> Anonymous]

\* external: an external signaling server brought the peers together; entity
\* and tok: as whom, and by which token, the call that opened it was let in.
NoChannel ==
    [pc |-> "none", external |-> FALSE, entity |-> Anonymous, tok |-> NoToken]

\* The RPC came back with a code, whatever it was at.
Answered(code) == [NewCall EXCEPT !.pc = "answered", !.code = code]

Init ==
    /\ setup \in DOMAIN Setups
    /\ srv = NewSrv(0)
    /\ run = NewRun
    /\ cred = [ptr |-> NoToken, len |-> FALSE, mu |-> Nobody]
    /\ call = [c \in Calls |-> NewCall]
    /\ chan = [c \in Calls |-> NoChannel]
    /\ dead = FALSE
    /\ faults = 0

clientVars == <<setup, cred, call, dead>>

Fault ==
    /\ faults < MaxFaults
    /\ faults' = faults + 1

-----------------------------------------------------------------------------
(* The server's life. *)

\* A TLS configuration without a certificate, or with one that does not parse.
CertificateError(o) == "bad" \in o.tls

\* net.Listen fails on an address another process has.
ListenError(o) == o.bind = "taken"

\* Names are announced over mDNS.
MDNS(o) == ~o.disableMDNS

\* An answerer for each way of signaling: internally is what a server without
\* the address of an external signaling server does.
HasAnswerers(o) == o.webrtc.enable

SignalsInternally(o) ==
    o.webrtc.enable /\ (~o.webrtc.external \/ o.webrtc.internal)

\* The services a server comes with before its program adds to them.
Services(o) ==
    {x \in {"auth", "externalAuth", "signaling"} :
        CASE x = "auth" -> ~o.unauthenticated
          [] x = "externalAuth" -> o.authTo # {}
          [] x = "signaling" -> SignalsInternally(o)}

\* What is wrong with certificates and keys is found after net.Listen, and the
\* listener stays open.
NewServer ==
    /\ srv.made = "no"
    /\ srv' =
         IF opt.err \/ ErrMixedUnauthAndAuth(opt) \/ ListenError(opt)
         THEN [srv EXCEPT !.made = "failed"]
         ELSE IF CertificateError(opt) \/ KeyError(opt)
         THEN [srv EXCEPT !.made = "failed", !.listener = "open"]
         ELSE [srv EXCEPT !.made = "yes", !.listener = "open",
                          !.signaling = IF SignalsInternally(opt) THEN "open" ELSE @,
                          !.mdns = MDNS(opt),
                          !.services = Services(opt)]
    /\ UNCHANGED <<run, clientVars, chan, faults>>

\* gRPC ends the process when a service is added to a server that serves:
\* callers add theirs before.
RegisterServiceServer ==
    /\ srv.made = "yes" /\ srv.grpcGo = "none" /\ run.serve = "idle"
    /\ srv.mu = Nobody
    /\ "user" \notin srv.services
    /\ srv' = [srv EXCEPT !.services = @ \cup {"user"}]
    /\ UNCHANGED <<run, clientVars, chan, faults>>

\* serveTLS up to its Unlock: the worker is counted before Stop can wait.
\* Certificate files, ServeTLS's, make HTTP secure whatever the options say of
\* TLS; without them it is h2c, whose server may fail to be set up: that way
\* out of the function leaves ss.mu locked.
ServeTLS ==
    /\ srv.made = "yes" /\ run.serve = "idle" /\ srv.mu = Nobody
    /\ \/ /\ srv.stopped
          /\ run' = [run EXCEPT !.serve = "returned"]
          /\ UNCHANGED <<srv, faults>>
       \/ /\ ~srv.stopped
          /\ \E secure \in BOOLEAN :
               srv' = [srv EXCEPT !.httpGo = "ready", !.secure = secure]
          /\ run' = [run EXCEPT !.serve = "start"]
          /\ UNCHANGED faults
       \/ /\ ~srv.stopped /\ Fault
          /\ srv' = [srv EXCEPT !.mu = "serve"]
          /\ run' = [run EXCEPT !.serve = "failed"]
    /\ UNCHANGED <<clientVars, chan>>

\* http.Server.Serve returns at once after Shutdown.
HTTPServe ==
    /\ srv.httpGo = "ready"
    /\ srv' = IF srv.http = "shut" THEN [srv EXCEPT !.httpGo = "done"]
              ELSE [srv EXCEPT !.httpGo = "running", !.http = "serving"]
    /\ UNCHANGED <<run, clientVars, chan, faults>>

HTTPDone ==
    /\ srv.httpGo = "running" /\ srv.http = "shut"
    /\ srv' = [srv EXCEPT !.httpGo = "done"]
    /\ UNCHANGED <<run, clientVars, chan, faults>>

\* Start looks at stopped and unlocks: Stop may run before what follows.
Start ==
    /\ run.serve = "start" /\ srv.mu = Nobody
    /\ IF srv.stopped
       THEN /\ run' = [run EXCEPT !.serve = "returned"]
            /\ UNCHANGED srv
       ELSE /\ run' = [run EXCEPT !.serve = "answerers"]
            /\ srv' = [srv EXCEPT !.grpcGo = "ready"]
    /\ UNCHANGED <<clientVars, chan, faults>>

\* grpc.Server.Serve closes the listener of a server that was stopped.
GRPCServe ==
    /\ srv.grpcGo = "ready"
    /\ srv' = IF srv.grpc = "stopped"
              THEN [srv EXCEPT !.grpcGo = "done", !.listener = "closed"]
              ELSE [srv EXCEPT !.grpcGo = "running", !.grpc = "serving"]
    /\ UNCHANGED <<run, clientVars, chan, faults>>

\* Start returns what the gRPC goroutine reported so far, nothing most often.
\* An answerer started after Stop finds its closeCtx done before it dials.
StartAnswerers ==
    /\ run.serve = "answerers"
    /\ srv' = [srv EXCEPT !.answerers =
                  IF ~HasAnswerers(opt) THEN @
                  ELSE IF srv.answerersClosed THEN "exiting" ELSE "running"]
    /\ run' = [run EXCEPT !.serve = "returned"]
    /\ UNCHANGED <<clientVars, chan, faults>>

\* Mutant of AnswererExits: an answerer started after Stop does not look at
\* closeCtx before it dials.
AnswererDialsFirst ==
    /\ srv.answerers = "running" /\ srv.answerersClosed
    /\ srv' = [srv EXCEPT !.answerers = "done"]
    /\ UNCHANGED <<run, clientVars, chan, faults>>

\* Its workers see closeCtx done.
AnswererExits ==
    /\ srv.answerers \in {"running", "exiting"} /\ srv.answerersClosed
    /\ srv' = [srv EXCEPT !.answerers = "done"]
    /\ UNCHANGED <<run, clientVars, chan, faults>>

\* Mutant of Stop: the answerers' context is not cancelled.
StopForgetsAnswerers ==
    /\ srv.made = "yes" /\ ~srv.stopped /\ srv.mu = Nobody
    /\ run' = [run EXCEPT !.stop = "answerers"]
    /\ srv' = [srv EXCEPT !.stopped = TRUE, !.mu = "stop"]
    /\ UNCHANGED <<clientVars, chan, faults>>

\* A second Stop finds stopped set and returns at once.
Stop ==
    /\ srv.made = "yes" /\ ~srv.stopped /\ srv.mu = Nobody
    /\ run' = [run EXCEPT !.stop = "answerers"]
    /\ srv' = [srv EXCEPT !.stopped = TRUE, !.mu = "stop",
                          !.answerersClosed = TRUE]
    /\ UNCHANGED <<clientVars, chan, faults>>

\* The answerers' workers are gone: signaling server, call queue and gateway
\* connections go in this order, none of them waiting for a request of this
\* model, and the WebRTC server takes no request any more.
StopServices ==
    /\ run.stop = "answerers" /\ srv.answerers \notin {"running", "exiting"}
    /\ srv' = [srv EXCEPT !.signaling = IF @ = "open" THEN "closed" ELSE @,
                          !.canceled = srv.services]
    /\ run' = [run EXCEPT !.stop = "webrtc"]
    /\ UNCHANGED <<clientVars, chan, faults>>

\* Mutant of StopWebRTC: the handlers are not waited for.
StopWebRTCAtOnce ==
    /\ run.stop = "webrtc"
    /\ chan' = [c \in Calls |-> NoChannel]
    /\ srv' = [srv EXCEPT !.mdns = FALSE]
    /\ run' = [run EXCEPT !.stop = "shutdown"]
    /\ UNCHANGED <<clientVars, faults>>

\* webrtcServer.Stop waits for its handlers and closes the peer connections;
\* mDNS goes next.
StopWebRTC ==
    /\ run.stop = "webrtc" /\ \A c \in Calls : chan[c].pc # "handler"
    /\ chan' = [c \in Calls |-> NoChannel]
    /\ srv' = [srv EXCEPT !.mdns = FALSE]
    /\ run' = [run EXCEPT !.stop = "shutdown"]
    /\ UNCHANGED <<clientVars, faults>>

Shutdown ==
    /\ run.stop = "shutdown"
    /\ srv' = [srv EXCEPT !.http = "shut"]
    /\ run' = [run EXCEPT !.stop = "drain"]
    /\ UNCHANGED <<clientVars, chan, faults>>

AtServer(c) == call[c].pc \in {"arrived", "handler"}

\* Mutant of Drained: HTTP requests are not waited for.
DrainedAtOnce == TRUE

\* Shutdown waits for the requests of TLS connections; those of h2c are
\* hijacked, which it does not track.
Drained == srv.secure => \A c \in OverHTTP : ~AtServer(c)

\* The deferred grpcServer.Stop runs last, before the deferred Unlock; it cuts
\* every request that is still served and does not wait for the handlers.
StopGRPC ==
    /\ run.stop = "drain" /\ Drained /\ srv.httpGo \in {"none", "done"}
    /\ srv' = [srv EXCEPT
         !.grpc = "stopped", !.mu = Nobody,
         !.listener = IF srv.grpc = "serving" THEN "closed" ELSE @,
         !.grpcGo = IF @ = "running" THEN "done" ELSE @]
    /\ run' = [run EXCEPT !.stop = "returned"]
    /\ call' = [c \in Calls |->
         IF AtServer(c)
         THEN Answered("Unavailable")
         ELSE call[c]]
    /\ UNCHANGED <<setup, cred, chan, dead, faults>>

\* The process ends, or the program makes another server.
Restart ==
    /\ srv.made # "no" /\ Fault
    /\ srv' = NewSrv(srv.epoch + 1)
    /\ run' = NewRun
    /\ call' = [c \in Calls |->
         IF AtServer(c)
         THEN Answered("Unavailable")
         ELSE call[c]]
    /\ chan' = [c \in Calls |-> NoChannel]
    /\ UNCHANGED <<setup, cred, dead>>

-----------------------------------------------------------------------------
(* The connection's calls. *)

serverVars == <<srv, run>>

\* The credentials kind dialDirectGRPC picks from the dial options.
Renews == PerRPCJWTCredentials(conf)

Entity == AuthEntity("address", conf)

\* A material is the token it holds.
Token(material) == IF material = {} THEN NoToken ELSE CHOOSE t \in material : TRUE

Reachable(c) ==
    /\ srv.made = "yes"
    /\ IF c \in OverHTTP THEN srv.http = "serving" /\ srv.grpc # "stopped"
       ELSE srv.grpc = "serving"

Step(c, from, rec) ==
    /\ ~dead
    /\ call[c].pc = from
    /\ call' = [call EXCEPT ![c] = rec]

\* Who has a channel uses it, and dials again when it is closed.
Invoke(c) ==
    /\ c \in made /\ chan[c].pc = "none"
    /\ Step(c, "idle", [NewCall EXCEPT !.pc = "metadata"])
    /\ UNCHANGED <<serverVars, chan, setup, cred, dead, faults>>

\* What a read of accessToken finds.
Torn == cred.len /\ cred.ptr = NoToken

\* staticPerRPCJWTCredentials, or no per-RPC credentials at all.
StaticMetadata(c) ==
    /\ ~Renews
    /\ Step(c, "metadata", [call[c] EXCEPT !.pc = "send", !.tok = Token(conf.material)])
    /\ UNCHANGED <<serverVars, chan, setup, cred, dead, faults>>

\* The read under RLock; a writer that holds mu keeps it out.
GetRequestMetadata(c) ==
    /\ Renews /\ cred.mu = Nobody
    /\ IF cred.len
       THEN Step(c, "metadata", [call[c] EXCEPT !.pc = "send", !.tok = cred.ptr])
       ELSE Step(c, "metadata", [call[c] EXCEPT !.pc = "lock"])
    /\ dead' = Torn
    /\ UNCHANGED <<serverVars, chan, setup, cred, faults>>

\* mu taken, and the token read again.
AuthenticateLocks(c) ==
    /\ cred.mu = Nobody
    /\ IF cred.len
       THEN /\ Step(c, "lock", [call[c] EXCEPT !.pc = "send", !.tok = cred.ptr])
            /\ UNCHANGED cred
       ELSE /\ Step(c, "lock",
                 IF conf.extMaterial = {} THEN [call[c] EXCEPT !.pc = "authenticate"]
                 ELSE [call[c] EXCEPT
                         !.pc = IF DialsExternalAuth(conf) THEN "authenticateTo"
                                ELSE "storePtr",
                         !.tok = Token(conf.extMaterial)])
            /\ cred' = [cred EXCEPT !.mu = c]
    /\ dead' = Torn
    /\ UNCHANGED <<serverVars, chan, setup, faults>>

\* The outcome of an authentication RPC: the next stage with the token it gave,
\* or mu released and the call failed with the RPC's code.
Obtain(c, from, r, next) ==
    IF r.code = "OK"
    THEN /\ Step(c, from, [call[c] EXCEPT !.pc = next, !.tok = r.token])
         /\ UNCHANGED cred
    ELSE /\ Step(c, from, Answered(r.code))
         /\ cred' = [cred EXCEPT !.mu = Nobody]

\* On the call's own connection, whose metadata leaves AuthService alone, or
\* on the one dialled to the external service.
AuthenticateCall(c) ==
    /\ \/ /\ ~DialsExternalAuth(conf)
          /\ IF Reachable(c)
             THEN Obtain(c, "authenticate",
                         Authenticate(opt, srv.epoch, Entity, conf.creds.type,
                                      conf.creds.payload), "storePtr")
             ELSE Obtain(c, "authenticate", Denied("Unavailable"), "storePtr")
       \/ /\ DialsExternalAuth(conf)
          /\ Obtain(c, "authenticate",
                    Authenticate(Ext, 0, Entity, conf.creds.type,
                                 conf.creds.payload), "authenticateTo")
    /\ UNCHANGED <<serverVars, chan, setup, dead, faults>>

AuthenticateToCall(c) ==
    /\ Obtain(c, "authenticateTo", AuthenticateTo(Ext, 0, call[c].tok, conf.to),
              "storePtr")
    /\ UNCHANGED <<serverVars, chan, setup, dead, faults>>

\* An authentication RPC that fails on its way.
AuthenticateFails(c) ==
    /\ Fault
    /\ \E from \in {"authenticate", "authenticateTo"} :
         Obtain(c, from, Denied("Unavailable"), from)
    /\ UNCHANGED <<serverVars, chan, setup, dead>>

StorePtr(c) ==
    /\ Step(c, "storePtr", [call[c] EXCEPT !.pc = "storeLen"])
    /\ cred' = [cred EXCEPT !.ptr = call[c].tok]
    /\ UNCHANGED <<serverVars, chan, setup, dead, faults>>

StoreLen(c) ==
    /\ Step(c, "storeLen", [call[c] EXCEPT !.pc = "send"])
    /\ cred' = [cred EXCEPT !.len = TRUE, !.mu = Nobody]
    /\ UNCHANGED <<serverVars, chan, setup, dead, faults>>

Send(c) ==
    /\ Step(c, "send",
            IF Reachable(c) THEN [call[c] EXCEPT !.pc = "arrived"]
            ELSE Answered("Unavailable"))
    /\ UNCHANGED <<serverVars, chan, setup, cred, dead, faults>>

\* The service a method is of.
Service(method) == IF method = "Call" THEN "signaling" ELSE "user"

\* The certificate the server sees: TLS is a matter of Serve or ServeTLS for
\* HTTP, of WithInternalTLSConfig for the gRPC listener.
PeerCert(c) ==
    IF IF c \in OverHTTP THEN srv.secure ELSE opt.tls # {} THEN conf.cert ELSE ""

Intercepted(c) ==
    IF c \in Streams
    THEN AuthStreamInterceptor(opt, srv.epoch, Methods[c], call[c].tok, PeerCert(c))
    ELSE AuthUnaryInterceptor(opt, srv.epoch, Methods[c], call[c].tok, PeerCert(c))

\* A service never registered is unknown, and no interceptor is asked.
Intercept(c) ==
    LET r == Intercepted(c)
    IN  /\ Step(c, "arrived",
                IF Service(Methods[c]) \notin srv.services THEN Answered("Unimplemented")
                ELSE IF r.code = "OK"
                THEN [call[c] EXCEPT !.pc = "handler", !.entity = r.entity]
                ELSE Answered(r.code))
        /\ UNCHANGED <<serverVars, chan, setup, cred, dead, faults>>

\* A Call that connects nobody ends at its deadline.
HandlerReturns(c) ==
    /\ \/ /\ Step(c, "handler",
                  Answered(IF Methods[c] = "Call" THEN "DeadlineExceeded" ELSE "OK"))
          /\ UNCHANGED faults
       \/ Step(c, "handler", Answered("PermissionDenied")) /\ Fault
    /\ UNCHANGED <<serverVars, chan, setup, cred, dead>>

\* A Call that does: the answerer of the server has taken the offer and the
\* peers have exchanged what they need (Signaling and WebRTCDial model how).
Connect(c) ==
    /\ Methods[c] = "Call" /\ srv.answerers = "running"
    /\ Step(c, "handler", Answered("OK"))
    /\ chan' = [chan EXCEPT ![c] = [pc |-> "open", external |-> FALSE,
                                   entity |-> call[c].entity, tok |-> call[c].tok]]
    /\ UNCHANGED <<serverVars, setup, cred, dead, faults>>

\* Mutant of Clears: only PermissionDenied drops the token.
ClearsDeniedOnly(c) ==
    Renews /\ c \notin Streams /\ call[c].code = "PermissionDenied"

\* UnaryClientInvalidAuthInterceptor sits on renewing connections only, and on
\* unary calls only.
Clears(c) ==
    /\ Renews /\ c \notin Streams
    /\ call[c].code \in {"Unauthenticated", "PermissionDenied"}

Returned(c) == [NewCall EXCEPT !.code = call[c].code]

Return(c) ==
    /\ ~Clears(c)
    /\ Step(c, "answered", Returned(c))
    /\ UNCHANGED <<serverVars, chan, setup, cred, dead, faults>>

\* accessToken = "", without mu.
ClearPtr(c) ==
    /\ Clears(c)
    /\ Step(c, "answered", [call[c] EXCEPT !.pc = "clearLen"])
    /\ cred' = [cred EXCEPT !.ptr = NoToken]
    /\ UNCHANGED <<serverVars, chan, setup, dead, faults>>

ClearLen(c) ==
    /\ Step(c, "clearLen", Returned(c))
    /\ cred' = [cred EXCEPT !.len = FALSE]
    /\ UNCHANGED <<serverVars, chan, setup, dead, faults>>

-----------------------------------------------------------------------------
(* WebRTC channels. *)

channelVars == <<serverVars, setup, cred, call, dead, faults>>

Channel(c, from, rec) ==
    /\ chan[c].pc = from
    /\ chan' = [chan EXCEPT ![c] = rec]
    /\ UNCHANGED channelVars

\* The offer came by way of an external signaling server, whose decision it
\* was to pass it on.
ConnectExternally(c) ==
    /\ Methods[c] = "Call" /\ opt.webrtc.external /\ srv.answerers = "running"
    /\ ~dead /\ c \in made /\ call[c].pc = "idle"
    /\ Channel(c, "none", [NoChannel EXCEPT !.pc = "open", !.external = TRUE])

\* A request on the channel, of any method: the interceptors of authentication
\* are left out for it, and it runs as the answerer's hosts.
ChannelRequest(c) ==
    /\ ~dead /\ "user" \in srv.services /\ run.stop \in {"idle", "answerers"}
    /\ Channel(c, "open", [chan[c] EXCEPT !.pc = "handler"])

ChannelReturns(c) == Channel(c, "handler", [chan[c] EXCEPT !.pc = "open"])

\* The peer closes it, or is lost.
ChannelCloses(c) == Channel(c, "open", NoChannel)

-----------------------------------------------------------------------------
ServeNext == ServeTLS \/ Start \/ StartAnswerers

StopNext == StopServices \/ StopWebRTC \/ Shutdown \/ StopGRPC

Goroutines == HTTPServe \/ HTTPDone \/ GRPCServe \/ AnswererExits

\* The stages of a call, the server's for it included: one at a time.
CallNext(c) ==
    \/ Invoke(c)
    \/ StaticMetadata(c) \/ GetRequestMetadata(c) \/ AuthenticateLocks(c)
    \/ AuthenticateCall(c) \/ AuthenticateToCall(c)
    \/ StorePtr(c) \/ StoreLen(c)
    \/ Send(c) \/ Intercept(c) \/ HandlerReturns(c) \/ Connect(c)
    \/ Return(c) \/ ClearPtr(c) \/ ClearLen(c)

ChannelNext(c) ==
    \/ ConnectExternally(c) \/ ChannelRequest(c)
    \/ ChannelReturns(c) \/ ChannelCloses(c)

Next ==
    \/ NewServer \/ RegisterServiceServer \/ ServeNext
    \/ Stop \/ StopNext \/ Goroutines \/ Restart
    \/ \E c \in Calls : CallNext(c) \/ AuthenticateFails(c) \/ ChannelNext(c)

\* The program makes its server and serves; the goroutines, each with a step
\* or two in a server's life, go on, and so does Stop once it is called, which
\* is not assumed, nor are restarts and failures.  The client keeps calling,
\* handlers return, and Go's mutexes starve nobody.
Fairness ==
    /\ WF_vars(NewServer \/ ServeNext) /\ WF_vars(StopNext) /\ WF_vars(Goroutines)
    /\ \A c \in Calls : SF_vars(CallNext(c)) /\ WF_vars(ChannelReturns(c))

Spec == Init /\ [][Next]_vars /\ Fairness

-----------------------------------------------------------------------------
\* A token is signed, and made out to somebody unless the client was given it.
TokenOK(t) ==
    \/ t = NoToken
    \/ t.key # NoKey /\ (t.sub # "" \/ t \in conf.material \cup conf.extMaterial)

\* The fields that carry control stay in their ranges, and whoever holds one
\* of the two locks is at a stage of the code that does.
TypeOK ==
    /\ srv.mu \in {Nobody, "stop", "serve"}
    /\ srv.mu = "stop" <=> run.stop \in {"answerers", "webrtc", "shutdown", "drain"}
    /\ srv.mu = "serve" <=> run.serve = "failed"
    /\ cred.mu \in Calls \cup {Nobody}
    /\ TokenOK(cred.ptr) /\ cred.len \in BOOLEAN
    /\ \A c \in Calls :
         /\ TokenOK(call[c].tok)
         /\ cred.mu = c <=> call[c].pc \in
              {"authenticate", "authenticateTo", "storePtr", "storeLen"}
    /\ dead \in BOOLEAN /\ faults \in 0..MaxFaults /\ srv.epoch \in 0..faults

\* Who the connection was dialled for, and who checks the credentials.
Owner ==
    IF conf.material \cup conf.extMaterial = {} THEN Entity
    ELSE Token(IF conf.material # {} THEN conf.material ELSE conf.extMaterial).sub

Checker == IF DialsExternalAuth(conf) THEN Ext ELSE opt

\* The client is this entity, and showed it to this server and to no other:
\* the credentials the connection was dialled with are good where they are
\* checked, the token was made out to this server, and a renewed one is of the
\* entity the client authenticated as.
Proved(entity, tok) ==
    \/ tok = NoToken /\ entity = conf.cert /\ conf.cert \in UNION opt.tlsAuth
    \/ /\ entity = Owner
       /\ tok.aud \cap Audience(opt) # {}
       /\ (Renews /\ conf.extMaterial = {}) =>
            <<Owner, conf.creds.payload>> \in Checker.handlers[conf.creds.type]

\* A handler runs as an entity, for a request that came in over HTTP or gRPC,
\* only for the client that proved to be it -- through every hop of
\* Authenticate, AuthenticateTo and the caches between them.
RunsAsItsOwner ==
    \A c \in Calls :
        (call[c].pc = "handler" /\ call[c].entity # Anonymous) =>
            Proved(call[c].entity, call[c].tok)

\* Over HTTP or gRPC a private method is never served without an entity while
\* authentication is on, and neither is a stream of a public one.
NeverAnonymous ==
    \A c \in Calls :
        (call[c].pc = "handler" /\ call[c].entity = Anonymous) =>
            \/ opt.unauthenticated
            \/ Methods[c] \in ExemptMethods(opt)
            \/ Methods[c] \in opt.public /\ c \notin Streams

\* Nobody looks at the requests of a WebRTC channel, so whoever has one through
\* the server's own signaling has proved who it is to that.  An external
\* signaling server is believed: what it lets in is served.
ChannelsLetIn ==
    \A c \in Calls :
        (chan[c].pc # "none" /\ ~chan[c].external) =>
            \/ opt.unauthenticated
            \/ chan[c].entity # Anonymous /\ Proved(chan[c].entity, chan[c].tok)

\* Who gets to a handler was let in by the options of the server, or by the
\* external signaling server they name.
AccessInv == TypeOK /\ RunsAsItsOwner /\ NeverAnonymous /\ ChannelsLetIn

\* The tests call a public stream without credentials and expect no error
\* (server_auth_test.go:581 and 658, which never receive from it).  This does
\* not hold: see AuthStreamInterceptor.
PublicStreamsServed ==
    [][\A c \in Streams :
         (/\ call[c].pc = "arrived" /\ Methods[c] \in opt.public
          /\ TryAuth(opt, srv.epoch, call[c].tok, PeerCert(c)).code = "OK") =>
              call'[c].code # "Internal"]_vars

\* Stop lets the requests it can wait for finish: one that came in over a TLS
\* HTTP connection is answered by its handler, never cut by Stop, and so is
\* one of a WebRTC channel.
StopDrainsRequests ==
    [][srv'.epoch = srv.epoch =>
         /\ \A c \in OverHTTP : (AtServer(c) /\ srv.secure) => call'[c].code # "Unavailable"
         /\ \A c \in Calls : chan[c].pc = "handler" => chan'[c].pc # "none"]_vars

\* Once Stop has returned, this server takes no request any more; once it is
\* past the WebRTC server, there is no channel, whatever Serve still starts.
NothingAfterStop ==
    [][/\ \A c \in Calls :
            (run.stop = "returned" /\ call[c].pc # "arrived") => call'[c].pc # "arrived"
       /\ run'.stop \in {"shutdown", "drain", "returned"} =>
            \A c \in Calls : chan'[c].pc = "none"]_vars

\* Stop is graceful, and final.
StopInOrder == StopDrainsRequests /\ NothingAfterStop

Quiet ==
    /\ srv.httpGo \in {"none", "done"} /\ srv.grpcGo \in {"none", "done"}
    /\ srv.answerers \notin {"running", "exiting"} /\ srv.signaling # "open" /\ ~srv.mdns

\* Stop returns however it meets Serve, and what Serve went on to start ends
\* (unless the process is restarted first).
StopsForGood ==
    srv.stopped ~> (~srv.stopped \/ (run.stop = "returned" /\ Quiet))

\* Credentials Authenticate or AuthenticateTo accepts.
GoodCredentials ==
    /\ Renews /\ conf.extMaterial = {}
    /\ DialsExternalAuth(conf) => conf.to \in Ext.authTo \cap Audience(opt)
    /\ Authenticate(Checker, 0, Entity, conf.creds.type, conf.creds.payload).code = "OK"

\* Calls a server answers that lets them in: not those the stream interceptor
\* breaks, nor a Call, which takes an answerer too.
Answerable(c) ==
    /\ c \in made /\ Methods[c] # "Call"
    /\ c \in Streams => Methods[c] \notin opt.public \ ExemptMethods(opt)

\* After the last restart, which may have replaced the signing key, and as
\* long as it serves its service, every call of a connection with good
\* credentials comes to be answered: the token the server no longer accepts is
\* dropped and renewed, though a late rejection may drop a new one too, and
\* streams, which drop nothing themselves, profit.
Recovers ==
    GoodCredentials =>
        <>[](\/ dead \/ srv.stopped \/ srv.made # "yes" \/ "user" \notin srv.services
             \/ run.serve = "failed"
             \/ \A c \in Calls :
                  (Answerable(c) /\ call[c].pc = "idle") => call[c].code = "OK")

=============================================================================
