-------------------------- MODULE RPCServer_proofs --------------------------
(***************************************************************************)
(* Proofs about RPCServer, for any options of the server, of the external  *)
(* service and of the connection and for any calls: a handler runs as an   *)
(* entity only for who proved to be it, never anonymously where it may not *)
(* (AccessInv), and Stop is graceful and final (StopInOrder).              *)
(***************************************************************************)
EXTENDS RPCServer, TLAPS

----------------------------------------------------------------------------
(* The inductive invariant. *)

\* The types of the server and of its goroutines.
Srvs ==
    [epoch : Nat, made : {"no", "yes", "failed"}, stopped : BOOLEAN, mu : {Nobody, "stop", "serve"},
     http : {"idle", "serving", "shut"}, secure : BOOLEAN, grpc : {"idle", "serving", "stopped"},
     listener : {"none", "open", "closed"}, httpGo : {"none", "ready", "running", "done"},
     grpcGo : {"none", "ready", "running", "done"}, answerers : {"idle", "running", "exiting", "done"},
     answerersClosed : BOOLEAN, signaling : {"none", "open", "closed"}, mdns : BOOLEAN,
     services : SUBSET {"auth", "externalAuth", "signaling", "user"},
     canceled : SUBSET {"auth", "externalAuth", "signaling", "user"}]

Runs ==
    [serve : {"idle", "start", "answerers", "returned", "failed"},
     stop : {"idle", "answerers", "webrtc", "shutdown", "drain", "returned"}]

\* Where Stop holds ss.mu, and where it is past the answerers.
Stopping == {"answerers", "webrtc", "shutdown", "drain"}
Unanswered == {"webrtc", "shutdown", "drain", "returned"}

\* ss.mu is held from the start of Stop to its end, when the gRPC server is
\* stopped, or by a serveTLS that failed; no answerer takes offers once Stop is
\* past them, because it closes them first.
ServerOK ==
    /\ srv \in Srvs /\ run \in Runs
    /\ srv.mu = "stop" <=> run.stop \in Stopping
    /\ srv.mu = "serve" <=> run.serve = "failed"
    /\ run.stop # "idle" => srv.answerersClosed
    /\ run.stop \in Unanswered => srv.answerers # "running"
    /\ run.stop = "returned" => srv.grpc = "stopped"
    /\ dead \in BOOLEAN /\ faults \in 0..MaxFaults /\ srv.epoch \in 0..faults

\* A token the connection may send: of its owner, who has authenticated if it
\* was obtained with credentials.
OwnerToken(t) ==
    /\ t.sub = Owner
    /\ (Renews /\ conf.extMaterial = {}) =>
         <<Owner, conf.creds.payload>> \in Checker.handlers[conf.creds.type]

TokenInv(t) == TokenOK(t) /\ (t # NoToken => OwnerToken(t))

CredOK ==
    /\ cred = [ptr |-> cred.ptr, len |-> cred.len, mu |-> cred.mu]
    /\ cred.mu \in Calls \cup {Nobody} /\ cred.len \in BOOLEAN
    /\ TokenInv(cred.ptr)

\* The stages of a call, those under the lock of the credentials, and those at
\* which its code is known.
Locked == {"authenticate", "authenticateTo", "storePtr", "storeLen"}
Over == {"idle", "answered", "clearLen"}
Stages == {"metadata", "lock", "send", "arrived", "handler"} \cup Locked \cup Over

\* A call comes to the lock on a connection that renews its token, and
\* authenticates with credentials when there is no static material.
StageOK(p) ==
    /\ p \in Stages
    /\ p \in {"lock"} \cup Locked => Renews
    /\ p = "authenticate" => conf.extMaterial = {}

\* As whom the handler of call c runs.
Served(c) ==
    /\ call[c].entity # Anonymous =>
         \/ /\ call[c].tok = NoToken
            /\ call[c].entity = conf.cert /\ conf.cert \in UNION opt.tlsAuth
         \/ /\ call[c].tok # NoToken /\ call[c].entity = call[c].tok.sub
            /\ call[c].tok.aud \cap Audience(opt) # {}
    /\ call[c].entity = Anonymous =>
         \/ opt.unauthenticated \/ Methods[c] \in ExemptMethods(opt)
         \/ Methods[c] \in opt.public /\ c \notin Streams

CallOK(c) ==
    /\ call[c] = [pc |-> call[c].pc, tok |-> call[c].tok, code |-> call[c].code, entity |-> call[c].entity]
    /\ StageOK(call[c].pc)
    /\ TokenInv(call[c].tok)
    /\ cred.mu = c <=> call[c].pc \in Locked
    /\ call[c].pc \notin Over => call[c].code = "none"
    /\ call[c].pc = "handler" => Served(c)

Inv ==
    /\ setup \in DOMAIN Setups /\ call = [c \in Calls |-> call[c]]
    /\ ServerOK /\ CredOK /\ \A c \in Calls : CallOK(c)

----------------------------------------------------------------------------
(* Authentication. *)

\* The key a server signs with is a key.
LEMMA SigningKey ==
    ASSUME NEW o, NEW e \in Nat, NoKey \notin o.keys, ~o.unauthenticated
    PROVE  AuthKeyForJWTSigning(o, e) # NoKey
<1>1. GenerateKey(e) # NoKey
  BY DEF GenerateKey, NoKey
<1>2. AuthKeys(o, e) # {} /\ NoKey \notin AuthKeys(o, e)
  BY <1>1 DEF AuthKeys
<1>3. (CHOOSE k \in AuthKeys(o, e) : TRUE) \in AuthKeys(o, e)
  BY <1>2
<1> QED
  BY <1>2, <1>3 DEF AuthKeyForJWTSigning

\* Authenticate gives a token to an entity whose payload the handler of the
\* credentials' type accepts, made out to that entity.
LEMMA AuthenticateGives ==
    ASSUME NEW o, NEW e \in Nat, NoKey \notin o.keys, NEW entity, NEW type, NEW payload,
           Authenticate(o, e, entity, type, payload).code = "OK"
    PROVE  /\ Authenticate(o, e, entity, type, payload).token.sub = entity
           /\ Authenticate(o, e, entity, type, payload).token.key # NoKey
           /\ <<entity, payload>> \in o.handlers[type]
<1>1. /\ ~o.unauthenticated /\ <<entity, payload>> \in o.handlers[type]
      /\ Authenticate(o, e, entity, type, payload)
           = Granted(SignAccessTokenForEntity(o, e, type, Audience(o), entity))
  BY DEF Authenticate, Denied
<1> QED
  BY <1>1, SigningKey DEF Granted, SignAccessTokenForEntity

\* Who is let in by ensureAuthed: the entity of a token that is for this server,
\* or of a certificate.
LEMMA EnsureAuthedGives ==
    ASSUME NEW o, NEW e, NEW token, NEW cert, NEW r, r = EnsureAuthed(o, e, token, cert)
    PROVE  /\ r.code \in {"OK", "Unauthenticated", "Internal"}
           /\ r.code = "OK" => r.entity # Anonymous
           /\ r.code = "OK" /\ token = NoToken => r.entity = cert /\ cert \in UNION o.tlsAuth
           /\ r.code = "OK" /\ token # NoToken => r.entity = token.sub /\ token.aud \cap Audience(o) # {}
<1>1. CASE token = NoToken
  <2>1. r = TLSAuthed(o, cert)
    BY <1>1 DEF EnsureAuthed, TokenFromContext
  <2>2. CASE cert # "" /\ cert \in UNION o.tlsAuth
    <3>1. r = [code |-> "OK", entity |-> cert]
      BY <2>1, <2>2 DEF TLSAuthed, MakeEntitiesChecker
    <3>2. cert # Anonymous /\ cert \in UNION o.tlsAuth
      BY <2>2 DEF Anonymous
    <3>3. r.code = "OK" /\ r.entity = cert
      BY <3>1
    <3> QED
      BY <1>1, <3>2, <3>3, Zenon
  <2>3. CASE ~(cert # "" /\ cert \in UNION o.tlsAuth)
    <3>1. r = Refused("Unauthenticated")
      BY <2>1, <2>3 DEF TLSAuthed, MakeEntitiesChecker
    <3> QED
      BY <3>1 DEF Refused
  <2> QED
    BY <2>2, <2>3
<1>2. CASE token # NoToken
  BY <1>2 DEF EnsureAuthed, TokenFromContext, Refused, Anonymous
<1> QED
  BY <1>1, <1>2

\* ... and by the interceptors: a unary request goes on without an entity only
\* where the server or the method asks for none ...
LEMMA UnaryGives ==
    ASSUME NEW o, NEW e, NEW m, NEW token, NEW cert, NEW r, r = AuthUnaryInterceptor(o, e, m, token, cert)
    PROVE  /\ r.code \in {"OK", "Unauthenticated", "Internal"}
           /\ r.code = "OK" /\ r.entity = Anonymous => o.unauthenticated \/ m \in o.public \cup ExemptMethods(o)
           /\ r.code = "OK" /\ r.entity # Anonymous /\ token = NoToken => r.entity = cert /\ cert \in UNION o.tlsAuth
           /\ r.code = "OK" /\ r.entity # Anonymous /\ token # NoToken =>
                r.entity = token.sub /\ token.aud \cap Audience(o) # {}
           /\ o.unauthenticated => r.entity = Anonymous
<1> DEFINE a == EnsureAuthed(o, e, token, cert)
<1>1. /\ a.code \in {"OK", "Unauthenticated", "Internal"}
      /\ a.code = "OK" => a.entity # Anonymous
      /\ a.code = "OK" /\ token = NoToken => a.entity = cert /\ cert \in UNION o.tlsAuth
      /\ a.code = "OK" /\ token # NoToken => a.entity = token.sub /\ token.aud \cap Audience(o) # {}
  BY EnsureAuthedGives
<1>2. CASE o.unauthenticated \/ m \in ExemptMethods(o)
  <2>1. r = [code |-> "OK", entity |-> Anonymous]
    BY <1>2 DEF AuthUnaryInterceptor
  <2> QED
    BY <1>2, <2>1
<1>3. CASE ~o.unauthenticated /\ m \notin ExemptMethods(o) /\ m \in o.public
  <2>1. r = IF a.code = "Unauthenticated" THEN [code |-> "OK", entity |-> Anonymous] ELSE a
    BY <1>3 DEF AuthUnaryInterceptor, TryAuth
  <2> HIDE DEF a
  <2>2. CASE a.code = "Unauthenticated"
    BY <1>3, <2>1, <2>2
  <2>3. CASE a.code # "Unauthenticated"
    BY <1>1, <1>3, <2>1, <2>3
  <2> QED
    BY <2>2, <2>3
<1>4. CASE ~o.unauthenticated /\ m \notin ExemptMethods(o) /\ m \notin o.public
  <2>1. r = a
    BY <1>4 DEF AuthUnaryInterceptor
  <2> HIDE DEF a
  <2> QED
    BY <1>1, <1>4, <2>1
<1> QED
  BY <1>2, <1>3, <1>4

\* ... and a stream not even where a public method asks for none.
LEMMA StreamGives ==
    ASSUME NEW o, NEW e, NEW m, NEW token, NEW cert, NEW r, r = AuthStreamInterceptor(o, e, m, token, cert)
    PROVE  /\ r.code \in {"OK", "Unauthenticated", "Internal"}
           /\ r.code = "OK" /\ r.entity = Anonymous => o.unauthenticated \/ m \in ExemptMethods(o)
           /\ r.code = "OK" /\ r.entity # Anonymous /\ token = NoToken => r.entity = cert /\ cert \in UNION o.tlsAuth
           /\ r.code = "OK" /\ r.entity # Anonymous /\ token # NoToken =>
                r.entity = token.sub /\ token.aud \cap Audience(o) # {}
           /\ o.unauthenticated => r.entity = Anonymous
<1> DEFINE a == EnsureAuthed(o, e, token, cert)
<1>1. /\ a.code \in {"OK", "Unauthenticated", "Internal"}
      /\ a.code = "OK" => a.entity # Anonymous
      /\ a.code = "OK" /\ token = NoToken => a.entity = cert /\ cert \in UNION o.tlsAuth
      /\ a.code = "OK" /\ token # NoToken => a.entity = token.sub /\ token.aud \cap Audience(o) # {}
  BY EnsureAuthedGives
<1>2. CASE o.unauthenticated \/ m \in ExemptMethods(o)
  <2>1. r = [code |-> "OK", entity |-> Anonymous]
    BY <1>2 DEF AuthStreamInterceptor
  <2> QED
    BY <1>2, <2>1
<1>3. CASE ~o.unauthenticated /\ m \notin ExemptMethods(o) /\ m \in o.public
  <2>1. /\ a.code \in {"OK", "Unauthenticated"} => r = Refused("Internal")
        /\ a.code = "Internal" => r = a
    BY <1>3 DEF AuthStreamInterceptor, TryAuth
  <2> HIDE DEF a
  <2> QED
    BY <1>1, <1>3, <2>1 DEF Refused
<1>4. CASE ~o.unauthenticated /\ m \notin ExemptMethods(o) /\ m \notin o.public
  <2>1. r = a
    BY <1>4 DEF AuthStreamInterceptor
  <2> HIDE DEF a
  <2> QED
    BY <1>1, <1>4, <2>1
<1> QED
  BY <1>2, <1>3, <1>4

\* AuthenticateTo hands on who the caller's token was made out to.
LEMMA AuthenticateToGives ==
    ASSUME NEW o, NEW e \in Nat, NEW token, NEW to, NEW a, a = AuthenticateTo(o, e, token, to),
           NoKey \notin o.keys, a.code = "OK"
    PROVE  token # NoToken /\ a.token.sub = token.sub /\ a.token.key # NoKey /\ token.sub # Anonymous
<1> DEFINE r == AuthUnaryInterceptor(o, e, "AuthenticateTo", token, "")
<1>1. r.code = "OK" /\ r.entity # Anonymous
  BY DEF AuthenticateTo, Denied
<1>2. a = Granted(SignAccessTokenForEntity(o, e, "external", {to}, r.entity))
  BY <1>1 DEF AuthenticateTo, Denied
<1>3. token # NoToken /\ r.entity = token.sub /\ ~o.unauthenticated
  <2>0. PICK m, cert : m = "AuthenticateTo" /\ cert = ""
    OBVIOUS
  <2>1. r = AuthUnaryInterceptor(o, e, m, token, cert)
    BY <2>0
  <2> HIDE DEF r
  <2>2. o.unauthenticated => r.entity = Anonymous
    BY <2>1, UnaryGives
  <2>3. token = NoToken => r.entity = ""
    <3>1. token = NoToken => r.entity = cert
      BY <1>1, <2>1, UnaryGives
    <3> QED
      BY <2>0, <3>1
  <2>4. token # NoToken => r.entity = token.sub
    BY <1>1, <2>1, UnaryGives
  <2> QED
    BY <1>1, <2>2, <2>3, <2>4 DEF Anonymous
<1>4. AuthKeyForJWTSigning(o, e) # NoKey
  BY <1>3, SigningKey
<1> HIDE DEF r
<1>5. Granted(SignAccessTokenForEntity(o, e, "external", {to}, r.entity)).token
        = [key |-> AuthKeyForJWTSigning(o, e), sub |-> r.entity, aud |-> {to}, type |-> "external"]
  BY DEF Granted, SignAccessTokenForEntity
<1>6. a.token.sub = r.entity /\ a.token.key = AuthKeyForJWTSigning(o, e)
  BY <1>2, <1>5
<1> QED
  BY <1>1, <1>3, <1>4, <1>6, Zenon

----------------------------------------------------------------------------
(* What a step leaves alone. *)

\* The options never change, so neither does what is read off them.
LEMMA Same ==
    ASSUME setup' = setup
    PROVE  opt' = opt /\ conf' = conf /\ Renews' = Renews /\ Owner' = Owner /\ Checker' = Checker
  BY DEF opt, conf, Renews, Owner, Checker, Entity

\* No token is a token the connection may hold.
LEMMA NoTokenInv == TokenInv(NoToken)
  BY DEF TokenInv, TokenOK

\* A token of the connection, in the next state.
LEMMA TokenKept ==
    ASSUME setup' = setup, NEW t, TokenInv(t)
    PROVE  /\ t = NoToken \/ (t.key # NoKey /\ (t.sub # "" \/ t \in conf'.material \cup conf'.extMaterial))
           /\ t # NoToken =>
                /\ t.sub = Owner'
                /\ (Renews' /\ conf'.extMaterial = {}) =>
                     <<Owner', conf'.creds.payload>> \in Checker'.handlers[conf'.creds.type]
<1>1. conf' = conf /\ Renews' = Renews /\ Owner' = Owner /\ Checker' = Checker
  BY Same
<1>2. /\ t = NoToken \/ (t.key # NoKey /\ (t.sub # "" \/ t \in conf.material \cup conf.extMaterial))
      /\ t # NoToken =>
           /\ t.sub = Owner
           /\ (Renews /\ conf.extMaterial = {}) =>
                <<Owner, conf.creds.payload>> \in Checker.handlers[conf.creds.type]
  BY Zenon DEF TokenInv, TokenOK, OwnerToken
<1> QED
  BY <1>1, <1>2, Zenon

\* The token of a call or of the credentials goes on to be one the connection may hold.
LEMMA CallTokenKept ==
    ASSUME setup' = setup, NEW c, TokenInv(call'[c].tok)
    PROVE  TokenInv(call[c].tok)'
  BY TokenKept, Zenon DEF TokenInv, TokenOK, OwnerToken

\* The same for the credentials.
LEMMA CredTokenKept ==
    ASSUME setup' = setup, TokenInv(cred'.ptr)
    PROVE  TokenInv(cred.ptr)'
  BY TokenKept, Zenon DEF TokenInv, TokenOK, OwnerToken

\* A stage a call may be in goes on to be one.
LEMMA StageKept ==
    ASSUME setup' = setup, NEW c, StageOK(call'[c].pc)
    PROVE  StageOK(call[c].pc)'
  BY Same DEF StageOK

\* The entity a call is served as does not change while the call does not.
LEMMA ServedKept ==
    ASSUME setup' = setup, NEW c, call'[c] = call[c], Served(c)
    PROVE  Served(c)'
  BY Same DEF Served

\* A call that a step leaves alone stays in order, unless the step gives it or
\* takes from it the lock of the credentials.
LEMMA CallKept ==
    ASSUME setup' = setup, NEW c, call'[c] = call[c], CallOK(c), cred'.mu = c <=> cred.mu = c
    PROVE  CallOK(c)'
<1>0. StageOK(call[c].pc)'
  BY StageKept DEF CallOK
<1>1. TokenInv(call[c].tok)'
  BY CallTokenKept DEF CallOK
<1>2. call[c].pc = "handler" => Served(c)'
  BY ServedKept DEF CallOK
<1> QED
  BY <1>0, <1>1, <1>2 DEF CallOK

\* A step of the server leaves the calls and the credentials alone.
LEMMA ServerStep ==
    ASSUME Inv, setup' = setup, UNCHANGED <<cred, call>>, ServerOK'
    PROVE  Inv'
<1>1. \A c \in Calls : CallOK(c)'
  BY CallKept DEF Inv
<1>2. CredOK'
  <2>1. TokenInv(cred.ptr)'
    BY CredTokenKept DEF Inv, CredOK
  <2> QED
    BY <2>1 DEF Inv, CredOK
<1> QED
  BY <1>1, <1>2 DEF Inv

\* A step of a call leaves the server and the other calls alone.
LEMMA CallStep ==
    ASSUME Inv, NEW c \in Calls, NEW r, call' = [call EXCEPT ![c] = r],
           setup' = setup, UNCHANGED serverVars, dead' \in BOOLEAN, UNCHANGED faults \/ Fault,
           CredOK', CallOK(c)', cred'.mu = cred.mu \/ {cred.mu, cred'.mu} \subseteq {c, Nobody}
    PROVE  Inv'
<1>1. call = [d \in Calls |-> call[d]] /\ (\A d \in Calls \ {c} : call'[d] = call[d]) /\ call' = [d \in Calls |-> call'[d]]
  BY DEF Inv
<1>2. ASSUME NEW d \in Calls, d # c PROVE CallOK(d)'
  <2>1. cred'.mu = d <=> cred.mu = d
    BY <1>2, CallsAssumption DEF Nobody
  <2> QED
    BY <1>1, <1>2, <2>1, CallKept DEF Inv
<1>3. ServerOK'
  BY CallsAssumption DEF Inv, ServerOK, serverVars, Fault, Srvs
<1> QED
  BY <1>1, <1>2, <1>3 DEF Inv

\* What a call's record must be for its step to preserve the invariant.
RecOK(r) ==
    /\ r = [pc |-> r.pc, tok |-> r.tok, code |-> r.code, entity |-> r.entity]
    /\ StageOK(r.pc) /\ TokenInv(r.tok) /\ (r.pc \notin Over => r.code = "none")

\* A call that takes a step on its own.
LEMMA PlainStep ==
    ASSUME Inv, NEW c \in Calls, NEW r, call' = [call EXCEPT ![c] = r],
           setup' = setup, UNCHANGED <<serverVars, cred>>, dead' \in BOOLEAN, UNCHANGED faults \/ Fault,
           RecOK(r), r.pc # "handler", r.pc \in Locked <=> call[c].pc \in Locked
    PROVE  Inv'
<1>1. call'[c] = r /\ CallOK(c)
  BY DEF Inv
<1>2. CredOK'
  <2>1. TokenInv(cred.ptr)'
    BY CredTokenKept DEF Inv, CredOK
  <2> QED
    BY <2>1 DEF Inv, CredOK
<1>3. CallOK(c)'
  <2>1. TokenInv(call[c].tok)'
    BY <1>1, CallTokenKept DEF RecOK
  <2>2. StageOK(call[c].pc)'
    BY <1>1, StageKept DEF RecOK
  <2> QED
    BY <1>1, <2>1, <2>2 DEF CallOK, RecOK
<1> QED
  BY <1>2, <1>3, CallStep

\* A call that takes a step at the credentials it shares with the others.
LEMMA CredStep ==
    ASSUME Inv, NEW c \in Calls, NEW r, call' = [call EXCEPT ![c] = r], NEW q, cred' = q,
           setup' = setup, UNCHANGED serverVars, dead' \in BOOLEAN, UNCHANGED faults \/ Fault,
           RecOK(r), r.pc # "handler", q.mu = c <=> r.pc \in Locked,
           q = [ptr |-> q.ptr, len |-> q.len, mu |-> q.mu], q.len \in BOOLEAN, TokenInv(q.ptr),
           q.mu = cred.mu \/ {cred.mu, q.mu} \subseteq {c, Nobody}
    PROVE  Inv'
<1>1. call'[c] = r
  BY DEF Inv
<1>2. CredOK'
  <2>1. TokenInv(cred.ptr)'
    BY CredTokenKept
  <2>2. q.mu \in Calls \cup {Nobody}
    BY DEF Inv, CredOK
  <2> QED
    BY <2>1, <2>2 DEF CredOK
<1>3. CallOK(c)'
  <2>1. TokenInv(call[c].tok)'
    BY <1>1, CallTokenKept DEF RecOK
  <2>2. StageOK(call[c].pc)'
    BY <1>1, StageKept DEF RecOK
  <2> QED
    BY <1>1, <2>1, <2>2 DEF CallOK, RecOK
<1> QED
  BY <1>2, <1>3, CallStep

----------------------------------------------------------------------------
(* The records of a call. *)

\* A call that is answered has no token and its code.
LEMMA AnsweredRec ==
    ASSUME NEW code
    PROVE  RecOK(Answered(code)) /\ Answered(code).pc = "answered" /\ Answered(code).code = code
<1> DEFINE a == [NewCall EXCEPT !.pc = "answered"]
<1>0. a = [pc |-> "answered", tok |-> NoToken, code |-> "none", entity |-> Anonymous]
  BY DEF NewCall
<1>1. Answered(code) = [pc |-> "answered", tok |-> NoToken, code |-> code, entity |-> Anonymous]
  <2>1. Answered(code) = [a EXCEPT !.code = code]
    BY DEF Answered
  <2> HIDE DEF a
  <2> QED
    BY <1>0, <2>1
<1> QED
  BY <1>1, NoTokenInv DEF RecOK, StageOK, Stages, Over, Locked

\* So has one that has returned.
LEMMA ReturnedRec ==
    ASSUME NEW c
    PROVE  RecOK(Returned(c)) /\ Returned(c).pc = "idle"
<1>1. Returned(c) = [pc |-> "idle", tok |-> NoToken, code |-> call[c].code, entity |-> Anonymous]
  BY DEF Returned, NewCall
<1> QED
  BY <1>1, NoTokenInv DEF RecOK, StageOK, Stages, Over, Locked

\* A call goes to its next stage ...
LEMMA MovedRec ==
    ASSUME NEW c, CallOK(c), NEW p, StageOK(p), call[c].pc \in Over => p \in Over
    PROVE  RecOK([call[c] EXCEPT !.pc = p]) /\ [call[c] EXCEPT !.pc = p].pc = p
<1> DEFINE r == [call[c] EXCEPT !.pc = p]
<1>1. r = [pc |-> p, tok |-> call[c].tok, code |-> call[c].code, entity |-> call[c].entity]
  BY DEF CallOK
<1> HIDE DEF r
<1>2. TokenInv(r.tok)
  BY <1>1 DEF CallOK
<1>3. RecOK(r) /\ r.pc = p
  BY <1>1, <1>2 DEF RecOK, CallOK
<1> QED
  BY <1>3 DEF r

\* ... with a token it obtained.
LEMMA TokenRec ==
    ASSUME NEW c, CallOK(c), NEW p, StageOK(p), call[c].pc \notin Over, NEW t, TokenInv(t)
    PROVE  RecOK([call[c] EXCEPT !.pc = p, !.tok = t]) /\ [call[c] EXCEPT !.pc = p, !.tok = t].pc = p
<1> DEFINE r == [call[c] EXCEPT !.pc = p, !.tok = t]
<1> DEFINE m == [call[c] EXCEPT !.pc = p]
<1>0. m = [pc |-> p, tok |-> call[c].tok, code |-> call[c].code, entity |-> call[c].entity]
  BY DEF CallOK
<1>1. r = [pc |-> p, tok |-> t, code |-> call[c].code, entity |-> call[c].entity]
  <2>1. r = [m EXCEPT !.tok = t]
    OBVIOUS
  <2> HIDE DEF r, m
  <2> QED
    BY <1>0, <2>1
<1> HIDE DEF r
<1>2. TokenInv(r.tok)
  BY <1>1
<1>3. RecOK(r) /\ r.pc = p
  BY <1>1, <1>2 DEF RecOK, CallOK
<1> QED
  BY <1>3 DEF r

\* The static materials of the dial options are the owner's.
LEMMA Materials ==
    ASSUME Inv
    PROVE  /\ ~Renews => TokenInv(Token(conf.material))
           /\ Renews /\ conf.extMaterial # {} => TokenInv(Token(conf.extMaterial))
<1>1. \A t \in conf.material \cup conf.extMaterial : t.key # NoKey
  BY SetupsAssumption DEF Inv, conf
<1>2. CASE ~Renews /\ conf.material = {}
  BY <1>2, NoTokenInv DEF Token
<1>3. CASE ~Renews /\ conf.material # {}
  <2>1. Token(conf.material) \in conf.material
    BY <1>3 DEF Token
  <2>2. Owner = Token(conf.material).sub
    BY <1>3 DEF Owner
  <2> QED
    BY <1>1, <1>3, <2>1, <2>2 DEF TokenInv, TokenOK, OwnerToken
<1>4. CASE Renews /\ conf.extMaterial # {}
  <2>1. Token(conf.extMaterial) \in conf.extMaterial
    BY <1>4 DEF Token
  <2>2. Owner = Token(conf.extMaterial).sub
    BY <1>4 DEF Owner, Renews, PerRPCJWTCredentials
  <2> QED
    BY <1>1, <1>4, <2>1, <2>2 DEF TokenInv, TokenOK, OwnerToken
<1> QED
  BY <1>2, <1>3, <1>4

----------------------------------------------------------------------------
(* The steps of a call. *)

\* The call of a step is in order, and what the step writes is its record.
LEMMA StepFacts ==
    ASSUME Inv, NEW c \in Calls, NEW from, NEW r, Step(c, from, r)
    PROVE  /\ CallOK(c) /\ CredOK /\ dead \in BOOLEAN /\ call[c].pc = from
           /\ call' = [call EXCEPT ![c] = r]
  BY DEF Inv, Step, ServerOK

\* A call that starts.
LEMMA InvokeInv ==
    ASSUME Inv, NEW c \in Calls, Invoke(c)
    PROVE  Inv'
<1> DEFINE r == [NewCall EXCEPT !.pc = "metadata"]
<1>1. r = [pc |-> "metadata", tok |-> NoToken, code |-> "none", entity |-> Anonymous]
  BY DEF NewCall
<1>2. Step(c, "idle", r) /\ UNCHANGED <<serverVars, setup, cred, dead, faults>>
  BY DEF Invoke
<1> HIDE DEF r
<1>3. RecOK(r) /\ r.pc = "metadata"
  BY <1>1, NoTokenInv DEF RecOK, StageOK, Stages, Over, Locked
<1> QED
  BY <1>2, <1>3, StepFacts, PlainStep DEF Locked

\* A call that gets its token without waiting.
LEMMA MetadataInv ==
    ASSUME Inv, NEW c \in Calls, StaticMetadata(c) \/ GetRequestMetadata(c)
    PROVE  Inv'
<1>0. StageOK("send") /\ "send" \notin Locked /\ "metadata" \notin Locked /\ "metadata" \notin Over
  BY DEF StageOK, Stages, Locked, Over
<1>1. ASSUME NEW t, TokenInv(t), Step(c, "metadata", [call[c] EXCEPT !.pc = "send", !.tok = t]),
             UNCHANGED <<serverVars, setup, cred, faults>>, dead' \in BOOLEAN
      PROVE  Inv'
  <2> DEFINE r == [call[c] EXCEPT !.pc = "send", !.tok = t]
  <2>1. CallOK(c) /\ call[c].pc = "metadata" /\ call' = [call EXCEPT ![c] = r]
    BY <1>1, StepFacts
  <2>2. RecOK(r) /\ r.pc = "send"
    BY <1>0, <1>1, <2>1, TokenRec
  <2> HIDE DEF r
  <2> QED
    BY <1>0, <1>1, <2>1, <2>2, PlainStep
<1>2. CASE StaticMetadata(c)
  <2>1. TokenInv(Token(conf.material)) /\ dead' \in BOOLEAN
    BY <1>2, Materials DEF StaticMetadata, Inv, ServerOK
  <2> QED
    BY <1>1, <1>2, <2>1 DEF StaticMetadata
<1>3. CASE GetRequestMetadata(c)
  <2>1. CredOK /\ dead' \in BOOLEAN /\ Renews
    BY <1>3 DEF GetRequestMetadata, Torn, Inv, CredOK
  <2>2. CASE cred.len
    BY <1>1, <1>3, <2>1, <2>2 DEF GetRequestMetadata, CredOK
  <2>3. CASE ~cred.len
    <3> DEFINE r == [call[c] EXCEPT !.pc = "lock"]
    <3>1. CallOK(c) /\ call[c].pc = "metadata" /\ call' = [call EXCEPT ![c] = r]
      BY <1>3, <2>3, StepFacts DEF GetRequestMetadata
    <3>2. StageOK("lock") /\ "lock" \notin Locked
      BY <2>1 DEF StageOK, Stages, Locked
    <3>3. RecOK(r) /\ r.pc = "lock"
      BY <1>0, <3>1, <3>2, MovedRec
    <3> HIDE DEF r
    <3> QED
      BY <1>0, <1>3, <2>1, <3>1, <3>2, <3>3, PlainStep DEF GetRequestMetadata
  <2> QED
    BY <2>2, <2>3
<1> QED
  BY <1>2, <1>3

\* A call that takes the lock of the credentials to authenticate, or finds that
\* another one has renewed the token.
LEMMA LocksInv ==
    ASSUME Inv, NEW c \in Calls, AuthenticateLocks(c)
    PROVE  Inv'
<1>0. /\ CredOK /\ dead' \in BOOLEAN /\ cred.mu = Nobody /\ cred.len \in BOOLEAN
      /\ UNCHANGED <<serverVars, setup, faults>>
      /\ "lock" \notin Locked /\ "lock" \notin Over
  BY DEF AuthenticateLocks, Torn, Inv, CredOK, Locked, Over
<1>1. CASE cred.len
  <2>p. PICK t : t = cred.ptr
    OBVIOUS
  <2> DEFINE r == [call[c] EXCEPT !.pc = "send", !.tok = t]
  <2>1. CallOK(c) /\ call[c].pc = "lock" /\ call' = [call EXCEPT ![c] = r] /\ cred' = cred
    <3>1. Step(c, "lock", r) /\ cred' = cred
      BY <1>1, <2>p DEF AuthenticateLocks
    <3> HIDE DEF r
    <3> QED
      BY <3>1, StepFacts
  <2>2. StageOK("send") /\ "send" \notin Locked
    BY DEF StageOK, Stages, Locked
  <2>t. TokenInv(t)
    BY <1>0, <2>p DEF CredOK
  <2>3. RecOK(r) /\ r.pc = "send"
    <3>1. CallOK(c) /\ call[c].pc \notin Over
      BY <1>0, <2>1
    <3> QED
      BY <2>2, <2>t, <3>1, TokenRec
  <2> HIDE DEF r
  <2> QED
    BY <1>0, <2>1, <2>2, <2>3, PlainStep
<1>2. CASE ~cred.len
  <2> DEFINE q == [cred EXCEPT !.mu = c]
             r1 == [call[c] EXCEPT !.pc = "authenticate"]
             p == IF DialsExternalAuth(conf) THEN "authenticateTo" ELSE "storePtr"
             r2 == [call[c] EXCEPT !.pc = p, !.tok = Token(conf.extMaterial)]
             r == IF conf.extMaterial = {} THEN r1 ELSE r2
  <2>1. CallOK(c) /\ call[c].pc = "lock" /\ call' = [call EXCEPT ![c] = r] /\ cred' = q
    BY <1>2, StepFacts DEF AuthenticateLocks
  <2>2. Renews
    BY <2>1 DEF CallOK, StageOK
  <2>3. q = [ptr |-> cred.ptr, len |-> cred.len, mu |-> c] /\ TokenInv(cred.ptr)
    BY <1>0 DEF CredOK
  <2>4. RecOK(r) /\ r.pc \in Locked
    <3>1. CASE conf.extMaterial = {}
      <4>1. StageOK("authenticate") /\ "authenticate" \in Locked
        BY <2>2, <3>1 DEF StageOK, Stages, Locked
      <4> QED
        BY <1>0, <2>1, <3>1, <4>1, MovedRec
    <3>2. CASE conf.extMaterial # {}
      <4>1. StageOK(p) /\ p \in Locked
        BY <2>2 DEF StageOK, Stages, Locked
      <4>2. TokenInv(Token(conf.extMaterial))
        BY <2>2, <3>2, Materials
      <4> HIDE DEF p
      <4>3. RecOK(r2) /\ r2.pc = p
        <5>1. PICK t : t = Token(conf.extMaterial)
          OBVIOUS
        <5>2. RecOK([call[c] EXCEPT !.pc = p, !.tok = t]) /\ [call[c] EXCEPT !.pc = p, !.tok = t].pc = p
          <6>1. CallOK(c) /\ call[c].pc \notin Over /\ TokenInv(t)
            BY <1>0, <2>1, <4>2, <5>1
          <6> QED
            BY <4>1, <6>1, TokenRec
        <5> QED
          BY <5>1, <5>2
      <4> QED
        BY <3>2, <4>1, <4>3
    <3> QED
      BY <3>1, <3>2
  <2> HIDE DEF r, q
  <2>5. r.pc # "handler"
    BY <2>4 DEF Locked
  <2>6. /\ q = [ptr |-> q.ptr, len |-> q.len, mu |-> q.mu] /\ q.len \in BOOLEAN /\ TokenInv(q.ptr)
        /\ q.mu = c /\ {cred.mu, q.mu} \subseteq {c, Nobody}
    BY <1>0, <2>3
  <2> QED
    BY <1>0, <2>1, <2>4, <2>5, <2>6, CredStep
<1> QED
  BY <1>0, <1>1, <1>2

\* What an authentication RPC came back with: the token is the owner's, or the
\* lock is released.
LEMMA ObtainInv ==
    ASSUME Inv, NEW c \in Calls, NEW from \in {"authenticate", "authenticateTo"}, NEW a, NEW next \in Locked,
           StageOK(from) => StageOK(next),
           Obtain(c, from, a, next), a.code = "OK" => TokenInv(a.token),
           UNCHANGED <<serverVars, setup, dead>>, UNCHANGED faults \/ Fault
    PROVE  Inv'
<1>0. from \in Locked /\ from \notin Over /\ "answered" \notin Locked /\ next # "handler" /\ dead' \in BOOLEAN
  BY DEF Locked, Over, Inv, ServerOK
<1>1. CASE a.code = "OK"
  <2>p. PICK t : t = a.token
    OBVIOUS
  <2> DEFINE r == [call[c] EXCEPT !.pc = next, !.tok = t]
  <2>1. Step(c, from, r) /\ cred' = cred
    BY <1>1, <2>p DEF Obtain
  <2>2. CallOK(c) /\ call[c].pc = from /\ call' = [call EXCEPT ![c] = r]
    BY <2>1, StepFacts
  <2>3. StageOK(next) /\ call[c].pc \notin Over /\ TokenInv(t)
    BY <1>0, <1>1, <2>p, <2>2 DEF CallOK
  <2>4. RecOK(r) /\ r.pc = next
    BY <2>2, <2>3, TokenRec
  <2> HIDE DEF r
  <2> QED
    BY <1>0, <2>1, <2>2, <2>4, PlainStep
<1>2. CASE a.code # "OK"
  <2> DEFINE r == Answered(a.code)
             q == [cred EXCEPT !.mu = Nobody]
  <2>1. Step(c, from, r) /\ cred' = q
    BY <1>2 DEF Obtain
  <2>2. CallOK(c) /\ CredOK /\ call[c].pc = from /\ call' = [call EXCEPT ![c] = r]
    BY <2>1, StepFacts
  <2>3. cred.mu = c
    BY <1>0, <2>2 DEF CallOK
  <2>4. q = [ptr |-> cred.ptr, len |-> cred.len, mu |-> Nobody] /\ TokenInv(cred.ptr) /\ cred.len \in BOOLEAN
    BY <2>2 DEF CredOK
  <2>5. RecOK(r) /\ r.pc = "answered"
    BY AnsweredRec
  <2> HIDE DEF r, q
  <2>6. /\ q = [ptr |-> q.ptr, len |-> q.len, mu |-> q.mu] /\ q.len \in BOOLEAN /\ TokenInv(q.ptr)
        /\ {cred.mu, q.mu} \subseteq {c, Nobody} /\ (q.mu = c <=> r.pc \in Locked)
    BY <1>0, <2>3, <2>4, <2>5, CallsAssumption DEF Nobody
  <2> QED
    BY <1>0, <2>1, <2>2, <2>5, <2>6, CredStep
<1> QED
  BY <1>1, <1>2

\* Without static material the connection's owner is the entity it authenticates as.
LEMMA EntityOwns ==
    ASSUME Renews, conf.extMaterial = {}
    PROVE  Owner = Entity /\ Entity # ""
  BY DEF Owner, Entity, Renews, PerRPCJWTCredentials, AuthEntity

\* Keys configured are keys.
LEMMA Keys ==
    ASSUME Inv
    PROVE  NoKey \notin opt.keys /\ NoKey \notin Ext.keys /\ srv.epoch \in Nat
  BY SetupsAssumption DEF Inv, opt, ServerOK, Srvs

\* A token Authenticate gives the connection is its owner's.
LEMMA AuthenticatedOwner ==
    ASSUME NEW e \in Nat, Renews, conf.extMaterial = {}, NEW a, NoKey \notin Checker.keys,
           a = Authenticate(Checker, e, Entity, conf.creds.type, conf.creds.payload), a.code = "OK"
    PROVE  TokenInv(a.token)
<1>1. Owner = Entity /\ Entity # ""
  BY EntityOwns
<1>2. a.token.sub = Entity /\ a.token.key # NoKey /\ <<Entity, conf.creds.payload>> \in Checker.handlers[conf.creds.type]
  BY AuthenticateGives
<1> QED
  BY <1>1, <1>2 DEF TokenInv, TokenOK, OwnerToken

\* Authenticating with credentials preserves the invariant.
LEMMA AuthenticateInv ==
    ASSUME Inv, NEW c \in Calls, AuthenticateCall(c)
    PROVE  Inv'
<1>0. UNCHANGED <<serverVars, setup, dead, faults>>
  BY DEF AuthenticateCall
<1>1. call[c].pc = "authenticate"
  BY DEF AuthenticateCall, Obtain, Step
<1>2. Renews /\ conf.extMaterial = {}
  BY <1>1 DEF Inv, CallOK, StageOK, Locked
<1>3. StageOK("storePtr") /\ StageOK("authenticateTo") /\ "storePtr" \in Locked /\ "authenticateTo" \in Locked
  BY <1>2 DEF StageOK, Stages, Locked
<1>4. CASE ~DialsExternalAuth(conf) /\ Reachable(c)
  <2> DEFINE a == Authenticate(opt, srv.epoch, Entity, conf.creds.type, conf.creds.payload)
  <2>1. Checker = opt
    BY <1>4 DEF Checker
  <2>2. a.code = "OK" => TokenInv(a.token)
    BY <1>2, <2>1, AuthenticatedOwner, Keys
  <2>3. Obtain(c, "authenticate", a, "storePtr")
    BY <1>4 DEF AuthenticateCall
  <2> HIDE DEF a
  <2> QED
    BY <1>0, <1>3, <2>2, <2>3, ObtainInv
<1>5. CASE ~DialsExternalAuth(conf) /\ ~Reachable(c)
  <2>1. Obtain(c, "authenticate", Denied("Unavailable"), "storePtr")
    BY <1>5 DEF AuthenticateCall
  <2>2. Denied("Unavailable").code # "OK"
    BY DEF Denied
  <2> QED
    BY <1>0, <1>3, <2>1, <2>2, ObtainInv
<1>6. CASE DialsExternalAuth(conf)
  <2> DEFINE a == Authenticate(Ext, 0, Entity, conf.creds.type, conf.creds.payload)
  <2>1. Checker = Ext
    BY <1>6 DEF Checker
  <2>2. a.code = "OK" => TokenInv(a.token)
    BY <1>2, <2>1, AuthenticatedOwner, Keys
  <2>3. Obtain(c, "authenticate", a, "authenticateTo")
    BY <1>6 DEF AuthenticateCall
  <2> HIDE DEF a
  <2> QED
    BY <1>0, <1>3, <2>2, <2>3, ObtainInv
<1> QED
  BY <1>4, <1>5, <1>6

\* Handing the token of the external service on preserves it.
LEMMA AuthenticateToInv ==
    ASSUME Inv, NEW c \in Calls, AuthenticateToCall(c)
    PROVE  Inv'
<1> DEFINE a == AuthenticateTo(Ext, 0, call[c].tok, conf.to)
<1>1. Obtain(c, "authenticateTo", a, "storePtr") /\ UNCHANGED <<serverVars, setup, dead, faults>>
  BY DEF AuthenticateToCall
<1>2. CallOK(c)
  BY DEF Inv
<1>3. a.code = "OK" => TokenInv(a.token)
  <2> SUFFICES ASSUME a.code = "OK" PROVE TokenInv(a.token)
    OBVIOUS
  <2>1. call[c].tok # NoToken /\ a.token.sub = call[c].tok.sub /\ a.token.key # NoKey /\ a.token.sub # ""
    <3>1. PICK t, to, e : t = call[c].tok /\ to = conf.to /\ e = 0
      OBVIOUS
    <3>2. a = AuthenticateTo(Ext, e, t, to) /\ NoKey \notin Ext.keys /\ e \in Nat
      BY <3>1, Keys
    <3> HIDE DEF a
    <3>3. t # NoToken /\ a.token.sub = t.sub /\ a.token.key # NoKey /\ t.sub # Anonymous
      BY <3>2, AuthenticateToGives, SMTT(40)
    <3> QED
      BY <3>1, <3>3 DEF Anonymous
  <2>2. OwnerToken(call[c].tok)
    BY <1>2, <2>1 DEF CallOK, TokenInv
  <2> HIDE DEF a
  <2> QED
    BY <2>1, <2>2 DEF TokenInv, TokenOK, OwnerToken
<1> HIDE DEF a
<1>4. StageOK("authenticateTo") => StageOK("storePtr")
  BY DEF StageOK, Stages, Locked
<1>5. "storePtr" \in Locked
  BY DEF Locked
<1> QED
  BY <1>1, <1>3, <1>4, <1>5, ObtainInv

\* So does an authentication RPC that fails.
LEMMA AuthenticateFailsInv ==
    ASSUME Inv, NEW c \in Calls, AuthenticateFails(c)
    PROVE  Inv'
<1>1. PICK from \in {"authenticate", "authenticateTo"} : Obtain(c, from, Denied("Unavailable"), from)
  BY DEF AuthenticateFails
<1>2. Denied("Unavailable").code # "OK" /\ from \in Locked
  BY DEF Denied, Locked
<1>3. UNCHANGED <<serverVars, setup, dead>> /\ Fault
  BY DEF AuthenticateFails
<1> QED
  BY <1>1, <1>2, <1>3, ObtainInv

\* The two writes of a new token, under the lock.
LEMMA StoreInv ==
    ASSUME Inv, NEW c \in Calls, StorePtr(c) \/ StoreLen(c)
    PROVE  Inv'
<1>0. /\ "storePtr" \in Locked /\ "storeLen" \in Locked /\ "send" \notin Locked
      /\ "storePtr" \notin Over /\ "storeLen" \notin Over
  BY DEF Locked, Over
<1>1. CASE StorePtr(c)
  <2> DEFINE r == [call[c] EXCEPT !.pc = "storeLen"]
             q == [cred EXCEPT !.ptr = call[c].tok]
  <2>1. Step(c, "storePtr", r) /\ cred' = q /\ UNCHANGED <<serverVars, setup, dead, faults>>
    BY <1>1 DEF StorePtr
  <2>2. CallOK(c) /\ CredOK /\ dead' \in BOOLEAN /\ call[c].pc = "storePtr" /\ call' = [call EXCEPT ![c] = r]
    BY <2>1, StepFacts
  <2>3. cred.mu = c /\ StageOK("storeLen") /\ TokenInv(call[c].tok)
    BY <1>0, <2>2 DEF CallOK, StageOK, Stages
  <2>4. RecOK(r) /\ r.pc = "storeLen"
    BY <1>0, <2>2, <2>3, MovedRec
  <2>5. q = [ptr |-> call[c].tok, len |-> cred.len, mu |-> cred.mu] /\ cred.len \in BOOLEAN
    BY <2>2 DEF CredOK
  <2> HIDE DEF r, q
  <2>6. /\ q = [ptr |-> q.ptr, len |-> q.len, mu |-> q.mu] /\ q.len \in BOOLEAN /\ TokenInv(q.ptr)
        /\ q.mu = cred.mu /\ (q.mu = c <=> r.pc \in Locked) /\ r.pc # "handler"
    BY <1>0, <2>3, <2>4, <2>5
  <2> QED
    BY <2>1, <2>2, <2>4, <2>6, CredStep
<1>2. CASE StoreLen(c)
  <2> DEFINE r == [call[c] EXCEPT !.pc = "send"]
             q1 == [cred EXCEPT !.len = TRUE]
             q == [cred EXCEPT !.len = TRUE, !.mu = Nobody]
  <2>1. Step(c, "storeLen", r) /\ cred' = q /\ UNCHANGED <<serverVars, setup, dead, faults>>
    BY <1>2 DEF StoreLen
  <2>2. CallOK(c) /\ CredOK /\ dead' \in BOOLEAN /\ call[c].pc = "storeLen" /\ call' = [call EXCEPT ![c] = r]
    BY <2>1, StepFacts
  <2>3. cred.mu = c /\ StageOK("send") /\ TokenInv(cred.ptr)
    BY <1>0, <2>2 DEF CallOK, StageOK, Stages, CredOK, Locked
  <2>4. RecOK(r) /\ r.pc = "send"
    BY <1>0, <2>2, <2>3, MovedRec
  <2>5. q = [ptr |-> cred.ptr, len |-> TRUE, mu |-> Nobody]
    <3>1. q1 = [ptr |-> cred.ptr, len |-> TRUE, mu |-> cred.mu]
      <4>1. PICK b : b = TRUE
        OBVIOUS
      <4>2. [cred EXCEPT !.len = b] = [ptr |-> cred.ptr, len |-> b, mu |-> cred.mu]
        BY <2>2 DEF CredOK
      <4> QED
        BY <4>1, <4>2, Zenon
    <3>2. q = [q1 EXCEPT !.mu = Nobody]
      OBVIOUS
    <3> HIDE DEF q, q1
    <3> QED
      BY <3>1, <3>2
  <2> HIDE DEF r, q
  <2>6. /\ q = [ptr |-> q.ptr, len |-> q.len, mu |-> q.mu] /\ q.len \in BOOLEAN /\ TokenInv(q.ptr)
        /\ {cred.mu, q.mu} \subseteq {c, Nobody} /\ (q.mu = c <=> r.pc \in Locked) /\ r.pc # "handler"
    BY <1>0, <2>3, <2>4, <2>5, CallsAssumption DEF Nobody
  <2> QED
    BY <2>1, <2>2, <2>4, <2>6, CredStep
<1> QED
  BY <1>1, <1>2

\* A call that is answered, wherever it was but under the lock.
LEMMA AnsweredInv ==
    ASSUME Inv, NEW c \in Calls, NEW from, from \notin Locked, NEW code, Step(c, from, Answered(code)),
           UNCHANGED <<serverVars, setup, cred, dead>>, UNCHANGED faults \/ Fault
    PROVE  Inv'
<1> DEFINE r == Answered(code)
<1>1. RecOK(r) /\ r.pc = "answered"
  BY AnsweredRec
<1> HIDE DEF r
<1>2. call[c].pc = from /\ call' = [call EXCEPT ![c] = r] /\ dead' \in BOOLEAN
  BY StepFacts DEF r
<1>3. "answered" \notin Locked
  BY DEF Locked
<1> QED
  BY <1>1, <1>2, <1>3, PlainStep

\* The request leaves.
LEMMA SendInv ==
    ASSUME Inv, NEW c \in Calls, Send(c)
    PROVE  Inv'
<1>0. "send" \notin Locked /\ "arrived" \notin Locked /\ "send" \notin Over
  BY DEF Locked, Over
<1>u. UNCHANGED <<serverVars, setup, cred, dead, faults>>
  BY DEF Send
<1>1. CASE Reachable(c)
  <2> DEFINE r == [call[c] EXCEPT !.pc = "arrived"]
  <2>1. Step(c, "send", r)
    BY <1>1 DEF Send
  <2>2. CallOK(c) /\ dead' \in BOOLEAN /\ call[c].pc = "send" /\ call' = [call EXCEPT ![c] = r]
    BY <1>u, <2>1, StepFacts
  <2>3. StageOK("arrived")
    BY DEF StageOK, Stages, Locked
  <2>4. RecOK(r) /\ r.pc = "arrived"
    BY <1>0, <2>2, <2>3, MovedRec
  <2> HIDE DEF r
  <2> QED
    BY <1>0, <1>u, <2>2, <2>4, PlainStep
<1>2. CASE ~Reachable(c)
  <2>1. Step(c, "send", Answered("Unavailable"))
    BY <1>2 DEF Send
  <2> QED
    BY <1>0, <1>u, <2>1, AnsweredInv
<1> QED
  BY <1>1, <1>2

\* What the interceptors find of a call.
LEMMA InterceptedGives ==
    ASSUME NEW c, NEW i, i = Intercepted(c)
    PROVE  /\ i.code \in {"OK", "Unauthenticated", "Internal"}
           /\ i.code = "OK" /\ i.entity = Anonymous =>
                \/ opt.unauthenticated \/ Methods[c] \in ExemptMethods(opt)
                \/ Methods[c] \in opt.public /\ c \notin Streams
           /\ i.code = "OK" /\ i.entity # Anonymous /\ call[c].tok = NoToken =>
                i.entity = conf.cert /\ conf.cert \in UNION opt.tlsAuth
           /\ i.code = "OK" /\ i.entity # Anonymous /\ call[c].tok # NoToken =>
                i.entity = call[c].tok.sub /\ call[c].tok.aud \cap Audience(opt) # {}
<1>1. PICK o, e, m, t, x : o = opt /\ e = srv.epoch /\ m = Methods[c] /\ t = call[c].tok /\ x = PeerCert(c)
  OBVIOUS
<1>4. x \in {conf.cert, Anonymous}
  BY <1>1 DEF PeerCert, Anonymous
<1>2. CASE c \in Streams
  <2>1. i = AuthStreamInterceptor(o, e, m, t, x)
    BY <1>1, <1>2 DEF Intercepted
  <2>2. /\ i.code \in {"OK", "Unauthenticated", "Internal"}
        /\ i.code = "OK" /\ i.entity = Anonymous => o.unauthenticated \/ m \in ExemptMethods(o)
        /\ i.code = "OK" /\ i.entity # Anonymous /\ t = NoToken => i.entity = x /\ x \in UNION o.tlsAuth
        /\ i.code = "OK" /\ i.entity # Anonymous /\ t # NoToken => i.entity = t.sub /\ t.aud \cap Audience(o) # {}
    BY <2>1, StreamGives
  <2> QED
    BY <1>1, <2>2, <1>4
<1>3. CASE c \notin Streams
  <2>1. i = AuthUnaryInterceptor(o, e, m, t, x)
    BY <1>1, <1>3 DEF Intercepted
  <2>2. /\ i.code \in {"OK", "Unauthenticated", "Internal"}
        /\ i.code = "OK" /\ i.entity = Anonymous => o.unauthenticated \/ m \in o.public \cup ExemptMethods(o)
        /\ i.code = "OK" /\ i.entity # Anonymous /\ t = NoToken => i.entity = x /\ x \in UNION o.tlsAuth
        /\ i.code = "OK" /\ i.entity # Anonymous /\ t # NoToken => i.entity = t.sub /\ t.aud \cap Audience(o) # {}
    BY <2>1, UnaryGives
  <2> QED
    BY <1>1, <1>3, <2>2, <1>4
<1> QED
  BY <1>2, <1>3

\* A call reaches its handler as the entity the interceptors found.
LEMMA InterceptInv ==
    ASSUME Inv, NEW c \in Calls, Intercept(c)
    PROVE  Inv'
<1>p. PICK i : i = Intercepted(c)
  OBVIOUS
<1>0. /\ i.code = "OK" /\ i.entity = Anonymous =>
           \/ opt.unauthenticated \/ Methods[c] \in ExemptMethods(opt)
           \/ Methods[c] \in opt.public /\ c \notin Streams
      /\ i.code = "OK" /\ i.entity # Anonymous /\ call[c].tok = NoToken =>
           i.entity = conf.cert /\ conf.cert \in UNION opt.tlsAuth
      /\ i.code = "OK" /\ i.entity # Anonymous /\ call[c].tok # NoToken =>
           i.entity = call[c].tok.sub /\ call[c].tok.aud \cap Audience(opt) # {}
  BY <1>p, InterceptedGives
<1>u. UNCHANGED <<serverVars, setup, cred, dead, faults>>
  BY DEF Intercept
<1>l. "arrived" \notin Locked /\ "handler" \notin Locked /\ "arrived" \notin Over
  BY DEF Locked, Over
<1>1. CASE i.code = "OK" /\ Service(Methods[c]) \in srv.services
  <2>p. PICK w : w = i.entity
    OBVIOUS
  <2> DEFINE m == [call[c] EXCEPT !.pc = "handler"]
             r == [call[c] EXCEPT !.pc = "handler", !.entity = w]
  <2>1. Step(c, "arrived", r)
    BY <1>1, <1>p, <2>p DEF Intercept
  <2>2. CallOK(c) /\ CredOK /\ dead' \in BOOLEAN /\ call[c].pc = "arrived" /\ call' = [call EXCEPT ![c] = r]
    BY <1>u, <2>1, StepFacts
  <2>3. r = [pc |-> "handler", tok |-> call[c].tok, code |-> call[c].code, entity |-> w]
    <3>1. m = [pc |-> "handler", tok |-> call[c].tok, code |-> call[c].code, entity |-> call[c].entity]
      BY <2>2 DEF CallOK
    <3>2. r = [m EXCEPT !.entity = w]
      OBVIOUS
    <3> HIDE DEF r, m
    <3> QED
      BY <3>1, <3>2
  <2> HIDE DEF r
  <2>4. /\ call'[c] = r /\ r.pc = "handler" /\ r.tok = call[c].tok /\ r.code = call[c].code /\ r.entity = w
        /\ call[c].code = "none" /\ cred.mu # c /\ TokenInv(call[c].tok)
    BY <1>l, <2>2, <2>3 DEF CallOK, Inv
  <2>5. CredOK'
    <3>1. TokenInv(cred.ptr)'
      BY <1>u, <2>2, CredTokenKept DEF CredOK
    <3> QED
      BY <1>u, <2>2, <3>1 DEF CredOK
  <2>6. Served(c)'
    <3>1. opt' = opt /\ conf' = conf
      BY <1>u, Same
    <3>2. call'[c].entity = w /\ call'[c].tok = call[c].tok
      BY <2>4
    <3> QED
      BY <1>0, <1>1, <2>p, <3>1, <3>2 DEF Served
  <2>7. CallOK(c)'
    <3>1. TokenInv(call[c].tok)'
      BY <1>u, <2>4, CallTokenKept
    <3>2. StageOK(call[c].pc)'
      BY <2>4 DEF StageOK, Stages, Locked
    <3>3. call'[c] = [pc |-> call'[c].pc, tok |-> call'[c].tok, code |-> call'[c].code, entity |-> call'[c].entity]
      BY <2>3, <2>4
    <3> QED
      BY <1>u, <1>l, <2>4, <2>6, <3>1, <3>2, <3>3 DEF CallOK
  <2> QED
    BY <1>u, <2>2, <2>5, <2>7, CallStep
<1>2. CASE ~(i.code = "OK" /\ Service(Methods[c]) \in srv.services)
  <2>1. Step(c, "arrived", Answered(IF Service(Methods[c]) \notin srv.services THEN "Unimplemented" ELSE i.code))
    BY <1>2, <1>p DEF Intercept
  <2>2. PICK code : code = IF Service(Methods[c]) \notin srv.services THEN "Unimplemented" ELSE i.code
    OBVIOUS
  <2> QED
    BY <1>l, <1>u, <2>1, <2>2, AnsweredInv
<1> QED
  BY <1>1, <1>2

\* The handler answers.
LEMMA HandlerInv ==
    ASSUME Inv, NEW c \in Calls, HandlerReturns(c) \/ Connect(c)
    PROVE  Inv'
<1>1. PICK code : Step(c, "handler", Answered(code))
  <2>1. PICK x : x = IF Methods[c] = "Call" THEN "DeadlineExceeded" ELSE "OK"
    OBVIOUS
  <2>2. \/ Step(c, "handler", Answered(x)) \/ Step(c, "handler", Answered("PermissionDenied"))
        \/ Step(c, "handler", Answered("OK"))
    BY <2>1 DEF HandlerReturns, Connect
  <2> QED
    BY <2>2
<1>2. UNCHANGED <<serverVars, setup, cred, dead>> /\ (UNCHANGED faults \/ Fault)
  BY DEF HandlerReturns, Connect
<1>3. "handler" \notin Locked
  BY DEF Locked
<1> QED
  BY <1>1, <1>2, <1>3, AnsweredInv

\* A call that returns, the token cleared first in two writes without the lock,
\* whoever holds it.
LEMMA ReturnInv ==
    ASSUME Inv, NEW c \in Calls, Return(c) \/ ClearPtr(c) \/ ClearLen(c)
    PROVE  Inv'
<1>0. "answered" \notin Locked /\ "clearLen" \notin Locked /\ "idle" \notin Locked /\ "clearLen" \in Over
  BY DEF Locked, Over
<1>u. UNCHANGED <<serverVars, setup, dead, faults>>
  BY DEF Return, ClearPtr, ClearLen
<1>1. CASE Return(c)
  <2> DEFINE r == Returned(c)
  <2>1. Step(c, "answered", r) /\ cred' = cred
    BY <1>1 DEF Return
  <2>2. RecOK(r) /\ r.pc = "idle"
    BY ReturnedRec
  <2> HIDE DEF r
  <2>3. call[c].pc = "answered" /\ call' = [call EXCEPT ![c] = r] /\ dead' \in BOOLEAN
    BY <1>u, <2>1, StepFacts
  <2> QED
    BY <1>0, <1>u, <2>1, <2>2, <2>3, PlainStep
<1>2. CASE ClearPtr(c)
  <2> DEFINE r == [call[c] EXCEPT !.pc = "clearLen"]
             q == [cred EXCEPT !.ptr = NoToken]
  <2>1. Step(c, "answered", r) /\ cred' = q
    BY <1>2 DEF ClearPtr
  <2>2. CallOK(c) /\ CredOK /\ dead' \in BOOLEAN /\ call[c].pc = "answered" /\ call' = [call EXCEPT ![c] = r]
    BY <1>u, <2>1, StepFacts
  <2>3. StageOK("clearLen") /\ cred.mu # c
    BY <1>0, <2>2 DEF CallOK, StageOK, Stages, Over
  <2>4. RecOK(r) /\ r.pc = "clearLen"
    BY <1>0, <2>2, <2>3, MovedRec
  <2>5. q = [ptr |-> NoToken, len |-> cred.len, mu |-> cred.mu] /\ cred.len \in BOOLEAN
    BY <2>2 DEF CredOK
  <2> HIDE DEF r, q
  <2>6. /\ q = [ptr |-> q.ptr, len |-> q.len, mu |-> q.mu] /\ q.len \in BOOLEAN /\ TokenInv(q.ptr)
        /\ q.mu = cred.mu /\ (q.mu = c <=> r.pc \in Locked) /\ r.pc # "handler"
    BY <1>0, <2>3, <2>4, <2>5, NoTokenInv
  <2> QED
    BY <1>u, <2>1, <2>2, <2>4, <2>6, CredStep
<1>3. CASE ClearLen(c)
  <2> DEFINE r == Returned(c)
             q == [cred EXCEPT !.len = FALSE]
  <2>1. Step(c, "clearLen", r) /\ cred' = q
    BY <1>3 DEF ClearLen
  <2>2. RecOK(r) /\ r.pc = "idle"
    BY ReturnedRec
  <2>3. CallOK(c) /\ CredOK /\ dead' \in BOOLEAN /\ call[c].pc = "clearLen" /\ call' = [call EXCEPT ![c] = r]
    BY <1>u, <2>1, StepFacts
  <2>4. q = [ptr |-> cred.ptr, len |-> FALSE, mu |-> cred.mu] /\ TokenInv(cred.ptr) /\ cred.mu # c
    <3>1. PICK b : b = FALSE
      OBVIOUS
    <3>2. [cred EXCEPT !.len = b] = [ptr |-> cred.ptr, len |-> b, mu |-> cred.mu]
      BY <2>3 DEF CredOK
    <3>3. q = [ptr |-> cred.ptr, len |-> FALSE, mu |-> cred.mu]
      BY <3>1, <3>2, Zenon
    <3>4. TokenInv(cred.ptr) /\ cred.mu # c
      BY <1>0, <2>3 DEF CredOK, CallOK
    <3> QED
      BY <3>3, <3>4, Zenon
  <2> HIDE DEF r, q
  <2>5. /\ q = [ptr |-> q.ptr, len |-> q.len, mu |-> q.mu] /\ q.len \in BOOLEAN /\ TokenInv(q.ptr)
        /\ q.mu = cred.mu /\ (q.mu = c <=> r.pc \in Locked) /\ r.pc # "handler"
    BY <1>0, <2>2, <2>4
  <2> QED
    BY <1>u, <2>1, <2>2, <2>3, <2>5, CredStep
<1> QED
  BY <1>1, <1>2, <1>3

----------------------------------------------------------------------------
(* The steps of the server. *)

\* A step of the server that leaves ss.mu, the gRPC server's end and Stop alone.
LEMMA LifeStep ==
    ASSUME Inv, UNCHANGED <<clientVars, faults>>, srv' \in Srvs, run' \in Runs, run'.stop = run.stop,
           run'.serve = "failed" <=> run.serve = "failed",
           srv'.answerersClosed = srv.answerersClosed,
           srv'.answerers = "running" => srv.answerers = "running" \/ ~srv.answerersClosed,
           srv'.mu = srv.mu, srv'.epoch = srv.epoch, srv.grpc = "stopped" => srv'.grpc = "stopped"
    PROVE  Inv'
<1>1. ServerOK'
  BY DEF Inv, ServerOK, clientVars, Unanswered
<1> QED
  BY <1>1, ServerStep DEF clientVars

\* A state of the server that differs in none of what Stop depends on.
Kept(s) ==
    /\ s \in Srvs /\ s.mu = srv.mu /\ s.epoch = srv.epoch /\ s.grpc = srv.grpc
    /\ s.answerers = srv.answerers /\ s.answerersClosed = srv.answerersClosed

\* NewServer, and the services the program adds.
LEMMA NewServerInv ==
    ASSUME Inv, NewServer \/ RegisterServiceServer
    PROVE  Inv'
<1>0. srv \in Srvs /\ run \in Runs
  BY DEF Inv, ServerOK
<1>1. CASE NewServer
  <2>0. UNCHANGED <<run, clientVars, faults>>
    BY <1>1 DEF NewServer
  <2>1. PICK b : b = MDNS(opt)
    OBVIOUS
  <2>s. PICK s : s = Services(opt) /\ s \subseteq {"auth", "externalAuth", "signaling", "user"}
    BY DEF Services
  <2>2. b \in BOOLEAN
    BY <2>1 DEF MDNS
  <2>3. \/ srv' = [srv EXCEPT !.made = "failed"]
        \/ srv' = [srv EXCEPT !.made = "failed", !.listener = "open"]
        \/ \E x \in {"none", "open", "closed"} :
             srv' = [srv EXCEPT !.made = "yes", !.listener = "open", !.signaling = x, !.mdns = b, !.services = s]
    <3>1. PICK x : x = IF SignalsInternally(opt) THEN "open" ELSE srv.signaling
      OBVIOUS
    <3>2. x \in {"none", "open", "closed"}
      BY <1>0, <3>1 DEF Srvs, Kept
    <3> QED
      BY <1>1, <2>1, <2>s, <3>1, <3>2 DEF NewServer
  <2>4. Kept(srv')
    <3>1. CASE srv' = [srv EXCEPT !.made = "failed"]
      BY <1>0, <3>1 DEF Srvs, Kept
    <3>2. CASE srv' = [srv EXCEPT !.made = "failed", !.listener = "open"]
      BY <1>0, <3>2 DEF Srvs, Kept
    <3>3. ASSUME NEW x \in {"none", "open", "closed"},
                 srv' = [srv EXCEPT !.made = "yes", !.listener = "open", !.signaling = x, !.mdns = b, !.services = s]
          PROVE  Kept(srv')
      <4>1. PICK s1 : s1 = [srv EXCEPT !.made = "yes", !.listener = "open"]
        OBVIOUS
      <4>2. Kept(s1)
        BY <1>0, <4>1 DEF Srvs, Kept
      <4>3. PICK s2 : s2 = [s1 EXCEPT !.signaling = x]
        OBVIOUS
      <4>4. Kept(s2)
        BY <3>3, <4>2, <4>3 DEF Srvs, Kept
      <4>5. PICK s3 : s3 = [s2 EXCEPT !.mdns = b]
        OBVIOUS
      <4>6. Kept(s3)
        BY <2>2, <4>4, <4>5 DEF Srvs, Kept
      <4>7. srv' = [s3 EXCEPT !.services = s]
        BY <3>3, <4>1, <4>3, <4>5
      <4> QED
        BY <2>s, <4>6, <4>7 DEF Srvs, Kept
    <3> QED
      BY <1>0, <2>3, <3>1, <3>2, <3>3
  <2> QED
    BY <1>0, <2>0, <2>4, LifeStep DEF Kept
<1>2. CASE RegisterServiceServer
  <2>1. Kept(srv')
    BY <1>0, <1>2 DEF RegisterServiceServer, Srvs, Kept
  <2> QED
    BY <1>0, <1>2, <2>1, LifeStep DEF RegisterServiceServer, Kept
<1> QED
  BY <1>1, <1>2

\* serveTLS, which may fail while it holds ss.mu.
LEMMA ServeTLSInv ==
    ASSUME Inv, ServeTLS
    PROVE  Inv'
<1>0. srv \in Srvs /\ run \in Runs /\ srv.mu = Nobody /\ run.serve = "idle" /\ UNCHANGED clientVars
  BY DEF Inv, ServerOK, ServeTLS
<1>1. CASE run' = [run EXCEPT !.serve = "returned"] /\ UNCHANGED <<srv, faults>>
  BY <1>0, <1>1, LifeStep DEF Runs, Inv, ServerOK
<1>2. ASSUME NEW b \in BOOLEAN, srv' = [srv EXCEPT !.httpGo = "ready", !.secure = b],
             run' = [run EXCEPT !.serve = "start"], UNCHANGED faults
      PROVE  Inv'
  <2>1. PICK s1 : s1 = [srv EXCEPT !.httpGo = "ready"]
    OBVIOUS
  <2>2. Kept(s1)
    BY <1>0, <2>1 DEF Srvs, Kept
  <2>3. srv' = [s1 EXCEPT !.secure = b]
    BY <1>2, <2>1
  <2>4. Kept(srv')
    BY <1>2, <2>2, <2>3 DEF Srvs, Kept
  <2> QED
    BY <1>0, <1>2, <2>4, LifeStep DEF Kept, Runs
<1>3. CASE Fault /\ srv' = [srv EXCEPT !.mu = "serve"] /\ run' = [run EXCEPT !.serve = "failed"]
  <2>1. /\ srv' \in Srvs /\ srv'.mu = "serve" /\ srv'.epoch = srv.epoch /\ srv'.grpc = srv.grpc
        /\ srv'.answerers = srv.answerers /\ srv'.answerersClosed = srv.answerersClosed
    BY <1>0, <1>3 DEF Srvs
  <2>2. run' \in Runs /\ run'.stop = run.stop /\ run'.serve = "failed"
    BY <1>0, <1>3 DEF Runs
  <2>3. faults' \in 0..MaxFaults /\ srv'.epoch \in 0..faults'
    BY <1>3, <2>1, CallsAssumption DEF Inv, ServerOK, Fault
  <2>4. run.stop \notin Stopping
    BY <1>0 DEF Inv, ServerOK, Nobody
  <2>5. ServerOK'
    BY <1>0, <2>1, <2>2, <2>3, <2>4 DEF Inv, ServerOK, clientVars
  <2> QED
    BY <1>0, <2>5, ServerStep DEF clientVars
<1> QED
  BY <1>1, <1>2, <1>3 DEF ServeTLS

\* Start.
LEMMA ServeInv ==
    ASSUME Inv, Start \/ StartAnswerers
    PROVE  Inv'
<1>0. srv \in Srvs /\ run \in Runs
  BY DEF Inv, ServerOK
<1>1. UNCHANGED <<clientVars, faults>> /\ run.serve \in {"start", "answerers"}
  BY DEF Start, StartAnswerers
<1>2. \/ run' = [run EXCEPT !.serve = "returned"]
      \/ run' = [run EXCEPT !.serve = "answerers"]
  BY DEF Start, StartAnswerers
<1>3. run' \in Runs /\ run'.stop = run.stop /\ run'.serve # "failed"
  BY <1>0, <1>2 DEF Runs
<1>4. \/ srv' = srv
      \/ srv' = [srv EXCEPT !.grpcGo = "ready"]
      \/ srv' = [srv EXCEPT !.answerers = srv.answerers]
      \/ srv' = [srv EXCEPT !.answerers = "exiting"]
      \/ srv' = [srv EXCEPT !.answerers = "running"] /\ ~srv.answerersClosed
  BY DEF Start, StartAnswerers
<1>5. /\ srv' \in Srvs /\ srv'.mu = srv.mu /\ srv'.epoch = srv.epoch /\ srv'.grpc = srv.grpc
      /\ srv'.answerersClosed = srv.answerersClosed
      /\ srv'.answerers = "running" => srv.answerers = "running" \/ ~srv.answerersClosed
  <2>1. CASE srv' = srv \/ srv' = [srv EXCEPT !.grpcGo = "ready"]
    BY <1>0, <2>1 DEF Srvs
  <2>2. CASE srv' = [srv EXCEPT !.answerers = srv.answerers] \/ srv' = [srv EXCEPT !.answerers = "exiting"]
    BY <1>0, <2>2 DEF Srvs
  <2>3. CASE srv' = [srv EXCEPT !.answerers = "running"] /\ ~srv.answerersClosed
    BY <1>0, <2>3 DEF Srvs
  <2> QED
    BY <1>4, <2>1, <2>2, <2>3
<1> QED
  BY <1>1, <1>3, <1>5, LifeStep

\* The HTTP, gRPC and answerer goroutines.
LEMMA GoroutinesInv ==
    ASSUME Inv, Goroutines
    PROVE  Inv'
<1>0. srv \in Srvs /\ run \in Runs
  BY DEF Inv, ServerOK
<1>1. UNCHANGED <<run, clientVars, faults>>
  BY DEF Goroutines, HTTPServe, HTTPDone, GRPCServe, AnswererExits
<1>2. \/ srv' = [srv EXCEPT !.httpGo = "done"]
      \/ srv' = [srv EXCEPT !.httpGo = "running", !.http = "serving"]
      \/ srv' = [srv EXCEPT !.grpcGo = "done", !.listener = "closed"]
      \/ srv' = [srv EXCEPT !.grpcGo = "running", !.grpc = "serving"] /\ srv.grpc # "stopped"
      \/ srv' = [srv EXCEPT !.answerers = "done"]
  BY DEF Goroutines, HTTPServe, HTTPDone, GRPCServe, AnswererExits
<1> DEFINE G == /\ srv' \in Srvs /\ srv'.mu = srv.mu /\ srv'.epoch = srv.epoch
                /\ srv.grpc = "stopped" => srv'.grpc = "stopped"
                /\ srv'.answerersClosed = srv.answerersClosed
                /\ srv'.answerers = "running" => srv.answerers = "running"
<1>3. G
  <2>1. CASE srv' = [srv EXCEPT !.httpGo = "done"] \/ srv' = [srv EXCEPT !.answerers = "done"]
    BY <1>0, <2>1 DEF Srvs
  <2>2. CASE srv' = [srv EXCEPT !.httpGo = "running", !.http = "serving"]
    BY <1>0, <2>2 DEF Srvs
  <2>3. CASE srv' = [srv EXCEPT !.grpcGo = "done", !.listener = "closed"]
    BY <1>0, <2>3 DEF Srvs
  <2>4. CASE srv' = [srv EXCEPT !.grpcGo = "running", !.grpc = "serving"] /\ srv.grpc # "stopped"
    BY <1>0, <2>4 DEF Srvs
  <2> QED
    BY <1>2, <2>1, <2>2, <2>3, <2>4
<1> QED
  BY <1>0, <1>1, <1>3, LifeStep

\* Stop up to the moment it waits for the requests.
LEMMA StopInv ==
    ASSUME Inv, Stop \/ StopServices \/ StopWebRTC \/ Shutdown
    PROVE  Inv'
<1>0. /\ srv \in Srvs /\ run \in Runs /\ (srv.mu = "stop" <=> run.stop \in Stopping)
      /\ (srv.mu = "serve" <=> run.serve = "failed") /\ (run.stop # "idle" => srv.answerersClosed)
      /\ run.stop \in Unanswered => srv.answerers # "running"
  BY DEF Inv, ServerOK
<1>u. UNCHANGED <<clientVars, faults>>
  BY DEF Stop, StopServices, StopWebRTC, Shutdown
<1>1. PICK p \in Stopping : /\ run' = [run EXCEPT !.stop = p]
                            /\ p \in Unanswered => srv.answerers # "running"
  BY <1>0 DEF Stop, StopServices, StopWebRTC, Shutdown, Stopping, Unanswered
<1>2. run' \in Runs /\ run'.stop = p /\ run'.serve = run.serve
  BY <1>0, <1>1 DEF Runs, Stopping
<1>3. /\ srv' \in Srvs /\ srv'.mu = "stop" /\ srv'.epoch = srv.epoch
      /\ srv'.answerersClosed /\ srv'.answerers = srv.answerers /\ run.serve # "failed"
  <2>1. CASE Stop
    <3>1. PICK b : b = TRUE
      OBVIOUS
    <3>2. srv' = [srv EXCEPT !.stopped = b, !.mu = "stop", !.answerersClosed = b] /\ srv.mu = Nobody
      BY <2>1, <3>1 DEF Stop
    <3>3. PICK s1 : s1 = [srv EXCEPT !.mu = "stop"]
      OBVIOUS
    <3>4. s1 \in Srvs /\ s1.mu = "stop" /\ s1.epoch = srv.epoch /\ s1.answerers = srv.answerers
      BY <1>0, <3>3 DEF Srvs
    <3>5. PICK s2 : s2 = [s1 EXCEPT !.stopped = b]
      OBVIOUS
    <3>6. s2 \in Srvs /\ s2.mu = "stop" /\ s2.epoch = srv.epoch /\ s2.answerers = srv.answerers
      BY <3>1, <3>4, <3>5 DEF Srvs
    <3>7. srv' = [s2 EXCEPT !.answerersClosed = b]
      BY <3>2, <3>3, <3>5
    <3>8. srv' \in Srvs /\ srv'.mu = "stop" /\ srv'.epoch = srv.epoch /\ srv'.answerers = srv.answerers
      BY <3>1, <3>6, <3>7 DEF Srvs
    <3>9. srv'.answerersClosed = b
      BY <3>6, <3>7 DEF Srvs
    <3>10. run.serve # "failed"
      BY <1>0, <3>2 DEF Nobody
    <3> QED
      BY <3>1, <3>8, <3>9, <3>10
  <2>2. CASE StopServices
    <3>1. PICK x, z : x = (IF srv.signaling = "open" THEN "closed" ELSE srv.signaling) /\ z = srv.services
      OBVIOUS
    <3>2. srv' = [srv EXCEPT !.signaling = x, !.canceled = z] /\ run.stop = "answerers"
      BY <2>2, <3>1 DEF StopServices
    <3>3. srv.mu = "stop" /\ x \in {"none", "open", "closed"} /\ srv.answerersClosed /\ run.serve # "failed"
      BY <1>0, <3>1, <3>2 DEF Srvs, Stopping
    <3>4. PICK s1 : s1 = [srv EXCEPT !.signaling = x]
      OBVIOUS
    <3>5. Kept(s1)
      <4>1. x \in {"none", "open", "closed"}
        BY <3>3
      <4> QED
        BY <1>0, <3>4, <4>1 DEF Srvs, Kept
    <3>6. z \in SUBSET {"auth", "externalAuth", "signaling", "user"}
      BY <1>0, <3>1 DEF Srvs
    <3>7. srv' = [s1 EXCEPT !.canceled = z]
      BY <3>2, <3>4
    <3>8. Kept(srv')
      BY <3>5, <3>6, <3>7 DEF Srvs, Kept
    <3> QED
      BY <3>3, <3>8 DEF Kept
  <2>3. CASE StopWebRTC
    <3>1. PICK b : b = FALSE
      OBVIOUS
    <3>2. srv' = [srv EXCEPT !.mdns = b] /\ run.stop = "webrtc"
      BY <2>3, <3>1 DEF StopWebRTC
    <3>3. srv.mu = "stop" /\ srv.answerersClosed /\ run.serve # "failed"
      BY <1>0, <3>2 DEF Stopping
    <3>4. Kept(srv')
      BY <1>0, <3>1, <3>2 DEF Srvs, Kept
    <3> QED
      BY <3>3, <3>4 DEF Kept
  <2>4. CASE Shutdown
    <3>1. srv' = [srv EXCEPT !.http = "shut"] /\ run.stop = "shutdown"
      BY <2>4 DEF Shutdown
    <3>2. srv.mu = "stop" /\ srv.answerersClosed /\ run.serve # "failed"
      BY <1>0, <3>1 DEF Stopping
    <3>3. Kept(srv')
      BY <1>0, <3>1 DEF Srvs, Kept
    <3> QED
      BY <3>2, <3>3 DEF Kept
  <2> QED
    BY <2>1, <2>2, <2>3, <2>4
<1>4. ServerOK'
  BY <1>u, <1>1, <1>2, <1>3 DEF Inv, ServerOK, clientVars, Stopping
<1> QED
  BY <1>u, <1>4, ServerStep DEF clientVars

\* The calls at the server are cut, the others go on.
LEMMA CutInv ==
    ASSUME Inv, UNCHANGED <<setup, cred, dead>>, ServerOK',
           call' = [c \in Calls |-> IF AtServer(c) THEN Answered("Unavailable") ELSE call[c]]
    PROVE  Inv'
<1>0. CredOK'
  <2>1. TokenInv(cred.ptr)'
    BY CredTokenKept DEF Inv, CredOK
  <2> QED
    BY <2>1 DEF Inv, CredOK
<1>1. ASSUME NEW c \in Calls, AtServer(c) PROVE CallOK(c)'
  <2>p. PICK r : r = Answered("Unavailable")
    OBVIOUS
  <2>1. call'[c] = r /\ RecOK(r) /\ r.pc = "answered" /\ "answered" \notin Locked
    BY <1>1, <2>p, AnsweredRec DEF Locked
  <2>2. cred'.mu # c
    BY <1>1 DEF Inv, CallOK, AtServer, Locked
  <2>3. TokenInv(call[c].tok)'
    BY <2>1, CallTokenKept DEF RecOK
  <2>4. StageOK(call[c].pc)'
    BY <2>1, StageKept DEF RecOK
  <2> QED
    BY <2>1, <2>2, <2>3, <2>4 DEF CallOK, RecOK
<1>2. ASSUME NEW c \in Calls, ~AtServer(c) PROVE CallOK(c)'
  BY <1>2, CallKept DEF Inv
<1>3. call' = [c \in Calls |-> call'[c]]
  OBVIOUS
<1> QED
  BY <1>0, <1>1, <1>2, <1>3 DEF Inv

\* The end of Stop.
LEMMA StopGRPCInv ==
    ASSUME Inv, StopGRPC
    PROVE  Inv'
<1>0. /\ srv \in Srvs /\ run \in Runs /\ run.stop = "drain" /\ srv.mu = "stop" /\ run.serve # "failed"
      /\ srv.answerersClosed /\ srv.answerers # "running"
  BY DEF Inv, ServerOK, StopGRPC, Stopping, Unanswered
<1>1. PICK x, y : /\ x \in {"closed", srv.listener} /\ y \in {"done", srv.grpcGo}
                  /\ srv' = [srv EXCEPT !.grpc = "stopped", !.mu = Nobody, !.listener = x, !.grpcGo = y]
  BY DEF StopGRPC
<1>2. /\ srv' \in Srvs /\ srv'.mu = Nobody /\ srv'.epoch = srv.epoch /\ srv'.grpc = "stopped"
      /\ srv'.answerersClosed = srv.answerersClosed /\ srv'.answerers = srv.answerers
  <2> DEFINE G(z) == /\ z \in Srvs /\ z.mu = Nobody /\ z.epoch = srv.epoch /\ z.grpc = "stopped"
                     /\ z.answerersClosed = srv.answerersClosed /\ z.answerers = srv.answerers
  <2>1. PICK s1 : s1 = [srv EXCEPT !.grpc = "stopped", !.mu = Nobody]
    OBVIOUS
  <2>2. G(s1)
    BY <1>0, <2>1 DEF Srvs
  <2>3. srv' = [s1 EXCEPT !.listener = x, !.grpcGo = y]
    BY <1>1, <2>1
  <2>4. x \in {"none", "open", "closed"} /\ y \in {"none", "ready", "running", "done"}
    BY <1>0, <1>1 DEF Srvs
  <2> QED
    BY <2>2, <2>3, <2>4 DEF Srvs
<1>3. run' \in Runs /\ run'.stop = "returned" /\ run'.serve = run.serve
  BY <1>0 DEF Runs, StopGRPC
<1>4. ServerOK'
  BY <1>0, <1>2, <1>3 DEF Inv, ServerOK, StopGRPC, Nobody, Stopping
<1> QED
  BY <1>4, CutInv DEF StopGRPC

\* A new server.
LEMMA RestartInv ==
    ASSUME Inv, Restart
    PROVE  Inv'
<1>0. srv.epoch \in Nat /\ srv.epoch + 1 \in Nat
  BY DEF Inv, ServerOK, Srvs
<1>1. /\ srv' \in Srvs /\ srv'.epoch = srv.epoch + 1 /\ srv'.mu = Nobody /\ run' \in Runs
      /\ run'.stop = "idle" /\ run'.serve = "idle"
  BY <1>0 DEF Restart, NewSrv, NewRun, Srvs, Runs
<1>2. faults' \in 0..MaxFaults /\ srv.epoch + 1 \in 0..faults'
  BY CallsAssumption DEF Inv, ServerOK, Restart, Fault
<1>3. ServerOK'
  BY <1>1, <1>2 DEF Inv, ServerOK, Restart, Nobody, Stopping, Unanswered
<1> QED
  BY <1>3, CutInv DEF Restart

----------------------------------------------------------------------------
(* The theorems. *)

\* Initially nothing runs and no token is held.
LEMMA InitInv ==
    ASSUME Init
    PROVE  Inv
<1>1. /\ srv \in Srvs /\ srv.epoch = 0 /\ srv.mu = Nobody /\ run \in Runs
      /\ run.stop = "idle" /\ run.serve = "idle"
  BY DEF Init, NewSrv, NewRun, Srvs, Runs
<1>2. ServerOK
  <2>1. dead \in BOOLEAN
    BY Zenon DEF Init
  <2>2. faults \in 0..MaxFaults /\ srv.epoch \in 0..faults
    BY <1>1, CallsAssumption DEF Init
  <2> QED
    BY <1>1, <2>1, <2>2 DEF ServerOK, Nobody, Stopping, Unanswered
<1>3. CredOK
  <2>1. PICK b : b = FALSE
    OBVIOUS
  <2>2. cred = [ptr |-> NoToken, len |-> b, mu |-> Nobody]
    BY <2>1, Zenon DEF Init
  <2> QED
    BY <2>1, <2>2, NoTokenInv DEF CredOK
<1>4. ASSUME NEW c \in Calls PROVE CallOK(c)
  <2>1. call[c] = [pc |-> "idle", tok |-> NoToken, code |-> "none", entity |-> Anonymous]
    BY <1>4 DEF Init, NewCall
  <2>2. cred.mu # c
    BY <1>4, CallsAssumption DEF Init, Nobody
  <2> QED
    BY <2>1, <2>2, NoTokenInv DEF CallOK, StageOK, Stages, Over, Locked
<1> QED
  BY <1>2, <1>3, <1>4 DEF Init, Inv

\* Every step preserves the invariant.
LEMMA NextInv ==
    ASSUME Inv, [Next]_vars
    PROVE  Inv'
<1>1. CASE NewServer \/ RegisterServiceServer
  BY <1>1, NewServerInv
<1>2. CASE ServeNext
  BY <1>2, ServeTLSInv, ServeInv DEF ServeNext
<1>3. CASE Stop \/ StopServices \/ StopWebRTC \/ Shutdown
  BY <1>3, StopInv
<1>4. CASE StopGRPC
  BY <1>4, StopGRPCInv
<1>5. CASE Goroutines
  BY <1>5, GoroutinesInv
<1>6. CASE Restart
  BY <1>6, RestartInv
<1>7. ASSUME NEW c \in Calls, CallNext(c) \/ AuthenticateFails(c) PROVE Inv'
  <2>1. CASE Invoke(c)
    BY <2>1, InvokeInv
  <2>2. CASE StaticMetadata(c) \/ GetRequestMetadata(c)
    BY <2>2, MetadataInv
  <2>3. CASE AuthenticateLocks(c)
    BY <2>3, LocksInv
  <2>4. CASE AuthenticateCall(c)
    BY <2>4, AuthenticateInv
  <2>5. CASE AuthenticateToCall(c)
    BY <2>5, AuthenticateToInv
  <2>6. CASE AuthenticateFails(c)
    BY <2>6, AuthenticateFailsInv
  <2>7. CASE StorePtr(c) \/ StoreLen(c)
    BY <2>7, StoreInv
  <2>8. CASE Send(c)
    BY <2>8, SendInv
  <2>9. CASE Intercept(c)
    BY <2>9, InterceptInv
  <2>10. CASE HandlerReturns(c) \/ Connect(c)
    BY <2>10, HandlerInv
  <2>11. CASE Return(c) \/ ClearPtr(c) \/ ClearLen(c)
    BY <2>11, ReturnInv
  <2> QED
    BY <1>7, <2>1, <2>2, <2>3, <2>4, <2>5, <2>6, <2>7, <2>8, <2>9, <2>10, <2>11 DEF CallNext
<1>8. ASSUME NEW c \in Calls, ChannelNext(c) PROVE Inv'
  <2>1. UNCHANGED channelVars
    BY <1>8 DEF ChannelNext, ConnectExternally, ChannelRequest, ChannelReturns, ChannelCloses, Channel
  <2> QED
    BY <2>1, ServerStep DEF channelVars, serverVars, Inv, ServerOK
<1>9. CASE UNCHANGED vars
  BY <1>9, ServerStep DEF vars, Inv, ServerOK
<1> QED
  BY <1>1, <1>2, <1>3, <1>4, <1>5, <1>6, <1>7, <1>8, <1>9 DEF Next, StopNext

\* The invariant of server, credentials and calls.
THEOREM AccessInvariant == Spec => []Inv
<1>1. Init => Inv
  BY InitInv
<1>2. Inv /\ [Next]_vars => Inv'
  BY NextInv
<1> QED
  BY <1>1, <1>2, PTL DEF Spec

\* A channel is one of a client that was let in, and there is none once Stop is
\* past the WebRTC server.
ChanOK(c) ==
    /\ chan[c] = [pc |-> chan[c].pc, external |-> chan[c].external, entity |-> chan[c].entity, tok |-> chan[c].tok]
    /\ (chan[c].pc # "none" /\ ~chan[c].external) =>
         opt.unauthenticated \/ (chan[c].entity # Anonymous /\ Proved(chan[c].entity, chan[c].tok))
    /\ run.stop \in {"shutdown", "drain", "returned"} => chan[c].pc = "none"

ChanInv == chan = [c \in Calls |-> chan[c]] /\ \A c \in Calls : ChanOK(c)

\* Which steps there are for the channels.
LEMMA StepOfTheChannels ==
    ASSUME [Next]_vars
    PROVE  \/ chan' = chan
           \/ \E d \in Calls : Connect(d) \/ ChannelNext(d)
           \/ StopWebRTC
           \/ Restart
<1>1. CASE \/ NewServer \/ RegisterServiceServer \/ ServeNext \/ Stop \/ StopServices \/ Shutdown \/ StopGRPC
           \/ Goroutines \/ UNCHANGED vars
  BY <1>1 DEF NewServer, RegisterServiceServer, ServeNext, ServeTLS, Start, StartAnswerers, Stop, StopServices,
              Shutdown, StopGRPC, Goroutines, HTTPServe, HTTPDone, GRPCServe, AnswererExits, vars
<1>2. ASSUME NEW d \in Calls, CallNext(d) \/ AuthenticateFails(d), ~Connect(d) PROVE chan' = chan
  BY <1>2 DEF CallNext, Invoke, StaticMetadata, GetRequestMetadata, AuthenticateLocks, AuthenticateCall,
              AuthenticateToCall, AuthenticateFails, StorePtr, StoreLen, Send, Intercept, HandlerReturns, Return,
              ClearPtr, ClearLen
<1> QED
  BY <1>1, <1>2 DEF Next, StopNext

\* What proves an entity does not change.
LEMMA ProvedKept ==
    ASSUME setup' = setup, NEW w, NEW t, Proved(w, t)
    PROVE  Proved(w, t)'
  BY Same DEF Proved

\* Whom the interceptors let in has proved who it is.
LEMMA ServedProved ==
    ASSUME NEW c, Served(c), TokenInv(call[c].tok), call[c].entity # Anonymous
    PROVE  Proved(call[c].entity, call[c].tok)
<1>1. CASE /\ call[c].tok = NoToken
           /\ call[c].entity = conf.cert /\ conf.cert \in UNION opt.tlsAuth
  BY <1>1 DEF Proved
<1>2. CASE /\ call[c].tok # NoToken /\ call[c].entity = call[c].tok.sub
           /\ call[c].tok.aud \cap Audience(opt) # {}
  <2>1. OwnerToken(call[c].tok)
    BY <1>2 DEF TokenInv
  <2> QED
    BY <1>2, <2>1 DEF Proved, OwnerToken
<1> QED
  BY <1>1, <1>2 DEF Served

\* A channel a step leaves alone, while Stop does not get past the WebRTC server.
LEMMA ChanKept ==
    ASSUME setup' = setup, NEW c, chan'[c] = chan[c], ChanOK(c),
           run'.stop \in {"shutdown", "drain", "returned"} => run.stop \in {"shutdown", "drain", "returned"}
    PROVE  ChanOK(c)'
<1>1. opt' = opt
  BY Same
<1>2. Proved(chan[c].entity, chan[c].tok) => Proved(chan[c].entity, chan[c].tok)'
  <2>1. PICK w, t : w = chan[c].entity /\ t = chan[c].tok
    OBVIOUS
  <2>2. Proved(w, t) => (Proved(w, t))'
    BY ProvedKept
  <2> QED
    BY <2>1, <2>2, Same DEF Proved
<1> QED
  BY <1>1, <1>2 DEF ChanOK

\* A channel that is not there is in order.
LEMMA NoChannelOK ==
    ASSUME NEW c, chan'[c] = NoChannel
    PROVE  ChanOK(c)'
  BY DEF ChanOK, NoChannel

\* Stop gets past the WebRTC server by the step that closes the channels.
LEMMA PastWebRTC ==
    ASSUME Inv, [Next]_vars, ~StopWebRTC, run'.stop \in {"shutdown", "drain", "returned"}
    PROVE  run.stop \in {"shutdown", "drain", "returned"}
<1>0. run \in Runs
  BY DEF Inv, ServerOK
<1>1. CASE ServeNext
  <2>1. \E x : run' = [run EXCEPT !.serve = x]
    BY <1>1 DEF ServeNext, ServeTLS, Start, StartAnswerers
  <2> QED
    BY <1>0, <2>1 DEF Runs
<1>2. CASE Stop \/ StopServices
  <2>1. run' = [run EXCEPT !.stop = "answerers"] \/ run' = [run EXCEPT !.stop = "webrtc"]
    BY <1>2 DEF Stop, StopServices
  <2> QED
    BY <1>0, <2>1 DEF Runs
<1>3. CASE Shutdown \/ StopGRPC
  BY <1>3 DEF Shutdown, StopGRPC
<1>4. CASE Restart
  BY <1>4 DEF Restart, NewRun
<1>5. CASE NewServer \/ RegisterServiceServer \/ Goroutines \/ UNCHANGED vars
  BY <1>5 DEF NewServer, RegisterServiceServer, Goroutines, HTTPServe, HTTPDone, GRPCServe, AnswererExits, vars
<1>6. ASSUME NEW d \in Calls, CallNext(d) \/ AuthenticateFails(d) \/ ChannelNext(d) PROVE run' = run
  <2>1. CASE ChannelNext(d)
    BY <2>1 DEF ChannelNext, ConnectExternally, ChannelRequest, ChannelReturns, ChannelCloses, Channel, channelVars,
                serverVars
  <2>2. CASE CallNext(d) \/ AuthenticateFails(d)
    BY <2>2 DEF CallNext, Invoke, StaticMetadata, GetRequestMetadata, AuthenticateLocks, AuthenticateCall,
                AuthenticateToCall, AuthenticateFails, StorePtr, StoreLen, Send, Intercept, HandlerReturns, Connect,
                Return, ClearPtr, ClearLen, serverVars
  <2> QED
    BY <1>6, <2>1, <2>2
<1> QED
  BY <1>1, <1>2, <1>3, <1>4, <1>5, <1>6 DEF Next, StopNext

\* The options are the same in every step.
LEMMA SetupKept ==
    ASSUME [Next]_vars
    PROVE  setup' = setup
<1>1. CASE NewServer \/ RegisterServiceServer \/ ServeNext \/ Stop \/ StopNext \/ Goroutines \/ Restart \/ UNCHANGED vars
  BY <1>1 DEF NewServer, RegisterServiceServer, ServeNext, ServeTLS, Start, StartAnswerers, Stop, StopNext,
              StopServices, StopWebRTC, Shutdown, StopGRPC, Goroutines, HTTPServe, HTTPDone, GRPCServe, AnswererExits,
              Restart, vars, clientVars
<1>2. ASSUME NEW d \in Calls, ChannelNext(d) PROVE setup' = setup
  BY <1>2 DEF ChannelNext, ConnectExternally, ChannelRequest, ChannelReturns, ChannelCloses, Channel, channelVars
<1>3. ASSUME NEW d \in Calls, CallNext(d) \/ AuthenticateFails(d) PROVE setup' = setup
  BY <1>3 DEF CallNext, Invoke, StaticMetadata, GetRequestMetadata, AuthenticateLocks, AuthenticateCall,
              AuthenticateToCall, AuthenticateFails, StorePtr, StoreLen, Send, Intercept, HandlerReturns, Connect,
              Return, ClearPtr, ClearLen
<1> QED
  BY <1>1, <1>2, <1>3 DEF Next

\* The channel of a step: open only while answerers take offers, or at work
\* before Stop gets to the WebRTC server.
LEMMA ChannelStep ==
    ASSUME Inv, ChanInv, NEW d \in Calls, Connect(d) \/ ChannelNext(d), setup' = setup
    PROVE  /\ chan' = [chan EXCEPT ![d] = chan'[d]]
           /\ ChanOK(d)'
           /\ chan[d].pc = "handler" => chan'[d].pc # "none"
<1>0. ChanOK(d) /\ opt' = opt /\ chan = [c \in Calls |-> chan[c]]
  BY Same DEF ChanInv
<1>r. run' = run
  BY DEF Connect, ChannelNext, ConnectExternally, ChannelRequest, ChannelReturns, ChannelCloses, Channel, channelVars,
         serverVars
<1>a. srv.answerers = "running" => run.stop \notin {"shutdown", "drain", "returned"}
  BY DEF Inv, ServerOK, Unanswered
<1>1. CASE Connect(d)
  <2>1. PICK w, t, b : w = call[d].entity /\ t = call[d].tok /\ b = FALSE
    OBVIOUS
  <2>2. chan' = [chan EXCEPT ![d] = [pc |-> "open", external |-> b, entity |-> w, tok |-> t]]
    BY <1>1, <2>1 DEF Connect
  <2>3. chan'[d] = [pc |-> "open", external |-> b, entity |-> w, tok |-> t]
    BY <1>0, <2>2
  <2>4. call[d].pc = "handler" /\ Methods[d] = "Call" /\ d \in Streams
    BY <1>1, CallsAssumption DEF Connect, Step
  <2>5. Served(d) /\ TokenInv(call[d].tok)
    BY <2>4 DEF Inv, CallOK
  <2>6. opt.unauthenticated \/ (w # Anonymous /\ Proved(w, t))
    <3>1. ASSUME w = Anonymous PROVE opt.unauthenticated
      <4>1. "Call" \notin ExemptMethods(opt)
        BY DEF ExemptMethods
      <4> QED
        BY <2>1, <2>4, <2>5, <3>1, <4>1 DEF Served
    <3> QED
      BY <2>1, <2>5, <3>1, ServedProved
  <2>7. Proved(w, t) => (Proved(w, t))'
    BY ProvedKept
  <2>8. chan'[d].pc = "open" /\ chan'[d].entity = w /\ chan'[d].tok = t
    BY <2>3
  <2>9. Proved(w, t) => Proved(chan[d].entity, chan[d].tok)'
    BY <2>7, <2>8, Same DEF Proved
  <2>10. ChanOK(d)'
    <3>1. chan'[d] = [pc |-> chan'[d].pc, external |-> chan'[d].external, entity |-> chan'[d].entity, tok |-> chan'[d].tok]
      BY <2>3
    <3>2. run'.stop \notin {"shutdown", "drain", "returned"}
      BY <1>1, <1>a, <1>r DEF Connect
    <3> QED
      BY <1>0, <2>6, <2>8, <2>9, <3>1, <3>2 DEF ChanOK
  <2> QED
    BY <2>2, <2>3, <2>8, <2>10
<1>2. CASE ConnectExternally(d)
  <2>1. PICK b : b = TRUE
    OBVIOUS
  <2>2. PICK f : f = FALSE
    OBVIOUS
  <2>3. PICK n : n = [pc |-> "none", external |-> f, entity |-> Anonymous, tok |-> NoToken]
    OBVIOUS
  <2>4. chan' = [chan EXCEPT ![d] = [n EXCEPT !.pc = "open", !.external = b]]
    BY <1>2, <2>1, <2>2, <2>3 DEF ConnectExternally, Channel, NoChannel
  <2>5. [n EXCEPT !.pc = "open", !.external = b] = [pc |-> "open", external |-> b, entity |-> Anonymous, tok |-> NoToken]
    <3>1. PICK m : m = [n EXCEPT !.pc = "open"]
      OBVIOUS
    <3>2. m = [pc |-> "open", external |-> f, entity |-> Anonymous, tok |-> NoToken]
      BY <2>3, <3>1
    <3>3. [m EXCEPT !.external = b] = [pc |-> "open", external |-> b, entity |-> Anonymous, tok |-> NoToken]
      BY <3>2
    <3> QED
      BY <3>1, <3>3
  <2>6. chan'[d] = [pc |-> "open", external |-> b, entity |-> Anonymous, tok |-> NoToken]
    BY <1>0, <2>4, <2>5
  <2>7. run'.stop \notin {"shutdown", "drain", "returned"}
    BY <1>2, <1>a, <1>r DEF ConnectExternally
  <2>8. chan'[d].pc = "open" /\ chan'[d].external = b
    BY <2>6
  <2>9. ChanOK(d)'
    BY <2>1, <2>6, <2>7, <2>8 DEF ChanOK
  <2> QED
    BY <2>4, <2>5, <2>6, <2>8, <2>9
<1>3. ASSUME NEW p \in {"open", "handler"}, chan' = [chan EXCEPT ![d] = [chan[d] EXCEPT !.pc = p]],
             run.stop \notin {"shutdown", "drain", "returned"}, chan[d].pc # "none"
      PROVE  /\ chan' = [chan EXCEPT ![d] = chan'[d]]
             /\ ChanOK(d)'
             /\ chan'[d].pc # "none"
  <2>1. PICK r : r = [chan[d] EXCEPT !.pc = p]
    OBVIOUS
  <2>2. r = [pc |-> p, external |-> chan[d].external, entity |-> chan[d].entity, tok |-> chan[d].tok]
    BY <1>0, <2>1 DEF ChanOK
  <2>3. chan'[d] = r /\ chan' = [chan EXCEPT ![d] = r]
    BY <1>0, <1>3, <2>1
  <2>4. /\ chan'[d].pc = p /\ chan'[d].external = chan[d].external /\ chan'[d].entity = chan[d].entity
        /\ chan'[d].tok = chan[d].tok
    BY <2>2, <2>3
  <2>5. Proved(chan[d].entity, chan[d].tok) => Proved(chan[d].entity, chan[d].tok)'
    <3>1. PICK w, t : w = chan[d].entity /\ t = chan[d].tok
      OBVIOUS
    <3>2. Proved(w, t) => (Proved(w, t))'
      BY ProvedKept
    <3> QED
      BY <2>4, <3>1, <3>2, Same DEF Proved
  <2>6. ChanOK(d)'
    <3>1. chan'[d] = [pc |-> chan'[d].pc, external |-> chan'[d].external, entity |-> chan'[d].entity, tok |-> chan'[d].tok]
      BY <2>2, <2>3, <2>4
    <3> QED
      BY <1>0, <1>3, <1>r, <2>4, <2>5, <3>1 DEF ChanOK
  <2> QED
    BY <1>3, <2>3, <2>4, <2>6
<1>4. CASE ChannelRequest(d)
  <2>1. chan' = [chan EXCEPT ![d] = [chan[d] EXCEPT !.pc = "handler"]] /\ chan[d].pc = "open"
    BY <1>4 DEF ChannelRequest, Channel
  <2>2. run.stop \notin {"shutdown", "drain", "returned"}
    BY <1>4 DEF ChannelRequest
  <2> QED
    BY <1>3, <2>1, <2>2
<1>5. CASE ChannelReturns(d)
  <2>1. chan' = [chan EXCEPT ![d] = [chan[d] EXCEPT !.pc = "open"]] /\ chan[d].pc = "handler"
    BY <1>5 DEF ChannelReturns, Channel
  <2>2. run.stop \notin {"shutdown", "drain", "returned"}
    BY <1>0, <2>1 DEF ChanOK
  <2> QED
    BY <1>3, <2>1, <2>2
<1>6. CASE ChannelCloses(d)
  <2>1. chan' = [chan EXCEPT ![d] = NoChannel] /\ chan[d].pc = "open"
    BY <1>6 DEF ChannelCloses, Channel
  <2>2. chan'[d] = NoChannel
    BY <1>0, <2>1
  <2> QED
    BY <2>1, <2>2, NoChannelOK
<1> QED
  BY <1>1, <1>2, <1>4, <1>5, <1>6 DEF ChannelNext

\* Every step preserves the order of the channels.
LEMMA ChanNext ==
    ASSUME Inv, ChanInv, [Next]_vars
    PROVE  ChanInv'
<1>0. setup' = setup
  BY SetupKept
<1>1. CASE StopWebRTC \/ Restart
  <2>1. chan' = [c \in Calls |-> NoChannel]
    BY <1>1 DEF StopWebRTC, Restart
  <2>2. \A c \in Calls : ChanOK(c)'
    BY <2>1, NoChannelOK
  <2> QED
    BY <2>1, <2>2 DEF ChanInv
<1>2. CASE ~StopWebRTC
  <2>1. run'.stop \in {"shutdown", "drain", "returned"} => run.stop \in {"shutdown", "drain", "returned"}
    BY <1>2, PastWebRTC
  <2>2. CASE chan' = chan
    BY <1>0, <2>1, <2>2, ChanKept DEF ChanInv
  <2>3. ASSUME NEW d \in Calls, Connect(d) \/ ChannelNext(d) PROVE ChanInv'
    <3>1. chan' = [chan EXCEPT ![d] = chan'[d]] /\ ChanOK(d)'
      BY <1>0, <2>3, ChannelStep
    <3>2. \A c \in Calls \ {d} : chan'[c] = chan[c]
      BY <3>1 DEF ChanInv
    <3>3. \A c \in Calls : ChanOK(c)'
      BY <1>0, <2>1, <3>1, <3>2, ChanKept DEF ChanInv
    <3> QED
      BY <3>1, <3>3 DEF ChanInv
  <2> QED
    BY <1>1, <1>2, <2>2, <2>3, StepOfTheChannels
<1> QED
  BY <1>1, <1>2

\* The invariant of the channels.
THEOREM ChannelInvariant == Spec => []ChanInv
<1>1. ASSUME Init PROVE ChanInv
  <2>1. chan = [c \in Calls |-> NoChannel]
    BY <1>1 DEF Init
  <2>2. NoChannel.pc = "none"
    BY DEF NoChannel
  <2>3. NoChannel = [pc |-> NoChannel.pc, external |-> NoChannel.external, entity |-> NoChannel.entity,
                     tok |-> NoChannel.tok]
    BY DEF NoChannel
  <2>4. ASSUME NEW c \in Calls PROVE ChanOK(c)
    <3>1. chan[c] = NoChannel
      BY <2>1
    <3> QED
      BY <2>2, <2>3, <3>1 DEF ChanOK
  <2> QED
    BY <2>1, <2>4 DEF ChanInv
<1>2. Inv /\ ChanInv /\ [Next]_vars => ChanInv'
  BY ChanNext
<1> QED
  BY <1>1, <1>2, AccessInvariant, PTL DEF Spec

\* Whatever the options of server and connection, a handler runs as an entity,
\* for a request over HTTP or gRPC, only for the client that proved to be it to
\* this server, and without one only where the server lets it: the access
\* token, whoever of the connection's calls obtained, cached, cleared or sent
\* it, is its owner's.  A WebRTC channel that was signaled by the server itself
\* is one of a client that proved who it is in the same way.
THEOREM OnlyOwnersAreServed == Spec => []AccessInv
<1>1. Inv /\ ChanInv => AccessInv
  <2> SUFFICES ASSUME Inv, ChanInv PROVE AccessInv
    OBVIOUS
  <2>0. \A c \in Calls : CallOK(c)
    BY DEF Inv
  <2>1. TypeOK
    <3>1. ASSUME NEW c \in Calls
          PROVE  TokenOK(call[c].tok) /\ (cred.mu = c <=> call[c].pc \in Locked)
      BY <2>0, <3>1 DEF CallOK, TokenInv
    <3>2. TokenOK(cred.ptr) /\ cred.len \in BOOLEAN /\ cred.mu \in Calls \cup {Nobody}
      BY DEF Inv, CredOK, TokenInv
    <3>3. /\ srv.mu \in {Nobody, "stop", "serve"} /\ (srv.mu = "stop" <=> run.stop \in Stopping)
          /\ (srv.mu = "serve" <=> run.serve = "failed")
          /\ dead \in BOOLEAN /\ faults \in 0..MaxFaults /\ srv.epoch \in 0..faults
      BY DEF Inv, ServerOK, Srvs
    <3> QED
      BY <3>1, <3>2, <3>3 DEF TypeOK, Locked, Stopping
  <2>2. RunsAsItsOwner
    <3> SUFFICES ASSUME NEW c \in Calls, call[c].pc = "handler", call[c].entity # Anonymous
                 PROVE  Proved(call[c].entity, call[c].tok)
      BY DEF RunsAsItsOwner
    <3>1. Served(c) /\ TokenInv(call[c].tok)
      BY <2>0 DEF CallOK
    <3> QED
      BY <3>1, ServedProved
  <2>3. NeverAnonymous
    BY <2>0 DEF NeverAnonymous, CallOK, Served
  <2>4. ChannelsLetIn
    BY DEF ChannelsLetIn, ChanInv, ChanOK
  <2> QED
    BY <2>1, <2>2, <2>3, <2>4 DEF AccessInv
<1> QED
  BY <1>1, AccessInvariant, ChannelInvariant, PTL

\* The stage and the code of the records a call's steps write.
LEMMA RecFields ==
    ASSUME NEW c, CallOK(c), NEW p, NEW t, NEW w
    PROVE  /\ [call[c] EXCEPT !.pc = p].pc = p /\ [call[c] EXCEPT !.pc = p].code = call[c].code
           /\ [call[c] EXCEPT !.pc = p, !.tok = t].pc = p /\ [call[c] EXCEPT !.pc = p, !.tok = t].code = call[c].code
           /\ [call[c] EXCEPT !.pc = p, !.entity = w].pc = p
           /\ [call[c] EXCEPT !.pc = p, !.entity = w].code = call[c].code
<1>1. PICK m : m = [call[c] EXCEPT !.pc = p]
  OBVIOUS
<1>2. m = [pc |-> p, tok |-> call[c].tok, code |-> call[c].code, entity |-> call[c].entity]
  BY <1>1 DEF CallOK
<1>3. m.pc = p /\ m.code = call[c].code
  BY <1>2
<1>4. [m EXCEPT !.tok = t].pc = p /\ [m EXCEPT !.tok = t].code = call[c].code
  BY <1>2
<1>5. [m EXCEPT !.entity = w].pc = p /\ [m EXCEPT !.entity = w].code = call[c].code
  BY <1>2
<1> QED
  BY <1>1, <1>3, <1>4, <1>5

\* A step of a call is of that call alone; it arrives at the server only if it
\* reaches it, and one that is there is not cut.
LEMMA StepOfACall ==
    ASSUME Inv, NEW d \in Calls, CallNext(d) \/ AuthenticateFails(d)
    PROVE  \E from, r : /\ Step(d, from, r)
                        /\ r.pc = "arrived" => Reachable(d)
                        /\ from \in {"arrived", "handler"} => r.code # "Unavailable"
<1>0. CallOK(d)
  BY DEF Inv
<1>a. \A code : Answered(code).pc = "answered" /\ Answered(code).code = code
  BY AnsweredRec
<1>b. Returned(d).pc = "idle"
  BY ReturnedRec
<1> DEFINE G == \E x, y : /\ Step(d, x, y)
                          /\ y.pc = "arrived" => Reachable(d)
                          /\ x \in {"arrived", "handler"} => y.code # "Unavailable"
<1> SUFFICES G
  OBVIOUS
<1>g. ASSUME NEW from, NEW r, Step(d, from, r), r.pc # "arrived" \/ Reachable(d),
             from \notin {"arrived", "handler"} \/ r.code # "Unavailable"
      PROVE  G
  BY <1>g
<1>m. ASSUME NEW from, NEW p, Step(d, from, [call[d] EXCEPT !.pc = p]), p # "arrived" \/ Reachable(d),
             from \notin {"arrived", "handler"}
      PROVE  G
  <2>1. [call[d] EXCEPT !.pc = p].pc = p
    BY <1>0, RecFields
  <2> QED
    BY <1>m, <1>g, <2>1
<1>t. ASSUME NEW from, NEW p, NEW t, Step(d, from, [call[d] EXCEPT !.pc = p, !.tok = t]), p # "arrived",
             from \notin {"arrived", "handler"}
      PROVE  G
  <2>1. [call[d] EXCEPT !.pc = p, !.tok = t].pc = p
    BY <1>0, RecFields
  <2> QED
    BY <1>t, <1>g, <2>1
<1>c. ASSUME NEW from, NEW code, Step(d, from, Answered(code)),
             from \notin {"arrived", "handler"} \/ code # "Unavailable"
      PROVE  G
  BY <1>c, <1>a, <1>g
<1>r. ASSUME NEW from, Step(d, from, Returned(d)), from \notin {"arrived", "handler"}
      PROVE  G
  BY <1>r, <1>b, <1>g
<1>o. ASSUME NEW from, NEW a, NEW next, Obtain(d, from, a, next), next # "arrived", from \notin {"arrived", "handler"}
      PROVE  G
  <2>1. CASE a.code = "OK"
    <3>1. PICK t : t = a.token
      OBVIOUS
    <3>2. Step(d, from, [call[d] EXCEPT !.pc = next, !.tok = t])
      BY <1>o, <2>1, <3>1 DEF Obtain
    <3> HIDE DEF G
    <3> QED
      BY <1>o, <1>t, <3>2
  <2>2. CASE a.code # "OK"
    <3>1. Step(d, from, Answered(a.code))
      BY <1>o, <2>2 DEF Obtain
    <3>2. PICK code : code = a.code
      OBVIOUS
    <3> HIDE DEF G
    <3> QED
      BY <1>o, <1>c, <3>1, <3>2
  <2> QED
    BY <2>1, <2>2
<1> HIDE DEF G
<1>x. /\ "metadata" \notin {"arrived", "handler"} /\ "lock" \notin {"arrived", "handler"}
      /\ "send" \notin {"arrived", "handler"}
  OBVIOUS
<1>1. CASE Invoke(d)
  <2>1. PICK r : r = [NewCall EXCEPT !.pc = "metadata"]
    OBVIOUS
  <2>2. r.pc = "metadata"
    BY <2>1 DEF NewCall
  <2>3. Step(d, "idle", r)
    BY <1>1, <2>1 DEF Invoke
  <2> QED
    BY <1>g, <2>2, <2>3
<1>2. CASE StaticMetadata(d)
  <2>1. PICK t, p : t = Token(conf.material) /\ p = "send"
    OBVIOUS
  <2>2. Step(d, "metadata", [call[d] EXCEPT !.pc = p, !.tok = t])
    BY <1>2, <2>1 DEF StaticMetadata
  <2>3. p # "arrived"
    BY <2>1
  <2> QED
    BY <1>t, <1>x, <2>2, <2>3, Zenon
<1>3. CASE GetRequestMetadata(d)
  <2>1. PICK t, p, q : t = cred.ptr /\ p = "send" /\ q = "lock"
    OBVIOUS
  <2>2. \/ Step(d, "metadata", [call[d] EXCEPT !.pc = p, !.tok = t])
        \/ Step(d, "metadata", [call[d] EXCEPT !.pc = q])
    BY <1>3, <2>1 DEF GetRequestMetadata
  <2>3. p # "arrived" /\ q # "arrived"
    BY <2>1
  <2> QED
    BY <1>m, <1>t, <1>x, <2>2, <2>3, Zenon
<1>4. CASE AuthenticateLocks(d)
  <2>1. PICK t, u, p, q, s : /\ t = cred.ptr /\ u = Token(conf.extMaterial) /\ s = "send" /\ q = "authenticate"
                             /\ p = IF DialsExternalAuth(conf) THEN "authenticateTo" ELSE "storePtr"
    OBVIOUS
  <2>2. \/ Step(d, "lock", [call[d] EXCEPT !.pc = s, !.tok = t])
        \/ Step(d, "lock", [call[d] EXCEPT !.pc = q])
        \/ Step(d, "lock", [call[d] EXCEPT !.pc = p, !.tok = u])
    BY <1>4, <2>1 DEF AuthenticateLocks
  <2>3. p # "arrived" /\ q # "arrived" /\ s # "arrived"
    BY <2>1
  <2> QED
    BY <1>m, <1>t, <1>x, <2>2, <2>3, Zenon
<1>5. CASE AuthenticateCall(d)
  <2>1. \E a, next : Obtain(d, "authenticate", a, next) /\ next \in {"storePtr", "authenticateTo"}
    BY <1>5 DEF AuthenticateCall
  <2> QED
    BY <1>o, <2>1
<1>6. CASE AuthenticateToCall(d)
  <2>1. \E a : Obtain(d, "authenticateTo", a, "storePtr")
    BY <1>6 DEF AuthenticateToCall
  <2> QED
    BY <1>o, <2>1
<1>7. CASE AuthenticateFails(d)
  <2>1. \E from \in {"authenticate", "authenticateTo"} : \E a : Obtain(d, from, a, from)
    BY <1>7 DEF AuthenticateFails
  <2> QED
    BY <1>o, <2>1
<1>8. CASE StorePtr(d)
  <2>1. PICK p : p = "storeLen"
    OBVIOUS
  <2>2. Step(d, "storePtr", [call[d] EXCEPT !.pc = p])
    BY <1>8, <2>1 DEF StorePtr
  <2>3. p # "arrived"
    BY <2>1
  <2> QED
    BY <1>m, <2>2, <2>3
<1>9. CASE StoreLen(d)
  <2>1. PICK p : p = "send"
    OBVIOUS
  <2>2. Step(d, "storeLen", [call[d] EXCEPT !.pc = p])
    BY <1>9, <2>1 DEF StoreLen
  <2>3. p # "arrived"
    BY <2>1
  <2> QED
    BY <1>m, <2>2, <2>3
<1>10. CASE Send(d)
  <2>1. CASE Reachable(d)
    <3>1. PICK p : p = "arrived"
      OBVIOUS
    <3>2. Step(d, "send", [call[d] EXCEPT !.pc = p])
      BY <1>10, <2>1, <3>1 DEF Send
    <3> QED
      BY <1>m, <1>x, <2>1, <3>2, Zenon
  <2>2. CASE ~Reachable(d)
    <3>1. Step(d, "send", Answered("Unavailable"))
      BY <1>10, <2>2 DEF Send
    <3> QED
      BY <1>c, <3>1
  <2> QED
    BY <2>1, <2>2
<1>11. CASE Intercept(d)
  <2>1. PICK i : i = Intercepted(d)
    OBVIOUS
  <2>2. i.code \in {"OK", "Unauthenticated", "Internal"}
    BY <2>1, InterceptedGives
  <2>3. CASE i.code = "OK" /\ Service(Methods[d]) \in srv.services
    <3>1. PICK w : w = i.entity
      OBVIOUS
    <3>2. Step(d, "arrived", [call[d] EXCEPT !.pc = "handler", !.entity = w])
      BY <1>11, <2>1, <2>3, <3>1 DEF Intercept
    <3>3. PICK r : r = [call[d] EXCEPT !.pc = "handler", !.entity = w]
      OBVIOUS
    <3>4. r.pc = "handler" /\ r.code = call[d].code
      <4>1. PICK p : p = "handler"
        OBVIOUS
      <4>2. [call[d] EXCEPT !.pc = p, !.entity = w].pc = p /\ [call[d] EXCEPT !.pc = p, !.entity = w].code = call[d].code
        BY <1>0, RecFields
      <4> QED
        BY <3>3, <4>1, <4>2
    <3>5. call[d].code = "none"
      BY <1>0, <3>2 DEF CallOK, Step, Over
    <3> QED
      BY <1>g, <3>2, <3>3, <3>4, <3>5
  <2>4. CASE ~(i.code = "OK" /\ Service(Methods[d]) \in srv.services)
    <3>1. PICK code : code = IF Service(Methods[d]) \notin srv.services THEN "Unimplemented" ELSE i.code
      OBVIOUS
    <3>2. Step(d, "arrived", Answered(code))
      BY <1>11, <2>1, <2>4, <3>1 DEF Intercept
    <3>3. code # "Unavailable"
      BY <2>2, <3>1
    <3> QED
      BY <1>c, <3>2, <3>3
  <2> QED
    BY <2>3, <2>4
<1>12. CASE HandlerReturns(d) \/ Connect(d)
  <2>1. PICK x : x = (IF Methods[d] = "Call" THEN "DeadlineExceeded" ELSE "OK") /\ x # "Unavailable"
    OBVIOUS
  <2>2. \/ Step(d, "handler", Answered("OK")) \/ Step(d, "handler", Answered("PermissionDenied"))
        \/ Step(d, "handler", Answered(x))
    BY <1>12, <2>1 DEF HandlerReturns, Connect
  <2> QED
    BY <1>c, <2>1, <2>2
<1>13. CASE Return(d)
  BY <1>13, <1>r DEF Return
<1>14. CASE ClearPtr(d)
  <2>1. PICK p : p = "clearLen"
    OBVIOUS
  <2>2. Step(d, "answered", [call[d] EXCEPT !.pc = p])
    BY <1>14, <2>1 DEF ClearPtr
  <2>3. p # "arrived"
    BY <2>1
  <2> QED
    BY <1>m, <2>2, <2>3
<1>15. CASE ClearLen(d)
  BY <1>15, <1>r DEF ClearLen
<1> QED
  BY <1>1, <1>2, <1>3, <1>4, <1>5, <1>6, <1>7, <1>8, <1>9, <1>10, <1>11, <1>12, <1>13, <1>14, <1>15 DEF CallNext

\* A step of the server leaves the calls alone, unless it cuts those it serves:
\* the last step of Stop, once the requests it waits for are gone, or a restart.
LEMMA StepOfTheServer ==
    ASSUME Inv, [Next]_vars
    PROVE  \/ call' = call
           \/ \E d \in Calls : CallNext(d) \/ AuthenticateFails(d)
           \/ /\ call' = [c \in Calls |-> IF AtServer(c) THEN Answered("Unavailable") ELSE call[c]]
              /\ Drained \/ srv'.epoch # srv.epoch
<1>1. CASE NewServer \/ RegisterServiceServer \/ ServeNext \/ Stop \/ StopServices \/ StopWebRTC \/ Shutdown \/ Goroutines \/ UNCHANGED vars
  <2>1. UNCHANGED clientVars
    BY <1>1 DEF NewServer, RegisterServiceServer, ServeNext, ServeTLS, Start, StartAnswerers, Stop, StopServices,
                StopWebRTC, Shutdown, Goroutines, HTTPServe, HTTPDone, GRPCServe, AnswererExits, vars, clientVars
  <2> QED
    BY <2>1 DEF clientVars
<1>2. CASE StopGRPC
  BY <1>2 DEF StopGRPC
<1>3. CASE Restart
  <2>1. srv.epoch \in Nat
    BY DEF Inv, ServerOK, Srvs
  <2>2. srv'.epoch = srv.epoch + 1
    BY <1>3 DEF Restart, NewSrv
  <2> QED
    BY <1>3, <2>1, <2>2 DEF Restart
<1>4. ASSUME NEW d \in Calls, ChannelNext(d) PROVE call' = call
  BY <1>4 DEF ChannelNext, ConnectExternally, ChannelRequest, ChannelReturns, ChannelCloses, Channel, channelVars
<1> QED
  BY <1>1, <1>2, <1>3, <1>4 DEF Next, StopNext

\* Stop is graceful, and final, however it meets Serve, requests of several
\* calls on their way, and restarts: a request of a TLS HTTP connection or of a
\* WebRTC channel that is being served is answered by its handler, there is no
\* channel once Stop is past the WebRTC server, and once it has returned no
\* request arrives any more.
THEOREM StopIsGracefulAndFinal == Spec => StopInOrder
<1> DEFINE A == srv'.epoch = srv.epoch =>
                  \A c \in OverHTTP : (AtServer(c) /\ srv.secure) => call'[c].code # "Unavailable"
           C == srv'.epoch = srv.epoch =>
                  \A c \in Calls : chan[c].pc = "handler" => chan'[c].pc # "none"
           B == \A c \in Calls :
                  (run.stop = "returned" /\ call[c].pc # "arrived") => call'[c].pc # "arrived"
           D == run'.stop \in {"shutdown", "drain", "returned"} => \A c \in Calls : chan'[c].pc = "none"
<1>1. Inv /\ [Next]_vars => [A]_vars
  <2> SUFFICES ASSUME Inv, [Next]_vars, NEW c \in OverHTTP, AtServer(c), srv.secure, srv'.epoch = srv.epoch
               PROVE  call'[c].code # "Unavailable"
    OBVIOUS
  <2>0. c \in Calls /\ call[c].code = "none" /\ call = [d \in Calls |-> call[d]]
    BY CallsAssumption DEF Inv, CallOK, AtServer, Over
  <2>1. CASE call' = call
    BY <2>0, <2>1
  <2>2. ASSUME NEW d \in Calls, CallNext(d) \/ AuthenticateFails(d) PROVE call'[c].code # "Unavailable"
    <3>1. PICK from, r : /\ Step(d, from, r)
                         /\ r.pc = "arrived" => Reachable(d)
                         /\ from \in {"arrived", "handler"} => r.code # "Unavailable"
      BY <2>2, StepOfACall
    <3>2. call[d].pc = from /\ call' = [call EXCEPT ![d] = r]
      BY <3>1 DEF Step
    <3>3. CASE d = c
      BY <2>0, <3>1, <3>2, <3>3 DEF AtServer
    <3>4. CASE d # c
      BY <2>0, <3>2, <3>4
    <3> QED
      BY <3>3, <3>4
  <2>3. ~Drained
    BY DEF Drained
  <2> QED
    BY <2>1, <2>2, <2>3, StepOfTheServer
<1>2. Inv /\ [Next]_vars => [B]_vars
  <2> SUFFICES ASSUME Inv, [Next]_vars, NEW c \in Calls, run.stop = "returned", call[c].pc # "arrived"
               PROVE  call'[c].pc # "arrived"
    OBVIOUS
  <2>0. srv.grpc = "stopped" /\ call = [d \in Calls |-> call[d]]
    BY DEF Inv, ServerOK
  <2>1. CASE call' = call
    BY <2>1
  <2>2. ASSUME NEW d \in Calls, CallNext(d) \/ AuthenticateFails(d) PROVE call'[c].pc # "arrived"
    <3>1. PICK from, r : /\ Step(d, from, r)
                         /\ r.pc = "arrived" => Reachable(d)
                         /\ from \in {"arrived", "handler"} => r.code # "Unavailable"
      BY <2>2, StepOfACall
    <3>2. call' = [call EXCEPT ![d] = r]
      BY <3>1 DEF Step
    <3>3. ~Reachable(d)
      BY <2>0 DEF Reachable
    <3>4. CASE d = c
      BY <2>0, <3>1, <3>2, <3>3, <3>4
    <3>5. CASE d # c
      BY <2>0, <3>2, <3>5
    <3> QED
      BY <3>4, <3>5
  <2>3. CASE call' = [d \in Calls |-> IF AtServer(d) THEN Answered("Unavailable") ELSE call[d]]
    <3>1. Answered("Unavailable").pc = "answered"
      BY AnsweredRec
    <3> QED
      BY <2>3, <3>1
  <2> QED
    BY <2>1, <2>2, <2>3, StepOfTheServer
<1>3. Inv /\ ChanInv /\ [Next]_vars => [C]_vars
  <2> SUFFICES ASSUME Inv, ChanInv, [Next]_vars, srv'.epoch = srv.epoch, NEW c \in Calls, chan[c].pc = "handler"
               PROVE  chan'[c].pc # "none"
    OBVIOUS
  <2>1. CASE chan' = chan
    BY <2>1
  <2>2. ASSUME NEW d \in Calls, Connect(d) \/ ChannelNext(d) PROVE chan'[c].pc # "none"
    <3>1. /\ chan' = [chan EXCEPT ![d] = chan'[d]]
          /\ chan[d].pc = "handler" => chan'[d].pc # "none"
      BY <2>2, SetupKept, ChannelStep
    <3> QED
      BY <3>1 DEF ChanInv
  <2>3. ~StopWebRTC
    BY DEF StopWebRTC
  <2>4. ~Restart
    <3>1. srv.epoch \in Nat
      BY DEF Inv, ServerOK, Srvs
    <3>2. Restart => srv'.epoch = srv.epoch + 1
      BY DEF Restart, NewSrv
    <3> QED
      BY <3>1, <3>2
  <2> QED
    BY <2>1, <2>2, <2>3, <2>4, StepOfTheChannels
<1>4. ChanInv' => D
  BY DEF ChanInv, ChanOK
<1>5. Inv /\ ChanInv /\ [Next]_vars => [D]_vars
  BY <1>4, ChanNext
<1>6. Spec => [][A /\ C]_vars /\ [][B /\ D]_vars
  BY <1>1, <1>2, <1>3, <1>5, AccessInvariant, ChannelInvariant, PTL DEF Spec
<1>7. [A /\ C]_vars <=> [srv'.epoch = srv.epoch =>
         /\ \A c \in OverHTTP : (AtServer(c) /\ srv.secure) => call'[c].code # "Unavailable"
         /\ \A c \in Calls : chan[c].pc = "handler" => chan'[c].pc # "none"]_vars
  OBVIOUS
<1> QED
  BY <1>6, <1>7, PTL DEF StopInOrder, StopDrainsRequests, NothingAfterStop

=============================================================================
