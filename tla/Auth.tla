-------------------------------- MODULE Auth --------------------------------
(***************************************************************************)
(* What rpc.NewServer makes of its authentication options, and how the    *)
(* server it returns decides on a request: who may obtain a token          *)
(* (Authenticate, AuthenticateTo), what a token says, and as whom a        *)
(* request that carries one is served (ensureAuthed and the two            *)
(* interceptors).  Pure operators over a server's authentication data;     *)
(* RPCServer uses them for the server it models and for the external       *)
(* authentication service.                                                 *)
(*                                                                         *)
(* A key is <<origin, number>>, a token the claims the server reads with   *)
(* the key that signed it; a signature verifies exactly under that key.    *)
(***************************************************************************)
EXTENDS Naturals, FiniteSets

NoKey == <<"none", 0>>

NoToken == [key |-> NoKey, sub |-> "", aud |-> {}, type |-> ""]

\* Entity of a context without one (ContextAuthEntity's ok = false).
Anonymous == ""

\* One of the entities a peer presents is on the list.
MakeEntitiesChecker(forEntities, entity) == entity \in forEntities

\* Every payload of expectedPayloads is good for every entity.
MakeSimpleMultiAuthHandler(forEntities, expectedPayloads) ==
    forEntities \X expectedPayloads

\* Each entity has its own payload.
MakeSimpleMultiAuthPairHandler(expectedPayloads) ==
    {<<e, expectedPayloads[e]>> : e \in DOMAIN expectedPayloads}

\* The key ED25519 generates for a server that was given none: another one
\* for every server made.
GenerateKey(epoch) == <<"generated", epoch>>

(***************************************************************************)
(* Options as NewServer sees them once applied: whether authentication is  *)
(* off, the configured keys and the signer's key ID, the AuthHandler, the  *)
(* EntityDataLoader (the entities it knows) and the                        *)
(* TokenVerificationKeyProvider (the keys it hands out) of each            *)
(* credentials type, the TLS handler's entities if there is one, the       *)
(* audience and the instance names, the authenticate-to handler's entities *)
(* and the methods' standing.  ServerOptions makes them.                   *)
(***************************************************************************)
CredTypes(o) == DOMAIN o.handlers \cup DOMAIN o.loaders \cup DOMAIN o.providers

ErrMixedUnauthAndAuth(o) ==
    /\ o.unauthenticated
    /\ CredTypes(o) # {} \/ o.tlsAuth # {}

KeyError(o) ==
    \/ o.keys = {} /\ o.signer # NoKey
    \/ Cardinality(o.keys) > 1 /\ o.signer = NoKey
    \/ /\ ~o.unauthenticated
       /\ o.keys # {} /\ o.signer # NoKey
       /\ o.signer \notin o.keys

AuthKeys(o, epoch) ==
    IF o.keys = {} /\ ~o.unauthenticated THEN {GenerateKey(epoch)} ELSE o.keys

AuthKeyForJWTSigning(o, epoch) ==
    IF o.unauthenticated THEN NoKey
    ELSE IF o.signer # NoKey THEN o.signer
    ELSE CHOOSE k \in AuthKeys(o, epoch) : TRUE

\* Without names the address is the name: the external listener's, or the one
\* the gRPC listener is bound to.
InstanceNames(o) ==
    IF o.names # {} THEN o.names
    ELSE {IF o.listener # "" THEN o.listener ELSE "bound"}

\* Tokens are made out to, and accepted for, the instance when nothing else is
\* configured.
Audience(o) == IF o.audience = {} THEN InstanceNames(o) ELSE o.audience

\* The types authHandlersForCreds knows, the internal one of the server's own
\* answerers among them.
HandledTypes(o) ==
    CredTypes(o) \cup (IF o.unauthenticated THEN {} ELSE {"internal"})

SignAccessTokenForEntity(o, epoch, forType, audience, entity) ==
    [key |-> AuthKeyForJWTSigning(o, epoch), sub |-> entity, aud |-> audience,
     type |-> forType]

Denied(code) == [code |-> code, token |-> NoToken]

Granted(token) == [code |-> "OK", token |-> token]

\* AuthService.Authenticate: exempt from the interceptor's check, and not
\* registered on an unauthenticated server.
Authenticate(o, epoch, entity, type, payload) ==
    IF o.unauthenticated THEN Denied("Unimplemented")
    ELSE IF type \notin HandledTypes(o) THEN Denied("InvalidArgument")
    ELSE IF type \notin DOMAIN o.handlers THEN Denied("Unimplemented")
    ELSE IF <<entity, payload>> \notin o.handlers[type]
         THEN Denied("Unauthenticated")
    ELSE Granted(SignAccessTokenForEntity(o, epoch, type, Audience(o), entity))

\* A provider hands out a key for tokens of its signing method, or its key ID,
\* alone.
TokenVerificationKey(provider, token) == provider \cap {token.key}

\* The key the token must verify under: the type's provider decides, or the
\* server's own keys by the token's kid.
VerificationKeys(o, epoch, token) ==
    IF token.type \in DOMAIN o.providers
    THEN TokenVerificationKey(o.providers[token.type], token)
    ELSE AuthKeys(o, epoch)

Refused(code) == [code |-> code, entity |-> Anonymous]

\* The one bearer token of the request's metadata.
TokenFromContext(token) == token # NoToken

\* There was none: the peer's verified certificate, if it has one, may do.
TLSAuthed(o, cert) ==
    IF cert # "" /\ MakeEntitiesChecker(UNION o.tlsAuth, cert) THEN [code |-> "OK", entity |-> cert]
    ELSE Refused("Unauthenticated")

\* Mutant of EnsureAuthed: the audience is not looked at.
EnsureAuthedAnyAudience(o, epoch, token, cert) ==
    IF ~TokenFromContext(token) THEN TLSAuthed(o, cert)
    ELSE IF \/ token.type \notin HandledTypes(o)
            \/ token.key \notin VerificationKeys(o, epoch, token)
            \/ token.sub = ""
         THEN Refused("Unauthenticated")
    ELSE [code |-> "OK", entity |-> token.sub]

EnsureAuthed(o, epoch, token, cert) ==
    IF ~TokenFromContext(token) THEN TLSAuthed(o, cert)
    ELSE IF \/ token.type \notin HandledTypes(o)
            \/ token.key \notin VerificationKeys(o, epoch, token)
            \/ token.aud \cap Audience(o) = {}
            \/ token.sub = ""
         THEN Refused("Unauthenticated")
    ELSE IF token.type \in DOMAIN o.loaders /\ token.sub \notin o.loaders[token.type]
         THEN Refused("Internal")
    ELSE [code |-> "OK", entity |-> token.sub]

\* Only "not authenticated" lets a public method go on without an entity.
TryAuth(o, epoch, token, cert) ==
    LET r == EnsureAuthed(o, epoch, token, cert)
    IN  IF r.code = "Unauthenticated"
        THEN [code |-> "OK", entity |-> Anonymous]
        ELSE r

ExemptMethods(o) ==
    (IF o.unauthenticated THEN {} ELSE {"Authenticate"})
        \cup (IF o.health THEN {"Check", "Watch"} ELSE {})

\* Absent, like the interceptor of streams (the whole request is let through),
\* when the server is unauthenticated.
AuthUnaryInterceptor(o, epoch, method, token, cert) ==
    IF o.unauthenticated \/ method \in ExemptMethods(o)
    THEN [code |-> "OK", entity |-> Anonymous]
    ELSE IF method \in o.public THEN TryAuth(o, epoch, token, cert)
    ELSE EnsureAuthed(o, epoch, token, cert)

\* A public method's handler is given the context in the place of the service:
\* its type assertion panics, which the recovery interceptor answers.
AuthStreamInterceptor(o, epoch, method, token, cert) ==
    IF o.unauthenticated \/ method \in ExemptMethods(o)
    THEN [code |-> "OK", entity |-> Anonymous]
    ELSE IF method \in o.public
    THEN LET r == TryAuth(o, epoch, token, cert)
         IN  IF r.code = "OK" THEN Refused("Internal") ELSE r
    ELSE EnsureAuthed(o, epoch, token, cert)

\* ExternalAuthService.AuthenticateTo, behind the interceptor: the entity is
\* the caller's, the audience the one it asks for.
AuthenticateTo(o, epoch, token, to) ==
    LET r == AuthUnaryInterceptor(o, epoch, "AuthenticateTo", token, "")
    IN  CASE r.code # "OK" -> Denied(r.code)
          [] r.code = "OK" /\ r.entity = Anonymous -> Denied("Internal")
          [] r.code = "OK" /\ r.entity # Anonymous /\ to \notin o.authTo ->
               Denied("PermissionDenied")
          [] OTHER ->
               Granted(SignAccessTokenForEntity(o, epoch, "external", {to}, r.entity))

=============================================================================
