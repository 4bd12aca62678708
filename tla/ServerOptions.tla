---------------------------- MODULE ServerOptions ----------------------------
(***************************************************************************)
(* The options of rpc.NewServer, each a function from serverOptions to     *)
(* serverOptions that may fail.  NewServer applies them in order and       *)
(* returns the first error: a set of options with err makes no server, so  *)
(* what later options do to it does not matter.                            *)
(***************************************************************************)
EXTENDS Auth, TLC

NoHandlers == [t \in {} |-> {}]

\* What is unset is empty; tls and tlsAuth hold the configuration and the
\* handler's entities when there is one.
NoOptions ==
    [err |-> FALSE, bind |-> "", listener |-> "", names |-> {}, tls |-> {},
     webrtc |-> [enable |-> FALSE, external |-> FALSE, internal |-> FALSE],
     unauthenticated |-> FALSE, keys |-> {}, signer |-> NoKey, audience |-> {},
     tlsAuth |-> {}, handlers |-> NoHandlers, loaders |-> NoHandlers,
     providers |-> NoHandlers, authTo |-> {}, public |-> {}, health |-> FALSE,
     disableMDNS |-> FALSE]

Failed(o) == [o EXCEPT !.err = TRUE]

WithInternalBindAddress(address, o) == [o EXCEPT !.bind = address]

WithExternalListenerAddress(address, o) == [o EXCEPT !.listener = address]

\* The certificate of the configuration: good, or one NewServer cannot use.
WithInternalTLSConfig(cert, o) == [o EXCEPT !.tls = {cert}]

\* external: the address of an external signaling server is given.
WithWebRTCServerOptions(external, internal, o) ==
    [o EXCEPT !.webrtc = [enable |-> TRUE, external |-> external,
                          internal |-> internal]]

WithInstanceNames(names, o) ==
    IF names = {} THEN Failed(o) ELSE [o EXCEPT !.names = names]

WithUnauthenticated(o) == [o EXCEPT !.unauthenticated = TRUE]

\* The RSA and the ED25519 option alike: keys are filed under their thumbprint.
WithAuthPrivateKey(key, o) == [o EXCEPT !.keys = @ \cup {key}]

WithJWTSignerKeyID(keyID, o) == [o EXCEPT !.signer = keyID]

WithAuthAudience(audience, o) ==
    IF audience = {} THEN Failed(o) ELSE [o EXCEPT !.audience = audience]

WithTLSAuthHandler(entities, o) == [o EXCEPT !.tlsAuth = {entities}]

\* kind is the one of the three handlers of forType that is given.
WithCredAuthHandlers(forType, kind, handler, o) ==
    IF forType \in {"internal", ""} \/ forType \in DOMAIN o[kind] THEN Failed(o)
    ELSE [o EXCEPT ![kind] = @ @@ (forType :> handler)]

WithAuthHandler(forType, handler, o) ==
    WithCredAuthHandlers(forType, "handlers", handler, o)

\* A loader is the set of entities it finds data of.
WithEntityDataLoader(forType, loader, o) ==
    WithCredAuthHandlers(forType, "loaders", loader, o)

\* A provider is the set of keys it hands out.
WithTokenVerificationKeyProvider(forType, provider, o) ==
    WithCredAuthHandlers(forType, "providers", provider, o)

\* The verifiers by a public key, by a key set or by an OIDC issuer.
WithExternalTokenVerificationKeyProvider(provider, o) ==
    WithTokenVerificationKeyProvider("external", provider, o)

\* The entities the handler lets its callers authenticate to.
WithAuthenticateToHandler(entities, o) == [o EXCEPT !.authTo = entities]

WithDisableMulticastDNS(o) == [o EXCEPT !.disableMDNS = TRUE]

WithAllowUnauthenticatedHealthCheck(o) == [o EXCEPT !.health = TRUE]

WithPublicMethods(methods, o) == [o EXCEPT !.public = methods]

=============================================================================
