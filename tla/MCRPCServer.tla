----------------------------- MODULE MCRPCServer -----------------------------
(* Instances of RPCServer: a robot's server and the service that           *)
(* authenticates users to it.                                              *)
EXTENDS RPCServer

ExtKey == <<"configured", 9>>

APIKeys == MakeSimpleMultiAuthHandler({"alice"}, {"old", "new"})

\* What every robot's server is made with.
Robot ==
    WithEntityDataLoader("api-key", {"alice"},
        WithAuthHandler("api-key", APIKeys,
            WithExternalTokenVerificationKeyProvider({ExtKey},
                WithInstanceNames({"robot"}, NoOptions))))

\* The external service knows alice and may authenticate to the robots.
ExternalService ==
    WithAuthenticateToHandler({"robot", "other"},
        WithAuthHandler("api-key",
            MakeSimpleMultiAuthPairHandler([e \in {"alice"} |-> "new"]),
            WithAuthAudience({"auth"},
                WithAuthPrivateKey(ExtKey, WithJWTSignerKeyID(ExtKey, NoOptions)))))

Direct(payload) ==
    WithEntityCredentials("alice", [type |-> "api-key", payload |-> payload],
        WithForceDirectGRPC(NoDialOptions))

External(to, d) == WithExternalAuth("auth", to, d)

\* Tokens alice got from the external service before.
ToService == SignAccessTokenForEntity(ExternalService, 0, "api-key", {"auth"}, "alice")
ToRobot == SignAccessTokenForEntity(ExternalService, 0, "external", {"robot"}, "alice")

\* Keys made at start, or configured and good for every incarnation.
Generated ==
    WithInternalTLSConfig("good", WithWebRTCServerOptions(FALSE, FALSE, Robot))

Configured ==
    WithPublicMethods({"Watch"}, WithWebRTCServerOptions(TRUE, FALSE,
        WithAuthPrivateKey(<<"configured", 1>>, Robot)))

MutualTLS ==
    WithAllowUnauthenticatedHealthCheck(WithTLSAuthHandler({"ca"},
        WithInternalTLSConfig("good", WithWebRTCServerOptions(TRUE, TRUE,
            WithAuthPrivateKey(<<"configured", 1>>, Robot)))))

\* A server without names, as a test makes them.
Unauthenticated ==
    WithUnauthenticated(WithDisableMulticastDNS(
        WithExternalListenerAddress("front", NoOptions)))

\* The connections of peers that dial WebRTC, to the signaling service of the
\* server.
Peer(payload) ==
    WithEntityCredentials("alice", [type |-> "api-key", payload |-> payload], NoDialOptions)

\* Calls that share a token, and one alone.
Both == {"unary", "stream"}
One == {"unary"}
Watch == {"stream"}
OverWebRTC == {"peer"}

\* Each way of authenticating, none, and the ways of getting options wrong.
NamedSetups ==
    [direct |-> <<Generated, Direct("new"), Both>>,
     denied |-> <<Generated, Direct("wrong"), One>>,
     external |-> <<Configured, External("robot", WithInsecure(Direct("new"))), One>>,
     elsewhere |-> <<Generated, External("other",
        WithStaticExternalAuthenticationMaterial(ToService, Direct(""))), One>>,
     material |-> <<Generated,
        WithStaticExternalAuthenticationMaterial(ToRobot, Direct("")), One>>,
     static |-> <<MutualTLS,
        WithStaticAuthenticationMaterial(ToRobot, WithTLSConfig("ca", Direct(""))), Watch>>,
     tls |-> <<MutualTLS, WithTLSConfig("ca", NoDialOptions), One>>,
     public |-> <<WithPublicMethods({"Get", "Watch"}, Generated),
        WithForceDirectGRPC(NoDialOptions), One>>,
     open |-> <<Unauthenticated, WithInsecure(NoDialOptions), Watch>>,
     mixed |-> <<WithUnauthenticated(Robot), Direct("wrong"), One>>,
     certificate |-> <<WithInternalTLSConfig("bad", Robot), Direct("wrong"), One>>,
     signer |-> <<WithJWTSignerKeyID(ExtKey, Robot), Direct("wrong"), One>>,
     address |-> <<WithInternalBindAddress("taken", Robot), Direct("wrong"), One>>,
     twice |-> <<WithAuthHandler("api-key", {}, Robot), Direct("wrong"), One>>,
     peer |-> <<Generated, SignalingOptions(Peer("new")), OverWebRTC>>,
     stranger |-> <<Generated, SignalingOptions(Peer("wrong")), OverWebRTC>>,
     extPeer |-> <<MutualTLS, SignalingOptions(External("robot", Peer("new"))), OverWebRTC>>,
     otherPeer |-> <<Generated, SignalingOptions(External("other", Peer("new"))), OverWebRTC>>,
     extToken |-> <<MutualTLS, SignalingOptions(External("robot",
        WithStaticExternalAuthenticationMaterial(ToRobot, NoDialOptions))), OverWebRTC>>,
     wrongToken |-> <<Generated, SignalingOptions(External("robot",
        WithStaticExternalAuthenticationMaterial(ToService, NoDialOptions))), OverWebRTC>>,
     tlsPeer |-> <<MutualTLS, SignalingOptions(WithTLSConfig("ca", NoDialOptions)), OverWebRTC>>,
     outside |-> <<Configured, SignalingOptions(NoDialOptions), OverWebRTC>>,
     publicPeer |-> <<WithPublicMethods({"Call"}, Generated), SignalingOptions(NoDialOptions),
        OverWebRTC>>,
     openPeer |-> <<WithWebRTCServerOptions(FALSE, FALSE, Unauthenticated),
        SignalingOptions(WithInsecure(NoDialOptions)), OverWebRTC>>]

\* Names of their own, so that TLC evaluates the definitions above once.
MCExt == ExternalService
MCSetups == NamedSetups

MCMethods ==
    [c \in Calls |-> CASE c = "unary" -> "Get" [] c = "stream" -> "Watch" [] c = "peer" -> "Call"]

=============================================================================
