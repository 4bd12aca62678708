---------------------------- MODULE DialOptions ----------------------------
(***************************************************************************)
(* The options of rpc.Dial, functions from dialOptions to dialOptions      *)
(* applied in order, and what dial and dialDirectGRPC read off them: the   *)
(* ways of connecting that are open, and how a direct connection           *)
(* authenticates its calls.                                                *)
(***************************************************************************)

NoCredentials == [type |-> "", payload |-> ""]

\* Materials hold the token given, if any; cert is what the TLS configuration
\* presents to the server.
NoDialOptions ==
    [insecure |-> FALSE, cert |-> "", downgrade |-> FALSE, credsDowngrade |-> FALSE,
     entity |-> "", creds |-> NoCredentials, webrtc |-> TRUE, extAddr |-> "",
     to |-> "", extMaterial |-> {}, material |-> {}, mdns |-> TRUE, direct |-> TRUE]

WithInsecure(d) == [d EXCEPT !.insecure = TRUE]

WithEntityCredentials(entity, creds, d) ==
    [d EXCEPT !.entity = entity, !.creds = creds]

WithCredentials(creds, d) == WithEntityCredentials("", creds, d)

WithExternalAuth(addr, toEntity, d) ==
    [d EXCEPT !.extAddr = addr, !.to = toEntity]

\* Credentials given before are gone.
WithStaticAuthenticationMaterial(token, d) ==
    [WithCredentials(NoCredentials, d) EXCEPT !.material = {token}]

WithStaticExternalAuthenticationMaterial(token, d) ==
    [WithCredentials(NoCredentials, d) EXCEPT !.extMaterial = {token}]

WithTLSConfig(cert, d) == [d EXCEPT !.cert = cert]

\* The one field of DialWebRTCOptions that the way of dialing depends on.
WithWebRTCOptions(disable, d) == [d EXCEPT !.webrtc = ~disable]

WithAllowInsecureDowngrade(d) == [d EXCEPT !.downgrade = TRUE]

WithAllowInsecureWithCredentialsDowngrade(d) == [d EXCEPT !.credsDowngrade = TRUE]

WithDialMulticastDNSOptions(disable, d) == [d EXCEPT !.mdns = ~disable]

WithDisableDirectGRPC(d) == [d EXCEPT !.direct = FALSE]

WithForceDirectGRPC(d) ==
    [d EXCEPT !.mdns = FALSE, !.webrtc = FALSE, !.direct = TRUE]

\* dialInner: credentials without an entity are those of the address.
AuthEntity(address, d) ==
    IF d.entity # "" THEN d.entity
    ELSE IF d.extAddr = "" THEN address ELSE d.extAddr

\* Without static material, credentials or external material make a connection
\* whose calls carry an access token that is obtained when it is needed.
PerRPCJWTCredentials(d) ==
    d.material = {} /\ (d.creds # NoCredentials \/ d.extMaterial # {})

\* The token comes from another connection, to the external service.
DialsExternalAuth(d) == PerRPCJWTCredentials(d) /\ d.extAddr # ""

\* fixupWebRTCOptions and dialSignalingServer: what the connection to the
\* signaling server is dialled with.  The external material is taken for
\* material of that server.
SignalingOptions(d) ==
    IF d.material = {} THEN [d EXCEPT !.material = d.extMaterial] ELSE d

\* When TLS is not detected: local credentials stay at home unless the caller
\* said they may go in the clear.
RefusesDowngrade(d) ==
    /\ ~d.insecure /\ d.downgrade /\ ~d.credsDowngrade
    /\ d.creds # NoCredentials /\ d.extAddr = ""

=============================================================================
